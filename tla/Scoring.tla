-------------------------------- MODULE Scoring --------------------------------
(***************************************************************************)
(* scoring.ts and effort.ts: the readiness score and the estimate of the   *)
(* work.  A finding has its file here; hours are counted in quarters.      *)
(***************************************************************************)
EXTENDS Integers, FiniteSets, FiniteSetsExt, Functions

DeductionFor(a) ==
  CASE a.level = "error" -> IF a.confidence = "high" THEN 15 ELSE 10
    [] a.level = "warning" -> 5
    [] a.level = "review" -> 3
    [] a.level = "info" -> 0

\* One for each rule and file: the most severe.
Deductions(findings) ==
  LET actionable == {a \in findings : DeductionFor(a) > 0}
      Of(r, f) == {a \in actionable : a.rule = r /\ a.file = f}
  IN {[rule |-> a.rule, file |-> a.file,
       points |-> Max({DeductionFor(b) : b \in Of(a.rule, a.file)})] : a \in actionable}

Score(findings) ==
  LET D == Deductions(findings)
      total == FoldFunctionOnSet(+, 0, [d \in D |-> d.points], D)
  IN IF total > 100 THEN 0 ELSE 100 - total

PER_FILE_CAP == 5

Category(key, mode, min, max, rules) ==
  [key |-> key, mode |-> mode, min |-> min, max |-> max, rules |-> rules]

CATEGORIES ==
  {Category("session-lifecycle", "once", 8, 32,
     {"SESSION-001", "SESSION-002", "SESSION-003", "LIFECYCLE-001", "LIFECYCLE-002", "LIFECYCLE-003"}),
   Category("header-migration", "per-file", 2, 8, {"HEADER-001", "HEADER-002"}),
   Category("literal-config", "per-file", 1, 2, {"ERROR-001", "ERROR-002", "ERROR-003", "SAMPLING-002"}),
   Category("tasks-migration", "once", 8, 24, {"TASKS-001", "TASKS-002", "TASKS-003", "TASKS-004"}),
   Category("sampling-replacement", "once", 8, 32, {"SAMPLING-001"}),
   Category("roots-migration", "once", 2, 12, {"ROOTS-001", "ROOTS-002"}),
   Category("logging-migration", "once", 2, 8, {"LOGGING-001", "LOGGING-002"}),
   Category("sdk-v2-migration", "once", 8, 32, {"SDK-001"}),
   Category("mrtr-migration", "once", 8, 32, {"MRTR-001", "MRTR-002", "MRTR-003"}),
   Category("elicitation-removal", "once", 4, 16, {"ELICITATION-001"}),
   Category("protocol-shapes", "per-file", 2, 8, {"RESULT-001", "META-001", "DISCOVERY-001", "CACHE-001"}),
   Category("manual-review", "per-file", 1, 4, {"SESSION-004"})}

ADDITIONAL_MIGRATION == Category("additional-migration", "per-file", 2, 8, {})

CategoryFor(rule) ==
  IF \E c \in CATEGORIES : rule \in c.rules THEN CHOOSE c \in CATEGORIES : rule \in c.rules
  ELSE ADDITIONAL_MIGRATION

EstimateEffort(findings) ==
  LET actionable == {a \in findings : a.level # "info"}
      used == {CategoryFor(a.rule) : a \in actionable}
      Files(c) == {a.file : a \in {b \in actionable : CategoryFor(b.rule) = c}}
      Times(c) == IF c.mode = "once" THEN 1 ELSE Min({Cardinality(Files(c)), PER_FILE_CAP})
  IN [items |-> {[key |-> c.key, files |-> Files(c), min |-> c.min * Times(c),
                  max |-> c.max * Times(c)] : c \in used},
      min |-> FoldFunctionOnSet(+, 0, [c \in used |-> c.min * Times(c)], used),
      max |-> FoldFunctionOnSet(+, 0, [c \in used |-> c.max * Times(c)], used)]
=============================================================================
