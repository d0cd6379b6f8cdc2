------------------------------ MODULE ScanEngine ------------------------------
(***************************************************************************)
(* engine.ts and the scan command: the files discovered are classified,    *)
(* the rules run one after the other, a report is assembled and an exit    *)
(* code is computed from it.  A scenario also has                          *)
(*                                                                         *)
(*   source         what the rules see of each file (RuleHelpers)          *)
(*   base           the path of each entry once it is redacted, a sequence *)
(*   ci, failOn, minConfidence    options                                  *)
(*   fails          something of the scanner throws                        *)
(***************************************************************************)
EXTENDS Discovery, LifecycleRules, FeatureRules, HeaderRules, ModernRules, Classification, Scoring

CONSTANTS
  MaxFindings,      \* MAX_FINDINGS
  MaxFileResults,   \* MAX_FILE_RESULTS
  MaxIssueDetails   \* MAX_ISSUE_DETAILS

ASSUME EngineAssumption ==
  {MaxFindings, MaxFileResults} \subseteq Nat /\ MaxIssueDetails \in Nat \ {0, 1}

\* What a site shows: an object has all members the rules ask for, a result the
\* spans of its parts.
IsSite(s) ==
  /\ {"what", "parents", "facts", "object", "line", "span"} \subseteq DOMAIN s
  /\ s.line \in Nat /\ s.span \in Nat \X Nat
  /\ s.what = "result" =>
       /\ s.object.at \in [{"member", "entry", "handler"} -> Nat \X Nat]
       /\ {"resultType", "inputRequests", "requestState", "cacheScope", "pollIntervalMs",
           "handler", "routed", "at"} \cup TaskFields \subseteq DOMAIN s.object
  /\ s.what = "raw request" =>
       {"method", "params", "_meta", "version", "capabilities"} \subseteq DOMAIN s.object

EraFacts(s) == {"legacy branch", "legacy nearby"} \cap s.facts

\* Whether a place is guarded does not depend on what is found there.
ASSUME SourceAssumption ==
  \A sc \in Scenarios :
    /\ sc.base \in [Entries -> Seq(Nat)]
    /\ sc.failOn \in {"error", "warning", "review"}
    /\ sc.minConfidence \in {"high", "medium", "low"}
    /\ \A e \in DOMAIN sc.tree :
         /\ DOMAIN sc.source[e] = {"kind", "facts", "sites"}
         /\ IsFiniteSet(sc.source[e].sites)
         /\ \A s \in sc.source[e].sites : IsSite(s)
         /\ \A s1, s2 \in sc.source[e].sites : s1.span = s2.span => EraFacts(s1) = EraFacts(s2)

VARIABLES
  repository,   \* what classify returned
  ruleIndex,    \* the next rule
  allFindings, findingLimitReached,
  report,
  exitCode

engineVars == <<repository, ruleIndex, allFindings, findingLimitReached, report, exitCode>>
vars == <<discoveryVars, engineVars>>

NoReport == [scanStatus |-> "none"]
NoCode == -1
EXIT_OK == 0
EXIT_FINDINGS == 1
EXIT_USAGE == 2
EXIT_INTERNAL == 3

source == scenario.source

------------------------------------------------------------------------------
(* The rules                                                                 *)

ALL_RULES ==
  << APPS_001, CACHE_001, DISCOVERY_001, ELICITATION_001, ERROR_001, ERROR_002, ERROR_003,
     HEADER_001, HEADER_002, HEADER_003, LIFECYCLE_001, LIFECYCLE_002, LIFECYCLE_003,
     LOGGING_001, LOGGING_002, META_001, MRTR_001, MRTR_002, MRTR_003, RESULT_001,
     ROOTS_001, ROOTS_002, SAMPLING_001, SAMPLING_002, SDK_001, SESSION_001, SESSION_002,
     SESSION_003, SESSION_004, TASKS_001, TASKS_002, TASKS_003, TASKS_004 >>

\* What rule pushes for src.
Pushed(rule, src, repo) ==
  CASE rule = APPS_001 -> AppsReadiness(src, repo)
    [] rule = CACHE_001 -> CacheableResult(src)
    [] rule = DISCOVERY_001 -> <<DiscoveryShape(src)[1]>>
    [] rule = ELICITATION_001 -> RemovedElicitationSurface(src)
    [] rule = ERROR_001 -> ResourceNotFoundEmit(src)
    [] rule = ERROR_002 -> ResourceNotFoundAmbiguous(src)
    [] rule = ERROR_003 -> RenamedProtocolError(src)
    [] rule = HEADER_001 -> MissingRequestHeaders(src)
    [] rule = HEADER_002 -> UnvalidatedHeaders(src)
    [] rule = HEADER_003 -> HeadersImplemented(src)
    [] rule = LIFECYCLE_001 -> InitializationLifecycle(src)
    [] rule = LIFECYCLE_002 -> RemovedCoreMethods(src)
    [] rule = LIFECYCLE_003 -> TransportMechanics(src)
    [] rule = LOGGING_001 -> LoggingDeprecation(src)
    [] rule = LOGGING_002 -> LoggingSetLevel(src)
    [] rule = META_001 -> RequiredRequestMetadata(src)
    [] rule = MRTR_001 -> DirectServerRequest(src)
    [] rule = MRTR_002 -> InputRequiredShape(src)
    [] rule = MRTR_003 -> RequestStateIntegrity(src)
    [] rule = RESULT_001 -> RequiredResultType(src)
    [] rule = ROOTS_001 -> RootsDeprecation(src)
    [] rule = ROOTS_002 -> RootsListChanged(src)
    [] rule = SAMPLING_001 -> SamplingDeprecation(src)
    [] rule = SAMPLING_002 -> IncludeContext(src)
    [] rule = SDK_001 -> LegacySdkEntrypoint(src)
    [] rule = SESSION_001 -> SessionHeader(src, repo)
    [] rule = SESSION_002 -> SessionOptions(src)
    [] rule = SESSION_003 -> SessionState(src)
    [] rule = SESSION_004 -> StickySessions(src, repo)
    [] rule = TASKS_001 -> RemovedTaskMethods(src)
    [] rule = TASKS_002 -> LegacyTaskCapability(src)
    [] rule = TASKS_003 -> LegacyTaskStructures(src)
    [] rule = TASKS_004 -> TaskAugmentedSampling(src)

TransportApplies(rule, repo) == repo.transport \in rule.transports
FilesFor(rule, S) == InOrder({e \in S : source[e].kind \in rule.kinds})

InFile(e, F) == {[a \in DOMAIN x \cup {"file"} |-> IF a = "file" THEN e ELSE x[a]] : x \in F}

\* rule.scan: the findings of a rule in the files S, in their order.
Scan(rule, S, repo) ==
  LET of == FilesFor(rule, S)
      lacks == IF rule # DISCOVERY_001 THEN 0
               ELSE NoDiscoverRegistered([i \in DOMAIN of |-> source[of[i]]])
      pushed(i) == Pushed(rule, source[of[i]], repo)
                     \o (IF i = lacks THEN <<NoDiscover(source[of[i]])>> ELSE <<>>)
  IN UNION {InFile(of[i], DedupeByLocation(pushed(i))) : i \in DOMAIN of}

MeetsConfidence(a) == a.level = "info" \/ Strength(a.confidence) <= Strength(scenario.minConfidence)

------------------------------------------------------------------------------
(* runScan                                                                   *)

ClassifyFiles ==
  /\ stage = "discovered" /\ ~scenario.fails
  /\ repository' = Classify({source[e] : e \in prepared})
  /\ stage' = "rules"
  /\ UNCHANGED <<treeVars, todo, walkVars, fileVars, ruleIndex, allFindings,
                 findingLimitReached, report, exitCode>>

\* Of more findings than there is room for, those that come first are kept; what
\* the order within a rule is, is left open.
RunRule ==
  LET rule == ALL_RULES[ruleIndex]
      reportable == {a \in Scan(rule, prepared, repository) : MeetsConfidence(a)}
      remaining == MaxFindings - Cardinality(allFindings)
  IN
  /\ stage = "rules" /\ ruleIndex <= Len(ALL_RULES) /\ ~findingLimitReached
  /\ ruleIndex' = ruleIndex + 1
  /\ \/ /\ ~TransportApplies(rule, repository) \/ FilesFor(rule, prepared) = <<>>
        /\ UNCHANGED <<allFindings, findingLimitReached>>
     \/ /\ TransportApplies(rule, repository) /\ FilesFor(rule, prepared) # <<>>
        /\ findingLimitReached' = (Cardinality(reportable) > remaining)
        /\ \E kept \in kSubset(Least(remaining, Cardinality(reportable)), reportable) :
             allFindings' = allFindings \cup kept
  /\ UNCHANGED <<discoveryVars, repository, report, exitCode>>

\* InternalScannerError, from discover, classify or a rule.
Throw ==
  /\ stage \in {"read", "discovered"} /\ scenario.fails
  /\ stage' = "done"
  /\ exitCode' = EXIT_INTERNAL
  /\ UNCHANGED <<treeVars, todo, walkVars, fileVars, repository, ruleIndex, allFindings,
                 findingLimitReached, report>>

------------------------------------------------------------------------------
(* The report                                                                *)

RawPaths == {Root} \cup prepared \cup {s.path : s \in skipped}

Base(p) == scenario.base[p]

\* mutated form: the first suffixes, free or not
NextSuffix(p) ==
  LET group == {q \in RawPaths : Base(q) = Base(p)}
  IN IF group = {p} THEN Base(p)
     ELSE Append(Base(p), Cardinality({q \in group : Rank[q] <= Rank[p]}))

\* createReportPathSanitizer: paths that redaction made one get the next suffixes
\* that make no path of the report.
PublicPath(p) ==
  LET group == {q \in RawPaths : Base(q) = Base(p)}
      place == Cardinality({q \in group : Rank[q] <= Rank[p]})
      free == {k \in 1 .. 2 * Cardinality(RawPaths) :
                 Append(Base(p), k) \notin {Base(q) : q \in RawPaths}}
  IN IF group = {p} THEN Base(p)
     ELSE Append(Base(p), CHOOSE k \in free : Cardinality(free \cap 1 .. k) = place)

SanitizeFinding(a) == [a EXCEPT !.file = PublicPath(@)]

Over(n, limit) == IF n > limit THEN n - limit ELSE 0

PartialSkips == {s \in skipped : s.reason \in PartialReasons}

\* mutated form: the report does not say that findings were dropped
LimitUntold ==
  LET told == Least(Cardinality(PartialSkips), MaxIssueDetails)
      cut == Cardinality(PartialSkips) > told
  IN [details |-> IF cut THEN told - 1 ELSE told, findingLimit |-> FALSE, reportLimit |-> cut,
      omitted |-> IF cut THEN Cardinality(PartialSkips) - told + 1 ELSE 0]

\* buildIssues, and the notices that the report itself was cut: a notice takes
\* the place of a detail.
Issues ==
  LET told == Least(Cardinality(PartialSkips), MaxIssueDetails)
      files0 == prepared \cup {s.path : s \in {x \in skipped : x.type = "file"}}
      base == Over(Cardinality(files0), MaxFileResults)
                + Over(Cardinality(PartialSkips), MaxIssueDetails)
      room == MaxIssueDetails - (IF findingLimitReached THEN 1 ELSE 0)
      cut == base > 0 \/ told > room
      capacity == IF cut THEN room - 1 ELSE room
  IN [details |-> Least(told, capacity),
      findingLimit |-> findingLimitReached,
      reportLimit |-> cut,
      omitted |-> base + Over(told, capacity)]

IssueCount(i) == i.details + (IF i.findingLimit THEN 1 ELSE 0) + (IF i.reportLimit THEN 1 ELSE 0)

Counts(F) == [l \in {"error", "warning", "review", "info"} |-> Cardinality({a \in F : a.level = l})]

FileResults ==
  {[path |-> e, file |-> PublicPath(e), scanned |-> e \in prepared,
    findingCount |-> Cardinality({a \in allFindings : a.file = e})] :
     e \in prepared \cup {s.path : s \in {x \in skipped : x.type = "file"}}}

\* buildSummary: of the findings under their public paths.
Summary ==
  LET F == {SanitizeFinding(a) : a \in allFindings} IN
  [filesScanned |-> Cardinality(prepared),
   filesSkipped |-> Cardinality({s \in skipped : s.type = "file"}),
   filesRequiringChanges |-> Cardinality({a.file : a \in {b \in F : b.level # "info"}}),
   counts |-> Counts(F),
   readiness |-> Score(F),
   effort |-> EstimateEffort(F),
   appsReadiness |-> DeriveAppsReadiness(repository, {source[e] : e \in prepared}, F)]

RulesDone == ruleIndex > Len(ALL_RULES) \/ findingLimitReached

BuildReport ==
  /\ stage = "rules" /\ RulesDone
  /\ report' = [scanStatus |-> IF IssueCount(Issues) = 0 THEN "complete" ELSE "partial",
                issues |-> Issues,
                summary |-> Summary,
                files |-> FileResults]
  /\ stage' = "reported"
  /\ UNCHANGED <<treeVars, todo, walkVars, fileVars, repository, ruleIndex, allFindings,
                 findingLimitReached, exitCode>>

FAIL_ON_LEVELS ==
  [error |-> {"error"}, warning |-> {"error", "warning"}, review |-> {"error", "warning", "review"}]

ComputeExitCode ==
  IF report.scanStatus = "partial" THEN EXIT_USAGE
  ELSE IF ~scenario.ci THEN EXIT_OK
  ELSE IF \E l \in FAIL_ON_LEVELS[scenario.failOn] : report.summary.counts[l] > 0
       THEN EXIT_FINDINGS ELSE EXIT_OK

\* main; a target that was refused is a UsageError.
Exit ==
  /\ stage \in {"reported", "refused"}
  /\ exitCode' = IF stage = "refused" THEN EXIT_USAGE ELSE ComputeExitCode
  /\ stage' = "done"
  /\ UNCHANGED <<treeVars, todo, walkVars, fileVars, repository, ruleIndex, allFindings,
                 findingLimitReached, report>>

Init ==
  /\ DiscoveryInit
  /\ repository = Classify({})
  /\ ruleIndex = 1
  /\ allFindings = {} /\ findingLimitReached = FALSE
  /\ report = NoReport
  /\ exitCode = NoCode

Next ==
  \/ DiscoveryNext /\ UNCHANGED engineVars
  \/ ClassifyFiles \/ RunRule \/ Throw \/ BuildReport \/ Exit

Spec == Init /\ [][Next]_vars

------------------------------------------------------------------------------
(* Properties                                                                *)

\* The files somebody who runs the scan expects it to have looked at.
Intended == IF single # NoFile THEN {single} ELSE {e \in DOMAIN tree : InScope(e)}

\* A build is green only over a clean tree: with exit code 0 under --ci every file
\* in scope was given to the rules, and no rule that applies has anything to say of
\* it at a failing level.  No limit, partial walk, duplicate or filter on the way
\* from the file to the exit code loses what the build should have failed for.
GreenBuildIsClean ==
  stage = "done" /\ exitCode = EXIT_OK /\ scenario.ci =>
    LET repo == Classify({source[e] : e \in Intended}) IN
    /\ prepared = Intended
    /\ \A rule \in Range(ALL_RULES), e \in Intended :
         TransportApplies(rule, repo) /\ source[e].kind \in rule.kinds =>
           \A x \in Scan(rule, Intended, repo) \cup UNION Range(Pushed(rule, source[e], repo)) :
             ~(x.level \in FAIL_ON_LEVELS[scenario.failOn] /\ MeetsConfidence(x))

\* What is left out of a report is counted in it: the issues fit their limit with
\* the notices among them, the details kept and the number omitted add up to what
\* there was, and two files never share a public path, so the score and the
\* estimate are those of the files as they are named on disk.
ReportIsHonest ==
  report # NoReport =>
    LET i == report.issues
        results == Cardinality(report.files)
    IN
    /\ IssueCount(i) <= MaxIssueDetails
    /\ i.details + i.omitted = Cardinality(PartialSkips) + Over(results, MaxFileResults)
    /\ i.reportLimit <=> i.omitted > 0
    /\ Cardinality({r.file : r \in report.files}) = results
    /\ report.summary.readiness = Score(allFindings)
    /\ report.summary.effort.max = EstimateEffort(allFindings).max

\* What a member that cannot be read, or that a spread may supply, can turn out to be.
Literals ==
  [resultType |-> {"complete", "input_required", "task"},
   inputRequests |-> {"empty", "good entry", "bad entry"}, requestState |-> {"good"},
   ttlMs |-> {"good", "wrong"}, cacheScope |-> {"good", "wrong"}, taskId |-> {"good", "wrong"},
   params |-> {"object"}, _meta |-> {"object"}, version |-> {"good"}, capabilities |-> {"good"}]

Spread(key) == CASE key \in {"version", "capabilities"} -> "meta spread"
                 [] key = "_meta" -> "params spread"
                 [] OTHER -> "opaque"
MayBecome(s, key) ==
  IF s.object[key] \in {"shorthand", "dynamic"} \/ (Absent(s, key) /\ Spread(key) \in s.facts) THEN Literals[key] ELSE {}

Completions(s) ==
  UNION {{[s EXCEPT !.object[key] = v] : v \in MayBecome(s, key)} :
           key \in DOMAIN s.object \cap DOMAIN Literals}

With(src, s, t) == [src EXCEPT !.sites = (@ \ {s}) \cup {t}]

\* The rules assert an error of an object and leave the type of a result open
\* (CACHE-001), or that a spread may hold the parameters (META-001).
Presumed(x, s, t) ==
  \/ x.rule = CACHE_001.id /\ t.object.resultType # s.object.resultType
  \/ x.rule = META_001.id /\ t.object.params # s.object.params

\* The errors a legacy branch does not soften: headers, the entries of a list of
\* input requests, and what is wrong with a task whatever the era.
Timeless == {HEADER_001.id, MRTR_002.id, RESULT_001.id}

\* An error is definite.  Whatever the members of an object that the scanner cannot
\* read turn out to be, it is still an error; what depends on them is for review,
\* and so is code the scanner sees is there for clients of the old protocol.
ErrorsAreDefinite ==
  stage = "done" =>
    \A x \in {y \in allFindings : y.level = "error"} :
      \A s \in source[x.file].sites :
        /\ IsLegacyEraGuarded(source[x.file], s) /\ s.span = x.span => x.rule \in Timeless
        /\ s.what \in {"result", "raw request"} =>
             \A t \in Completions(s) :
               \/ Presumed(x, s, t)
               \/ \E rule \in {r \in Range(ALL_RULES) : r.id = x.rule} :
                    \E y \in UNION Range(Pushed(rule, With(source[x.file], s, t), repository)) :
                      y.level = "error" /\ y.span = x.span
=============================================================================
