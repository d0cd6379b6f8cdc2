----------------------------- MODULE RuleHelpers -----------------------------
(***************************************************************************)
(* rules/helpers.ts and what the rules take from ast.ts.  A source file is *)
(* what the rules can tell of it:                                          *)
(*                                                                         *)
(*   kind    ts, js, json or yaml                                          *)
(*   facts   what holds of the whole file: its path, imports, text         *)
(*   sites   the places a pattern of some rule matches                     *)
(*                                                                         *)
(* A site names what a pattern matches there, the syntactic form it has,   *)
(* its parents in the tree, innermost first, what holds around it (facts), *)
(* the values of its properties when it is an object literal, its line and *)
(* the span it covers.                                                     *)
(***************************************************************************)
EXTENDS Integers, Sequences, FiniteSets, SequencesExt

Script == {"ts", "js"}
AllKinds == {"ts", "js", "json", "yaml"}
AnyTransport == {"stdio", "streamable-http", "mixed", "custom-http", "unknown"}
Http == {"streamable-http", "mixed", "custom-http"}

\* getSourceFile: a script or JSON that does not parse is not prepared at all.
Parsed(src) == src.kind # "yaml"

\* matches, collectCalls, collectPropertyPaths: a hit in a comment is no hit.
Hits(src, what) == {s \in src.sites : s.what \in what /\ "comment" \notin s.facts}

AstHits(src, what) == IF Parsed(src) THEN Hits(src, what) ELSE {}

Near(s) == "near" \in s.facts    \* hasContextNear

------------------------------------------------------------------------------
(* The file                                                                  *)

\* Everything else fileHasMcpSignal looks at needs the import as well.
FileHasMcpSignal(src) ==
  \/ "mcp path" \in src.facts
  \/ Parsed(src) /\ {"mcp import", "server binding call", "strong method",
                     "raw json-rpc method"} \cap src.facts # {}

IsClientOnly(src) ==
  /\ Parsed(src)
  /\ "client import" \in src.facts
  /\ {"server import", "server constructor", "server handler"} \cap src.facts = {}

------------------------------------------------------------------------------
(* The place                                                                 *)

ProtocolCalls == {"handler call", "generic handler call", "protocol call", "send call"}
ErrorCalls == {"error call", "send call"}
Variables == {"exported variable", "used variable", "unused variable"}

\* The parents of s on the way up to the first in stop, that one included;
\* empty when there is none within depth steps.
UpTo(s, depth, stop) ==
  LET near == SubSeq(s.parents, 1, IF Len(s.parents) < depth THEN Len(s.parents) ELSE depth)
  IN SubSeq(near, 1, SelectInSeq(near, LAMBDA p : p \in stop))

IsExecutableLiteral(s) ==
  LET way == UpTo(s, 14, {"equality", "method equality", "operator", "case", "method case",
                          "return", "error return", "call", "error call", "membership call",
                          "type annotation", "source file"} \cup ProtocolCalls \cup Variables)
      passed == Range(Front(way))
  IN
  /\ "prose" \notin s.facts
  /\ way # <<>>
  /\ \/ Last(way) \in {"equality", "method equality", "operator", "case", "method case",
                       "return", "error return"} \cup ProtocolCalls
     \/ /\ Last(way) \in {"exported variable", "used variable"}
        /\ "array" \in passed => "wire method" \in passed
        /\ passed = {} \/ {"handler key", "wire method"} \cap passed # {}

Executable(src, what) == {s \in AstHits(src, what) : IsExecutableLiteral(s)}

\* isMcpSdkIdentifier
FromSdk(src, what) == {s \in AstHits(src, what) : "sdk" \in s.facts}

\* A member call on one of the names the rules take for an MCP peer.
OnPeer(src, what) == {s \in AstHits(src, what) : "peer receiver" \in s.facts}

IsProvenErrorEmission(s) ==
  LET way == UpTo(s, 16, {"throw", "new error", "new", "call", "membership call", "return",
                          "error return"} \cup ProtocolCalls \cup ErrorCalls)
  IN way # <<>> /\ Last(way) \in {"throw", "new error", "error return"} \cup ErrorCalls

CodeUsage(s) ==
  LET way == UpTo(s, 12, {"equality", "method equality", "case", "method case", "switch", "array",
                          "membership call", "new error", "throw", "return", "error return",
                          "enum member"} \cup ErrorCalls \cup Variables)
  IN CASE way = <<>> -> "unknown"
       [] way # <<>> /\ Last(way) = "array" -> "list"
       [] way # <<>> /\ Last(way) \in {"equality", "method equality", "case", "method case",
                                       "switch", "membership call"} -> "compare"
       [] way # <<>> /\ Last(way) \in Variables \cup {"enum member"} -> "declare"
       [] OTHER -> "emit"

\* collectHeaderAccess
HeaderAccess(s) ==
  CASE s.form = "element" /\ "header receiver" \in s.facts ->
         IF "assigned" \in s.facts THEN "write" ELSE "read"
    [] s.form = "setHeader" -> "write"
    [] s.form \in {"set", "property"} /\ "header receiver" \in s.facts -> "write"
    [] s.form = "getHeader" -> "read"
    [] s.form = "get" /\ "header receiver" \in s.facts -> "read"
    [] OTHER -> "none"

IsLegacyEraGuarded(src, s) ==
  \/ "legacy path" \in src.facts
  \/ Parsed(src) /\ "legacy branch" \in s.facts
  \/ "legacy nearby" \in s.facts

------------------------------------------------------------------------------
(* Findings.  A rule reports a sequence of sets, in the order it pushes them. *)

Rule(id, level, confidence, kinds, transports) ==
  [id |-> id, level |-> level, confidence |-> confidence,
   kinds |-> kinds, transports |-> transports]

Finding(rule, level, confidence, title, s) ==
  [rule |-> rule.id, level |-> level, confidence |-> confidence, title |-> title,
   evidence |-> s.line, span |-> s.span, line |-> s.line]

Report(rule, title, S) == {Finding(rule, rule.level, rule.confidence, title, s) : s \in S}

ReportReview(rule, confidence, title, S) ==
  {Finding(rule, "review", confidence, title, s) : s \in S}

\* legacyEraFindingOverride
ReportEra(rule, src, title, S) ==
  {IF IsLegacyEraGuarded(src, s)
   THEN Finding(rule, "review", "medium", title, s)
   ELSE Finding(rule, rule.level, rule.confidence, title, s) : s \in S}

Severity(level) == CASE level = "error" -> 0 [] level = "warning" -> 1
                     [] level = "review" -> 2 [] level = "info" -> 3
Strength(confidence) == CASE confidence = "high" -> 0 [] confidence = "medium" -> 1
                          [] confidence = "low" -> 2

Outranks(a, b) ==
  IF a.level # b.level THEN Severity(a.level) < Severity(b.level)
  ELSE Strength(a.confidence) < Strength(b.confidence)

SameRendering(a, b) == [a EXCEPT !.span = <<>>] = [b EXCEPT !.span = <<>>]

StartsBefore(a, b) == \/ a.span[1] < b.span[1]
                      \/ a.span[1] = b.span[1] /\ a.span[2] > b.span[2]

\* The findings of one group that are kept: the widest at the earliest start, then
\* every next one that begins at or after the end of those kept before it.
Disjoint(group) ==
  LET kept[a \in group] == \A b \in group : StartsBefore(b, a) /\ kept[b] => b.span[2] <= a.span[1]
  IN {a \in group : kept[a]}

\* Of the findings with one span the first that none outranks; the order of those
\* that are pushed together is left open.
DedupeByLocation(pushed) ==
  LET F == UNION Range(pushed)
      First(a) == SelectInSeq(pushed, LAMBDA S : a \in S)
      Precedes(a, b) == Outranks(a, b) \/ (~Outranks(b, a) /\ First(a) <= First(b))
      best(span) == CHOOSE a \in F : a.span = span /\ \A b \in F : b.span = span => Precedes(a, b)
      located == {best(a.span) : a \in F}
  IN UNION {Disjoint({b \in located : SameRendering(a, b)}) : a \in located}
=============================================================================
