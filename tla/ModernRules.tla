------------------------------ MODULE ModernRules ------------------------------
(***************************************************************************)
(* rules/modern-protocol.ts: entry points, requests to the client, and the *)
(* shapes of raw JSON-RPC objects.  The site of an object literal has in   *)
(* object what each member shows:                                          *)
(*                                                                         *)
(*   "absent"     it is not written; a spread may supply it ("opaque")     *)
(*   "shorthand"  { ttlMs }                                                *)
(*   "dynamic"    an expression that is no literal                         *)
(*                                                                         *)
(* or the literal.  handler and routed are the methods of the handler and  *)
(* of the case the object is in, "none" outside one.                       *)
(***************************************************************************)
EXTENDS RuleHelpers

Absent(s, key) == s.object[key] = "absent"
Written(s, key) == s.object[key] = "dynamic"  \* mutated form: a shorthand is no value
Open(s, key) == s.object[key] \in {"shorthand", "dynamic"}
HasOpaqueProperties(s) == "opaque" \in s.facts

Methods == {"server/discover", "tools/list", "tools/call", "resources/list", "resources/read",
            "prompts/list", "prompts/get"}  \* those both lists of the rules recognize

Calls == {"call", "membership call", "error call"} \cup ProtocolCalls

\* isExecutableLiteralAt
IsExecutableLiteralAt(s) ==
  LET runs == Calls \cup {"equality", "method equality", "operator", "case", "method case",
                          "return", "error return"}
      way == UpTo(s, 12, runs \cup Variables \cup {"source file"})
  IN way # <<>> /\ Last(way) \in runs

\* Returned, or an argument of a call that sends.
IsExecutableProtocolObject(s) ==
  LET way == UpTo(s, 12, Calls \cup Variables \cup {"return", "arrow", "source file"})
  IN way # <<>> /\ Last(way) \in {"return", "arrow", "send call"}

DirectlyAssociatedMcpMethod(s) ==
  IF s.object.handler \in Methods THEN s.object.handler ELSE s.object.routed

Objects(src, what) == {s \in AstHits(src, {what}) : IsExecutableProtocolObject(s)}

\* The override, and then a review wherever something open could change the verdict.
ReportOpen(rule, src, title, S, open) ==
  ReportEra(rule, src, title, S \ open) \cup ReportReview(rule, "medium", title, open)

------------------------------------------------------------------------------
(* Entry points, and requests of the server to its client.                   *)

SDK_001 == Rule("SDK-001", "error", "high", AllKinds \ {"yaml"}, AnyTransport)

LegacySdkEntrypoint(src) ==
  << ReportReview(SDK_001, "medium", "dependency",
       {s \in src.sites : src.kind = "json" /\ s.what = "sdk dependency"}),
     ReportEra(SDK_001, src, "connect",
       {s \in AstHits(src, {"connect"}) : FileHasMcpSignal(src) /\ "server transport" \in s.facts}) >>

MRTR_METHODS == {"roots/list", "sampling/createMessage", "elicitation/create"}

MRTR_001 == Rule("MRTR-001", "error", "high", Script, AnyTransport)

\* directMrtrCall, methodSentByCall: a call of the peer's method, or a message sent.
DirectServerRequest(src) ==
  LET requests == {s \in AstHits(src, {"listRoots", "createMessage", "elicitInput", "sent request"}) :
                     FileHasMcpSignal(src) /\ "inputRequired call" \notin s.facts}
      direct == {s \in requests : s.what # "sent request"}
      ours == {s \in direct : "server receiver" \in s.facts}
                \cup {s \in requests \ direct : "server sends" \in s.facts}
      unclear == {s \in direct \ ours : "wrapper receiver" \in s.facts}
                \cup {s \in (requests \ direct) \ ours : "client sends" \notin s.facts}
  IN << ReportOpen(MRTR_001, src, "direct request", ours \cup unclear, unclear) >>

MRTR_PARENT_METHODS == {"prompts/get", "resources/read", "tools/call"}

\* The members, the entries and the handler of the object, each at its own place.
At(s, place) == [s EXCEPT !.span = s.object.at[place]]

MRTR_002 == Rule("MRTR-002", "error", "high", Script, AnyTransport)

InputRequiredShape(src) ==
  LET results == {s \in Objects(src, "result") :
                    FileHasMcpSignal(src) /\ s.object.resultType = "input_required"}
      empty == {s \in results : /\ s.object.inputRequests \in {"absent", "empty"}
                                /\ Absent(s, "requestState")}
      unread == {s \in results \ empty : \/ Open(s, "inputRequests")
                                         \/ s.object.requestState = "shorthand"}
      entries == {s \in results : s.object.inputRequests \in {"good entry", "bad entry", "spread entry"}}
      strangers == {s \in results : s.object.handler \notin MRTR_PARENT_METHODS \cup {"none"}}
  IN << ReportOpen(MRTR_002, src, "empty", empty, {s \in empty : HasOpaqueProperties(s)})
          \cup ReportReview(MRTR_002, "medium", "unread", {At(s, "member") : s \in unread}),
        ReportReview(MRTR_002, "medium", "entry",
          {At(s, "entry") : s \in {x \in entries : x.object.inputRequests = "spread entry"}})
          \cup Report(MRTR_002, "entry",
          {At(s, "entry") : s \in {x \in entries : x.object.inputRequests = "bad entry"}}),
        ReportEra(MRTR_002, src, "handler", {At(s, "handler") : s \in strangers}) >>

MRTR_003 == Rule("MRTR-003", "review", "medium", Script, AnyTransport)

\* One for each function around the name; the function's text is looked at.
RequestStateIntegrity(src) ==
  << Report(MRTR_003, "requestState",
       {s \in AstHits(src, {"requestState"}) :
          /\ FileHasMcpSignal(src)
          /\ {"first in function", "decodes", "sensitive branch"} \subseteq s.facts
          /\ "verifies" \notin s.facts}) >>

ELICITATION_001 == Rule("ELICITATION-001", "error", "high", AllKinds \ {"yaml"}, AnyTransport)

RemovedElicitationSurface(src) ==
  LET codes == {s \in AstHits(src, {"-32042"}) :
                  FileHasMcpSignal(src) /\ Near(s) /\ CodeUsage(s) \notin {"compare", "list"}}
  IN << ReportEra(ELICITATION_001, src, "literal",
          {s \in AstHits(src, {"notifications/elicitation/complete"}) : IsExecutableLiteralAt(s)}),
        ReportEra(ELICITATION_001, src, "surface", FromSdk(src, {"UrlElicitationRequiredError"})),
        ReportEra(ELICITATION_001, src, "elicitationId",
          {s \in AstHits(src, {"elicitationId"}) : FileHasMcpSignal(src) /\ Near(s)}),
        ReportOpen(ELICITATION_001, src, "code", codes, {s \in codes : CodeUsage(s) # "emit"}) >>

------------------------------------------------------------------------------
(* Raw results                                                               *)

ServesMcp(src) == FileHasMcpSignal(src) /\ ~IsClientOnly(src)

RawResultSites(src) ==
  {s \in Objects(src, "result") : ServesMcp(src) /\ "jsonrpc 2.0" \in s.facts}

TaskFields == {"taskId", "status", "createdAt", "lastUpdatedAt", "ttlMs"}

\* validateCreateTaskResult.  A literal is good or wrong; a timestamp that does
\* not read as one is only doubtful.
Invalid(s) ==
  {k \in TaskFields : Absent(s, k) /\ ~HasOpaqueProperties(s)}
    \cup {k \in TaskFields \cup {"pollIntervalMs"} : s.object[k] = "wrong"}
Doubtful(s) ==
  {k \in TaskFields : Absent(s, k) /\ HasOpaqueProperties(s)}
    \cup {k \in TaskFields \cup {"pollIntervalMs"} : Open(s, k) \/ s.object[k] = "odd"}

RESULT_001 == Rule("RESULT-001", "error", "high", Script, AnyTransport)

RequiredResultType(src) ==
  LET relevant == {s \in RawResultSites(src) :
                     \/ ~Absent(s, "resultType")
                     \/ DirectlyAssociatedMcpMethod(s) # "none"
                     \/ "mcp result shape" \in s.facts}
      unsupported(s) == DirectlyAssociatedMcpMethod(s) \notin {"tools/call", "none"}
      tasks == {s \in relevant : /\ s.object.resultType = "task"
                                 /\ Invalid(s) \cup Doubtful(s) # {} \/ unsupported(s)}
      broken == {s \in tasks : unsupported(s) \/ (Invalid(s) # {} /\ ~HasOpaqueProperties(s))}
      doubted == {s \in relevant : s.object.resultType \notin {"complete", "input_required", "task"}}
      open == {s \in doubted :
                 IF Absent(s, "resultType")
                 THEN HasOpaqueProperties(s) \/ DirectlyAssociatedMcpMethod(s) = "none"
                 ELSE s.object.resultType # "inputRequired"}
  IN << {Finding(RESULT_001, "error", "high", "task", s) : s \in broken}
          \cup ReportReview(RESULT_001, "medium", "task", tasks \ broken)
          \cup ReportOpen(RESULT_001, src, "resultType", doubted, open) >>

CACHEABLE_METHODS == {"server/discover", "tools/list", "prompts/list", "resources/list",
                      "resources/read"}

CACHE_001 == Rule("CACHE-001", "error", "high", Script, AnyTransport)

CacheableResult(src) ==
  LET results == {s \in RawResultSites(src) :
                    /\ "cacheable shape" \in s.facts
                    /\ s.object.resultType # "input_required"
                    /\ s.object.handler \in CACHEABLE_METHODS \cup {"none"}}
      hints == {"ttlMs", "cacheScope"}
      faulty == {s \in results : \E k \in hints : s.object[k] # "good"}
      open == {s \in faulty : \/ \E k \in hints : Open(s, k)
                              \/ s.object.handler = "none" /\ "supportedVersions" \notin s.facts
                              \/ HasOpaqueProperties(s)}
  IN << ReportOpen(CACHE_001, src, "cache hints", faulty, open) >>

------------------------------------------------------------------------------
(* Raw requests and server/discover                                          *)

META_001 == Rule("META-001", "error", "high", Script, AnyTransport)

\* version and capabilities: the members of _meta, where params and _meta are read.
RequiredRequestMetadata(src) ==
  LET requests == {s \in Objects(src, "raw request") :
                     /\ FileHasMcpSignal(src)
                     /\ {"jsonrpc 2.0", "id"} \subseteq s.facts
                     /\ s.object.method \in Methods \cup MRTR_METHODS
                     /\ "inside inputRequests" \notin s.facts}
      unread == {s \in requests : Open(s, "params")}
      missing == {s \in requests \ unread :
                    \/ Absent(s, "params") \/ s.object._meta # "object"
                    \/ Absent(s, "version") \/ Absent(s, "capabilities")}
      open == {s \in missing : /\ ~Absent(s, "params")
                               /\ \/ Open(s, "_meta")
                                  \/ Absent(s, "_meta") /\ "params spread" \in s.facts
                                  \/ s.object._meta = "object" /\ "meta spread" \in s.facts}
  IN << ReportReview(META_001, "medium", "params", unread)
          \cup ReportOpen(META_001, src, "metadata", missing, open) >>

DISCOVERY_001 == Rule("DISCOVERY-001", "review", "high", Script, AnyTransport)

\* The files in their order: the rule also looks at all of them.
DiscoveryShape(src) ==
  LET shapes == {s \in Objects(src, "discover result") :
                   /\ ServesMcp(src)
                   /\ ~Absent(s, "serverInfo") \/ Absent(s, "nested serverInfo")}
      guarded == {s \in shapes : IsLegacyEraGuarded(src, s)}
  IN << ReportReview(DISCOVERY_001, "medium", "serverInfo", guarded)
          \cup ReportReview(DISCOVERY_001, "high", "serverInfo", shapes \ guarded) >>

Registrations(src) ==
  {s \in AstHits(src, {"registration"}) : FileHasMcpSignal(src) /\ s.object.method \in Methods}

OtherRegistrations(src) == {s \in Registrations(src) : s.object.method # "server/discover"}

\* Where in the files the finding goes; 0 when nothing is missing.
NoDiscoverRegistered(files) ==
  IF \E src \in Range(files) :
       \/ FileHasMcpSignal(src) /\ AstHits(src, {"createMcpHandler"}) # {}
       \/ Registrations(src) # OtherRegistrations(src)
  THEN 0 ELSE SelectInSeq(files, LAMBDA src : OtherRegistrations(src) # {})

NoDiscover(src) ==
  LET first == CHOOSE s \in OtherRegistrations(src) :
                 \A t \in OtherRegistrations(src) : s.line <= t.line
  IN ReportReview(DISCOVERY_001, "medium", "no discover", {first})

------------------------------------------------------------------------------
(* The renumbered codes.  Near: the name of the error.                       *)

ERROR_003 == Rule("ERROR-003", "error", "high", AllKinds \ {"yaml"}, AnyTransport)

RenamedProtocolError(src) ==
  LET codes == {s \in AstHits(src, {"-32001", "-32003", "-32004"}) :
                  FileHasMcpSignal(src) /\ Near(s) /\ CodeUsage(s) \notin {"compare", "list"}}
  IN << ReportOpen(ERROR_003, src, "code", codes,
          {s \in codes : ~(CodeUsage(s) = "emit" /\ IsProvenErrorEmission(s))}) >>
=============================================================================
