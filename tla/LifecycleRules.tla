---------------------------- MODULE LifecycleRules ----------------------------
(***************************************************************************)
(* rules/stateless-lifecycle.ts: the session header, options, state and    *)
(* affinity, the initialization handshake, the removed core methods and    *)
(* the removed mechanics of Streamable HTTP.                               *)
(***************************************************************************)
EXTENDS RuleHelpers

IsMultilineTemplate(s) == "multiline template" \in s.facts

SESSION_001 == Rule("SESSION-001", "warning", "medium", AllKinds, AnyTransport)

SessionHeader(src, repo) ==
  LET name == Hits(src, {"mcp-session-id"})
      accessed == {s \in name : Parsed(src) /\ HeaderAccess(s) # "none"}
      reads == {s \in accessed : HeaderAccess(s) = "read"}
      quoted == {s \in name \ accessed :
                   /\ s.form # "bare"
                   /\ Parsed(src) => repo.likely /\ IsExecutableLiteral(s)}
      bare == {s \in name : src.kind = "yaml" /\ s.form = "bare"}
  IN << ReportReview(SESSION_001, "low", "header read", reads)
          \cup ReportEra(SESSION_001, src, "header written", accessed \ reads),
        ReportReview(SESSION_001, "low", "literal", quoted),
        ReportReview(SESSION_001, "low", "removed header", bare) >>

SESSION_002 ==
  Rule("SESSION-002", "error", "high", Script, AnyTransport \ {"stdio"})

SessionOptions(src) ==
  << ReportEra(SESSION_002, src, "session option",
       {s \in AstHits(src, {"sessionIdGenerator", "onsessioninitialized", "onsessionclosed"}) :
          FileHasMcpSignal(src) /\ "undefined" \notin s.facts}) >>

SESSION_003 ==
  Rule("SESSION-003", "review", "medium", Script, AnyTransport \ {"stdio"})

SessionState(src) ==
  << Report(SESSION_003, "session store",
       {s \in Hits(src, {"session store"}) : Near(s) \/ FileHasMcpSignal(src)}) >>

SESSION_004 == Rule("SESSION-004", "review", "low", AllKinds, AnyTransport)

StickySessions(src, repo) ==
  << Report(SESSION_004, "affinity",
       {s \in Hits(src, {"affinity"}) :
          /\ repo.likely \/ FileHasMcpSignal(src) \/ "mcp text" \in src.facts
          /\ ~(Parsed(src) /\ "regex literal" \in s.facts)}) >>

------------------------------------------------------------------------------
(* The handshake and the removed methods                                     *)

Boundaries == Variables \cup {"type annotation", "source file"}

\* Both rules that ask allow the generic names: the file has an MCP signal.
IsMethodHandlerArgument(s) ==
  LET way == UpTo(s, 12, Boundaries \cup ProtocolCalls \cup ErrorCalls
                           \cup {"call", "membership call"})
  IN /\ way # <<>> /\ Last(way) \in {"handler call", "generic handler call"}
     /\ "first argument" \in s.facts

IsJsonRpcMethodLiteral(s) ==
  LET way == UpTo(s, 8, Boundaries \cup {"wire method", "method property"})
  IN way # <<>> /\ Last(way) \in {"wire method", "method property"}

\* A case of a switch on the method, or a comparison with it, in code that
\* routes another MCP method as well.
IsMethodDispatch(s) ==
  /\ s.parents # <<>> /\ Head(s.parents) \in {"method case", "method equality"}
  /\ "routes mcp" \in s.facts

\* A literal in a template of several lines is reviewed, never asserted.
ReportMethod(rule, src, title, S) ==
  LET documented == {s \in S : IsMultilineTemplate(s)}
  IN ReportReview(rule, "low", title, documented)
       \cup ReportEra(rule, src, title, S \ documented)

LIFECYCLE_001 == Rule("LIFECYCLE-001", "error", "high", Script, AnyTransport)

InitializationLifecycle(src) ==
  LET methods == {s \in AstHits(src, {"initialize", "notifications/initialized"}) :
                    \/ IsMethodHandlerArgument(s) \/ IsMethodDispatch(s)
                    \/ IF s.what = "initialize" THEN IsJsonRpcMethodLiteral(s)
                       ELSE IsExecutableLiteral(s)}
  IN IF ~FileHasMcpSignal(src) THEN <<>>
     ELSE << ReportMethod(LIFECYCLE_001, src, "lifecycle method", methods),
             ReportEra(LIFECYCLE_001, src, "lifecycle schema",
                       FromSdk(src, {"InitializeRequestSchema"})) >>

LIFECYCLE_002 == Rule("LIFECYCLE-002", "error", "high", Script, AnyTransport)

RemovedCoreMethods(src) ==
  LET ping == {s \in AstHits(src, {"ping"}) :
                 /\ FileHasMcpSignal(src)
                 /\ \/ IsMethodHandlerArgument(s) \/ IsMethodDispatch(s)
                    \/ IsJsonRpcMethodLiteral(s)}
      subscribe == Executable(src, {"resources/subscribe", "resources/unsubscribe"})
  IN << ReportMethod(LIFECYCLE_002, src, "removed method", ping \cup subscribe),
        ReportEra(LIFECYCLE_002, src, "removed schema",
                  FromSdk(src, {"PingRequestSchema", "SubscribeRequestSchema"})),
        ReportReview(LIFECYCLE_002, "medium", "subscribe capability",
                     AstHits(src, {"capabilities.resources.subscribe"})) >>

LIFECYCLE_003 == Rule("LIFECYCLE-003", "warning", "medium", Script, Http)

TransportMechanics(src) ==
  LET routes == {s \in Hits(src, {"DELETE /mcp", "GET /mcp"}) : "405" \notin s.facts}
      replay == {s \in Hits(src, {"last-event-id", "eventStore"}) : Near(s) \/ FileHasMcpSignal(src)}
      ambiguous == {s \in replay : /\ "replay nearby" \notin s.facts
                                   /\ s.what = "last-event-id" => HeaderAccess(s) # "write"}
  IN << ReportReview(LIFECYCLE_003, "low", "stream replay", ambiguous)
          \cup ReportEra(LIFECYCLE_003, src, "stream replay", replay \ ambiguous),
        ReportEra(LIFECYCLE_003, src, "route", routes) >>
=============================================================================
