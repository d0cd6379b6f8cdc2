----------------------------- MODULE FeatureRules -----------------------------
(***************************************************************************)
(* rules/roots.ts, sampling.ts, logging.ts, tasks.ts, resource-errors.ts   *)
(* and apps-readiness.ts: what became of the optional features.  A site    *)
(* that declares a property has the path of the property in its object.    *)
(***************************************************************************)
EXTENDS RuleHelpers

NotYaml == AllKinds \ {"yaml"}

\* (^|\.)keys(\.|$) and (^|\.)keys$ on the path of a property.
Under(s, keys) == \E i \in 0 .. Len(s.path) - Len(keys) : SubSeq(s.path, i + 1, i + Len(keys)) = keys
EndsIn(s, keys) == IsSuffix(keys, s.path)

Paths(src) == AstHits(src, {"property"})

\* The capability of a client or server, or its bare key where one is declared.
Capability(src, key) ==
  {s \in Paths(src) : /\ FileHasMcpSignal(src)
                      /\ Under(s, <<"capabilities", key>>) \/ (s.path = <<key>> /\ Near(s))}

\* The three deprecated features: their method, SDK types, call and capability.
Deprecated(rule, src, methods, types, calls, key) ==
  << Report(rule, "method", methods),
     Report(rule, "type", FromSdk(src, types)),
     {Finding(rule, rule.level, "high", "call", s) : s \in {x \in calls : FileHasMcpSignal(src)}},
     Report(rule, "capability", Capability(src, key)) >>

\* The removed parts of them: the method, and what of the SDK sends or handles it.
Removed(rule, src, method, types, call) ==
  << ReportEra(rule, src, "method", Executable(src, {method})),
     ReportEra(rule, src, "surface", FromSdk(src, types)),
     ReportEra(rule, src, "surface", {s \in AstHits(src, {call}) : FileHasMcpSignal(src)}) >>

ROOTS_001 == Rule("ROOTS-001", "warning", "medium", NotYaml, AnyTransport)
RootsDeprecation(src) ==
  Deprecated(ROOTS_001, src, Executable(src, {"roots/list"}), {"ListRootsRequestSchema"},
             OnPeer(src, {"listRoots"}), "roots")

ROOTS_002 == Rule("ROOTS-002", "error", "high", Script, AnyTransport)
RootsListChanged(src) ==
  Removed(ROOTS_002, src, "notifications/roots/list_changed",
          {"RootsListChangedNotificationSchema"}, "sendRootsListChanged")

SAMPLING_001 == Rule("SAMPLING-001", "warning", "medium", NotYaml, AnyTransport)
SamplingDeprecation(src) ==
  Deprecated(SAMPLING_001, src, Executable(src, {"sampling/createMessage"}),
             {"CreateMessageRequestSchema"}, OnPeer(src, {"createMessage", "requestSampling"}),
             "sampling")

SAMPLING_002 == Rule("SAMPLING-002", "warning", "low", NotYaml, AnyTransport)
IncludeContext(src) ==
  << Report(SAMPLING_002, "includeContext",
            {s \in Hits(src, {"includeContext"}) : FileHasMcpSignal(src)}) >>

LOGGING_001 == Rule("LOGGING-001", "warning", "medium", NotYaml, AnyTransport)
LoggingDeprecation(src) ==
  Deprecated(LOGGING_001, src,
             {s \in Executable(src, {"notifications/message"}) : FileHasMcpSignal(src)},
             {"LoggingMessageNotificationSchema"}, AstHits(src, {"sendLoggingMessage"}), "logging")

LOGGING_002 == Rule("LOGGING-002", "error", "high", Script, AnyTransport)
LoggingSetLevel(src) ==
  Removed(LOGGING_002, src, "logging/setLevel", {"SetLevelRequestSchema"}, "setLoggingLevel")

------------------------------------------------------------------------------
(* Tasks                                                                     *)

TASKS_001 == Rule("TASKS-001", "error", "high", Script, AnyTransport)

RemovedTaskMethods(src) ==
  LET Of(method, type) ==
        << ReportEra(TASKS_001, src, method, Executable(src, {method})),
           ReportEra(TASKS_001, src, method, FromSdk(src, {type})) >>
  IN IF ~FileHasMcpSignal(src) THEN <<>>
     ELSE Of("tasks/list", "ListTasksRequestSchema")
            \o Of("tasks/result", "GetTaskPayloadRequestSchema")

TASKS_002 == Rule("TASKS-002", "error", "high", NotYaml, AnyTransport)

Augmented(s) == \/ Under(s, <<"tasks", "requests", "sampling">>)
                \/ Under(s, <<"tasks", "requests", "elicitation">>)

IsCapabilityDeclarationPath(s) ==
  EndsIn(s, <<"tasks", "list">>) \/ EndsIn(s, <<"tasks", "cancel">>) =>
    \E k \in {"capabilities", "experimental"} : Under(s, <<k>>) /\ ~EndsIn(s, <<k>>)

LegacyCapability(s) ==
  /\ \/ \E keys \in {<<"capabilities", "tasks">>, <<"tasks", "requests">>,
                     <<"experimental", "tasks">>} : Under(s, keys)
     \/ \E keys \in {<<"tasks", "list">>, <<"tasks", "cancel">>,
                     <<"execution", "taskSupport">>} : EndsIn(s, keys)
  /\ IsCapabilityDeclarationPath(s)
  /\ ~Augmented(s)

LegacyTaskCapability(src) ==
  IF ~FileHasMcpSignal(src) THEN <<>>
  ELSE << ReportEra(TASKS_002, src, "capability", {s \in Paths(src) : LegacyCapability(s)}),
          ReportEra(TASKS_002, src, "taskSupport", Executable(src, {"taskSupport"})) >>

TASKS_003 == Rule("TASKS-003", "review", "medium", Script, AnyTransport)

LegacyTaskStructures(src) ==
  IF ~FileHasMcpSignal(src) THEN <<>>
  ELSE << Report(TASKS_003, "baseline", Executable(src, {"notifications/tasks/status"})),
          Report(TASKS_003, "draft", Executable(src, {"tasks/delete"})),
          Report(TASKS_003, "surface", FromSdk(src, {"TaskStore"})),
          Report(TASKS_003, "opt-in",
                 {s \in AstHits(src, {"params.task"}) : "prose" \notin s.facts /\ Near(s)}),
          Report(TASKS_003, "opt-in", {s \in Paths(src) : EndsIn(s, <<"params", "task">>) /\ Near(s)}),
          Report(TASKS_003, "field", {s \in Hits(src, {"pollInterval", "ttl"}) : Near(s)}) >>

TASKS_004 == Rule("TASKS-004", "error", "high", NotYaml, AnyTransport)

TaskAugmentedSampling(src) ==
  IF ~FileHasMcpSignal(src) THEN <<>>
  ELSE << ReportEra(TASKS_004, src, "capability", {s \in Paths(src) : Augmented(s)}),
          ReportEra(TASKS_004, src, "surface",
                    FromSdk(src, {"createMessageStream", "elicitInputStream"})) >>

------------------------------------------------------------------------------
(* -32002 for a resource that was not found.  Near: code about resources.    *)

HasResourceErrorMcpSignal(src) ==
  FileHasMcpSignal(src) \/ {"json-rpc error text", "resource text"} \subseteq src.facts

OldCode(src) == {s \in AstHits(src, {"-32002"}) : HasResourceErrorMcpSignal(src)}

\* In the function or array around it.
AcceptsCurrentResourceCode(s) == "accepts -32602" \in s.facts

AssertedByEmitRule(s) == CodeUsage(s) = "emit" /\ IsProvenErrorEmission(s) /\ Near(s)

ERROR_001 == Rule("ERROR-001", "error", "high", Script, AnyTransport)
ResourceNotFoundEmit(src) ==
  << ReportEra(ERROR_001, src, "emitted", {s \in OldCode(src) : AssertedByEmitRule(s)}) >>

ERROR_002 == Rule("ERROR-002", "review", "medium", NotYaml, AnyTransport)
ResourceNotFoundAmbiguous(src) ==
  << Report(ERROR_002, "ambiguous",
       {s \in OldCode(src) :
          /\ ~(CodeUsage(s) \in {"compare", "list"} /\ AcceptsCurrentResourceCode(s))
          /\ ~AssertedByEmitRule(s)}) >>

------------------------------------------------------------------------------
(* MCP Apps                                                                  *)

APPS_001 == Rule("APPS-001", "info", "medium", NotYaml, AnyTransport)

AppsReadiness(src, repo) ==
  IF ~repo.likely THEN <<>>
  ELSE << {Finding(APPS_001, "info", "high", "explicit", s) : s \in Hits(src, {"ui://"})},
          {Finding(APPS_001, "info", "low", "generic", s) :
             s \in {x \in Hits(src, {"text/html"}) : FileHasMcpSignal(src)}} >>

DeriveAppsReadiness(repo, sources, findings) ==
  LET apps == {a \in findings : a.rule = APPS_001.id}
  IN IF ~repo.likely THEN "NOT_APPLICABLE"
     ELSE IF \E a \in apps : a.confidence = "high" THEN "LIKELY_READY"
     ELSE IF apps # {} \/ \E src \in sources : "ui module" \in src.facts THEN "POSSIBLE_CANDIDATE"
     ELSE "NO_SIGNAL"
=============================================================================
