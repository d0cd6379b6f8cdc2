-------------------------------- MODULE MCScan --------------------------------
(***************************************************************************)
(* TLC instance of the scan.  Its scenarios are trees that change while    *)
(* they are walked, and single files with one thing for a rule to find.    *)
(***************************************************************************)
EXTENDS ScanEngine

CONSTANTS root, a, b, link, f, g, h, none

MCEntries == {root, a, b, link, f, g, h}
MCParent == [e \in MCEntries |-> IF e \in {b, g, h} THEN a ELSE root]
MCRank == root :> 0 @@ a :> 1 @@ b :> 2 @@ h :> 3 @@ g :> 4 @@ f :> 5 @@ link :> 6

------------------------------------------------------------------------------
(* Sources                                                                   *)

NoObject == [resultType |-> "absent"]
Site(what, facts, parents) ==
  [what |-> what, form |-> "literal", parents |-> parents, facts |-> facts, object |-> NoObject,
   path |-> <<>>, line |-> 1, span |-> <<4, 6>>]
Source(kind, facts, sites) == [kind |-> kind, facts |-> facts, sites |-> sites]
Mcp == {"mcp import"}
Empty == Source("ts", {}, {})

Whats ==
  {"mcp-session-id", "sessionIdGenerator", "session store", "affinity", "initialize", "ping",
   "resources/subscribe", "capabilities.resources.subscribe", "GET /mcp", "last-event-id",
   "roots/list", "notifications/roots/list_changed", "sampling/createMessage", "includeContext",
   "sendLoggingMessage", "notifications/message", "setLoggingLevel", "tasks/list", "taskSupport",
   "notifications/tasks/status", "params.task", "-32002", "-32003", "-32042", "ui://",
   "connect", "sent request", "createMessage", "requestState", "elicitationId",
   "notifications/elicitation/complete", "POST /mcp", "mcp-method", "registration"}
Types == {"InitializeRequestSchema", "ListTasksRequestSchema", "TaskStore", "createMessageStream",
          "UrlElicitationRequiredError"}
Ways == {<<"equality">>, <<"handler call">>, <<"array", "used variable">>, <<"throw">>}
Around == {"near", "peer receiver", "first argument", "header receiver", "server transport",
           "server sends", "first in function", "decodes", "sensitive branch"}

Mentions ==
  {Site(what, facts, way) : what \in Whats \ {"registration"},
     facts \in {{}, Around, Around \cup {"legacy branch"}}, way \in Ways}
  \cup {Site(what, facts, <<"call">>) : what \in Types, facts \in {{"sdk"}, {"sdk", "legacy branch"}}}
  \cup {[Site("property", {"near"}, <<>>) EXCEPT !.path = p] :
          p \in {<<"capabilities", "roots">>, <<"capabilities", "tasks", "list">>, <<"logging">>,
                 <<"tasks", "requests", "sampling">>, <<"params", "task">>}}
  \cup {[Site("registration", {}, <<>>) EXCEPT !.object = [method |-> m]] :
          m \in {"tools/list", "server/discover"}}

\* What makes the file one of an HTTP or of a stdio server.
Http1 == {[Site("StreamableHTTPServerTransport", {}, <<>>) EXCEPT !.line = 2, !.span = <<10, 12>>]}
Stdio1 == {[Site("StdioServerTransport", {}, <<>>) EXCEPT !.line = 2, !.span = <<10, 12>>]}

\* Raw results and requests; the set has every completion of each.
Result(type, ttl, task, input, state, handler) ==
  [resultType |-> type, ttlMs |-> ttl, cacheScope |-> "good", taskId |-> task, status |-> "good",
   createdAt |-> "good", lastUpdatedAt |-> "odd", pollIntervalMs |-> "good",
   inputRequests |-> input, requestState |-> state, handler |-> handler, routed |-> "none",
   at |-> [member |-> <<4, 5>>, entry |-> <<5, 6>>, handler |-> <<1, 2>>]]
Values == {"absent", "shorthand", "good", "wrong"}
ResultObjects ==
  {Result(type, ttl, task, "absent", "absent", handler) :
     type \in {"absent", "dynamic", "complete", "task", "inputRequired"}, ttl \in Values,
     task \in Values, handler \in {"none", "tools/call", "tools/list"}}
  \cup {Result("input_required", "absent", "absent", input, state, handler) :
          input \in {"absent", "empty", "shorthand", "good entry", "bad entry", "spread entry"},
          state \in {"absent", "shorthand", "good"}, handler \in {"none", "tools/call", "tools/list"}}
ResultFacts == {"jsonrpc 2.0", "mcp result shape", "cacheable shape"}
Results ==
  {[Site("result", facts, <<"return">>) EXCEPT !.object = o] : o \in ResultObjects,
     facts \in {ResultFacts, ResultFacts \cup {"opaque"}, ResultFacts \cup {"legacy branch"}}}

Requests ==
  {[Site("raw request", {"jsonrpc 2.0", "id"} \cup facts, <<"send call">>) EXCEPT !.object = o] :
     o \in [method : {"tools/call"}, params : {"absent", "object", "dynamic"},
            _meta : {"absent", "object", "dynamic"}, version : {"absent", "good"},
            capabilities : {"absent", "good"}],
     facts \in SUBSET {"params spread", "meta spread", "opaque"}}

Hs == REQUIRED_HEADER_NAMES
Shown == <<"literal", "v">>
HeaderRequests ==
  {[Site("request", {"jsonrpc 2.0", "id", "literal method", "known method"} \cup facts, <<"call">>)
      EXCEPT !.object = [header |-> [x \in Hs |-> IF x = "mcp-method" THEN v ELSE Shown],
                         body |-> [x \in Hs |-> IF x = "mcp-method" THEN w ELSE Shown]]] :
     v \in {NoValue, Unread, Shown, <<"identifier", "v">>}, w \in {Shown, <<"literal", "w">>},
     facts \in {{}, {"opaque headers"}}}

\* A second find near, around or inside the first; what starts where it starts is
\* guarded like it.
Twice ==
  {{Site("-32002", {"near"}, <<"throw">>),
    [Site("-32002", {"near"} \cup second[2], <<"throw">>) EXCEPT !.span = second[1], !.line = l]} :
     second \in {<<3, 8>>, <<5, 6>>, <<7, 8>>} \X {{}, {"legacy branch"}} \cup {<< <<4, 8>>, {} >>},
     l \in {1, 2}}

\* The name of a header, accessed in each way.
Accesses ==
  {[Site(what, facts, <<"call">>) EXCEPT !.form = form] :
     what \in {"mcp-session-id", "mcp-method", "last-event-id"},
     form \in {"element", "set", "getHeader"}, facts \in {{"header receiver"}, {"header receiver", "assigned"}}}

DiscoverResults ==
  {[Site("discover result", facts, <<"return">>) EXCEPT !.object = o] :
     o \in [{"serverInfo", "nested serverInfo"} -> {"absent", "good"}],
     facts \in {{}, {"legacy branch"}}}

MCSources ==
  {Source("ts", Mcp, {s}) : s \in Mentions \cup Results \cup Requests \cup DiscoverResults}
  \cup {Source("ts", Mcp, {s} \cup t) : s \in HeaderRequests \cup Accesses, t \in {Http1, Stdio1}}
  \cup {Source("ts", Mcp, t) : t \in Twice}
  \cup {Source("js", {}, {s} \cup Http1) : s \in {x \in Mentions : x.parents = <<"throw">>}}
  \cup {Source("yaml", {}, {Site("mcp-session-id", {}, <<>>)}), Source("json", {"root package.json", "valid", "sdk v1 dependency"}, {Site("sdk dependency", {}, <<>>)})}

------------------------------------------------------------------------------
(* Trees                                                                     *)

Plain == [type |-> "file", ignored |-> FALSE, supported |-> TRUE, test |-> FALSE,
          long |-> FALSE, readable |-> TRUE, reason |-> "symlink", size |-> 1, actual |-> 1,
          opens |-> "ok", content |-> "text", tokens |-> 1, lines |-> 1, dense |-> FALSE]
Folder == [Plain EXCEPT !.type = "directory"]

\* The walked tree; its files are of one kind.
Walked(file, top) ==
  [e \in MCEntries |-> IF e \in {root, b} THEN Folder ELSE IF e = a THEN top
                       ELSE IF e = link THEN [Plain EXCEPT !.type = "link"] ELSE file]
Without(t, S) == [e \in MCEntries \ S |-> t[e]]

Files == {Plain, [Plain EXCEPT !.size = 2, !.actual = 2],
          [Plain EXCEPT !.actual = 3], [Plain EXCEPT !.actual = 2],
          [Plain EXCEPT !.size = 0, !.actual = 3],
          [Plain EXCEPT !.tokens = 2], [Plain EXCEPT !.tokens = 0, !.lines = 2],
          [Plain EXCEPT !.lines = 3], [Plain EXCEPT !.supported = FALSE],
          [Plain EXCEPT !.content = "binary"]}
Tops == {Folder, [Folder EXCEPT !.test = TRUE], [Folder EXCEPT !.readable = FALSE],
         [Folder EXCEPT !.long = TRUE]}

Scenario(t, one, src, n) ==
  [tree |-> t, single |-> one, includeTests |-> FALSE, changes |-> n, source |-> src,
   base |-> [e \in MCEntries |-> <<MCRank[e]>>], ci |-> TRUE, failOn |-> "review",
   minConfidence |-> "low", fails |-> FALSE]
Nowhere == [e \in MCEntries |-> Empty]
Small == Without(Walked(Plain, Folder), {b, h, link})   \* root, a, f, g

Changing ==
  {Scenario(t, none, Nowhere, 1) :
     t \in {Walked(Plain, Folder)} \cup {Without(Walked(Plain, y), {link}) : y \in Tops}
           \cup {Without(Walked(x, Folder), {link}) : x \in Files}}
  \cup {Scenario(Small, g, Nowhere, 1), [Scenario(Small, g, Nowhere, 1) EXCEPT !.fails = TRUE],
        Scenario([Small EXCEPT ![g].supported = FALSE], g, Nowhere, 1)}

\* One file, read for what its source is.
Single ==
  {[Scenario(Small, g, [Nowhere EXCEPT ![g] = src], 0) EXCEPT !.failOn = l, !.minConfidence = c] :
     src \in MCSources, l \in {"error", "review"}, c \in {"low", "high"}}

\* Two files and a third that is not read, whose paths redaction may make one.
Throwing == Source("ts", Mcp, {Site("-32002", {"near"}, <<"throw">>), Site("-32003", {"near"}, <<"throw">>)})
Named ==
  {[Scenario([Without(Walked(Plain, Folder), {link}) EXCEPT ![h].content = c], none,
             [Nowhere EXCEPT ![f] = s, ![g] = Throwing], 0)
      EXCEPT !.base = [e \in MCEntries |-> p[e]]] :
     c \in {"text", "binary"}, s \in {Empty, Throwing},
     p \in {[e \in MCEntries |-> IF e = f THEN <<1>> ELSE IF e = g THEN <<1>> ELSE <<MCRank[e] + 1>>],
            [e \in MCEntries |-> IF e \in {f, g} THEN <<9>> ELSE IF e = h THEN <<9, 1>> ELSE <<MCRank[e]>>],
            [e \in MCEntries |-> <<9>>]}}

\* More to review than there is room for, before an error.
Crowd ==
  Source("ts", Mcp, {[Site("-32002", {}, <<"equality">>) EXCEPT !.line = i, !.span = <<2 * i, 2 * i + 1>>] : i \in 1 .. 3}
                    \cup {Site("connect", {"server transport"}, <<"call">>),
                          [Site("session store", {"near"}, <<>>) EXCEPT !.span = <<9, 10>>]})
Crowded == {[Scenario(Small, g, [Nowhere EXCEPT ![g] = Crowd], 0) EXCEPT !.failOn = l] : l \in {"error", "review"}}

MCScenarios == Changing \cup Single \cup Named \cup Crowded
=============================================================================
