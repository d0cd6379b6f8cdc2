---------------------------- MODULE Classification ----------------------------
(***************************************************************************)
(* classification.ts: what the files tell of the repository.  A signal is  *)
(* a site that is neither in a comment nor inside a literal; the package   *)
(* manifest of the root has its dependencies among its facts.              *)
(***************************************************************************)
EXTENDS RuleHelpers

STDIO_SIGNALS == {"StdioServerTransport", "serveStdio"}
STREAMABLE_HTTP_SIGNALS == {"StreamableHTTPServerTransport", "createMcpHandler"}
SSE_SIGNALS == {"SSEServerTransport"}
CUSTOM_HTTP_SIGNALS == {"fetch /mcp", "createServer(handleMcp)"}
MCP_PATH_POST_SIGNALS == {"export POST"}
ABSTRACTION_SIGNALS == {"app.use", "customFetch"}
MCP_CONSTRUCTOR_SIGNALS == {"new McpServer"}
MCP_PROTOCOL_SIGNALS == {"createMcpHandler", "method handler"}

Signals(src, signals) ==
  IF src.kind \in Script THEN {s.what : s \in {x \in Hits(src, signals) : "literal" \notin x.facts}}
  ELSE {}

MatchSignals(files, signals) == UNION {Signals(src, signals) : src \in files}

\* Both node:http's createServer and a route need code that is about MCP.
CustomHttpEvidence(src) ==
  {s.what : s \in {x \in AstHits(src, {"MCP HTTP route"}) :
                     {"route receiver", "handler", "mcp path"} \subseteq x.facts}}
  \cup {s.what : s \in {x \in AstHits(src, {"MCP object HTTP route"}) :
                     {"handler", "mcp path"} \subseteq x.facts}}
  \cup {s.what : s \in {x \in AstHits(src, {"MCP JSON-RPC HTTP server"}) :
                     "http import" \in x.facts /\ "strong method" \in src.facts}}

CustomEvidence(files) ==
  MatchSignals(files, CUSTOM_HTTP_SIGNALS) \cup
  UNION {CustomHttpEvidence(src) : src \in files} \cup
  MatchSignals({src \in files : "mcp path" \in src.facts}, MCP_PATH_POST_SIGNALS)

ClassifyTransport(files) ==
  LET stdio == MatchSignals(files, STDIO_SIGNALS)
      httpish == MatchSignals(files, STREAMABLE_HTTP_SIGNALS \cup SSE_SIGNALS)
      custom == CustomEvidence(files)
  IN CASE stdio # {} /\ httpish \cup custom # {} -> "mixed"
       [] stdio = {} /\ httpish # {} -> "streamable-http"
       [] stdio # {} /\ httpish \cup custom = {} -> "stdio"
       [] stdio \cup httpish = {} /\ custom # {} -> "custom-http"
       [] OTHER -> "unknown"

\* readPackageManifest, allDependencies
Dependencies(files) ==
  UNION {src.facts \cap {"sdk v1 dependency", "sdk v2 dependency", "mcp dependency"} :
           src \in {f \in files : /\ f.kind = "json"
                                  /\ {"root package.json", "valid"} \subseteq f.facts}}

McpImportEvidence(files) ==
  {"@modelcontextprotocol import" : src \in {f \in files : f.kind \in Script /\ "mcp import" \in f.facts}}

McpEvidence(files) ==
  LET code == MatchSignals(files, MCP_PROTOCOL_SIGNALS) \cup McpImportEvidence(files)
      constructed == IF code \cup Dependencies(files) # {}
                     THEN MatchSignals(files, MCP_CONSTRUCTOR_SIGNALS) ELSE {}
  IN code \cup constructed \cup Dependencies(files) \cup CustomEvidence(files)

Classify(files) ==
  [likely |-> McpEvidence(files) # {},
   transport |-> ClassifyTransport(files),
   sdk |-> IF "sdk v1 dependency" \in Dependencies(files) THEN "v1"
           ELSE IF "sdk v2 dependency" \in Dependencies(files) THEN "v2"
           ELSE IF Dependencies(files) # {} THEN "related" ELSE "none",
   httpRoutingIsAbstracted |-> MatchSignals(files, ABSTRACTION_SIGNALS) # {}]
=============================================================================
