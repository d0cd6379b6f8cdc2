------------------------------ MODULE HeaderRules ------------------------------
(***************************************************************************)
(* rules/headers.ts: the routing headers of Streamable HTTP.  The site of  *)
(* a request has the headers the call sets and the members of the JSON-RPC *)
(* body they must equal:                                                   *)
(*                                                                         *)
(*   object.header[h]   NoValue, or what the text shows of its value       *)
(*   object.body[h]     the same of _meta's version, method and name       *)
(*                                                                         *)
(* A value that is shown is <<"literal", v>> or <<"identifier", v>>; one   *)
(* that is there and cannot be read is Unread.                             *)
(***************************************************************************)
EXTENDS RuleHelpers

NoValue == <<"absent", "">>
Unread == <<"unread", "">>

REQUIRED_HEADER_NAMES == {"mcp-protocol-version", "mcp-method", "mcp-name"}

\* findMcpRequestSites
McpRequestSites(src) ==
  {s \in AstHits(src, {"request"}) :
     /\ {"jsonrpc 2.0", "id", "literal method"} \subseteq s.facts
     /\ {"known method", "extension context"} \cap s.facts # {}}

HeadersOpaque(s) == {"opaque headers", "opaque options", "custom client"} \cap s.facts # {}

Compare(left, right) ==
  IF {left, right} \cap {NoValue, Unread} # {} \/ left[1] # right[1] THEN "unknown"
  ELSE IF left[2] = right[2] THEN "equal" ELSE "mismatch"

HEADER_001 == Rule("HEADER-001", "error", "medium", Script, Http)

MissingRequestHeaders(src) ==
  LET Of(s) == REQUIRED_HEADER_NAMES \ (IF "name-bearing" \in s.facts THEN {} ELSE {"mcp-name"})
      Missing(s) == {h \in Of(s) : s.object.header[h] = NoValue}
      Compared(s, result) ==
        {h \in Of(s) \ Missing(s) : Compare(s.object.header[h], s.object.body[h]) = result}
      faulty == {s \in McpRequestSites(src) :
                   Missing(s) # {} \/ \E h \in Of(s) \ Missing(s) :
                                        Compare(s.object.header[h], s.object.body[h]) # "equal"}
      definitive == {s \in faulty : \/ Compared(s, "mismatch") # {}
                                    \/ Missing(s) # {} /\ ~HeadersOpaque(s)}
  IN << {Finding(HEADER_001, "error", "high", "invalid headers", s) : s \in definitive},
        ReportReview(HEADER_001, "low", "headers", faulty \ definitive) >>

HEADER_002 == Rule("HEADER-002", "review", "medium", Script, Http)

RouteHandlesHeaders(s) ==
  \/ {"validates routing headers", "official v2 handler"} \cap s.facts # {}
  \/ REQUIRED_HEADER_NAMES \cup {"rejects mismatch"} \subseteq s.facts

UnvalidatedHeaders(src) ==
  LET routes == AstHits(src, {"POST /mcp"}) \cup
        (IF FileHasMcpSignal(src) /\ ~IsClientOnly(src) THEN AstHits(src, {"export POST"}) ELSE {})
  IN << Report(HEADER_002, "handler", {s \in routes : ~RouteHandlesHeaders(s)}) >>

HEADER_003 == Rule("HEADER-003", "info", "high", Script, Http)

HeadersImplemented(src) ==
  LET named == AstHits(src, REQUIRED_HEADER_NAMES)
  IN << Report(HEADER_003, "set", {s \in named : HeaderAccess(s) = "write"}),
        Report(HEADER_003, "read", {s \in named : HeaderAccess(s) = "read"}),
        Report(HEADER_003, "referenced",
               {s \in named : HeaderAccess(s) = "none" /\ s.form = "literal"}) >>
=============================================================================
