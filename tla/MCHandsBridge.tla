---------------------------- MODULE MCHandsBridge ----------------------------
(***************************************************************************)
(* Instances of the hands bridge for TLC: all calls carry one request key; *)
(* the API server runs all of them but one, the MCP server that one.       *)
(***************************************************************************)
EXTENDS HandsBridge, TLC

CONSTANTS Api, Mcp, McpCall

SharedOwner == [t \in Tasks |-> CHOOSE o \in Owners : TRUE]
OneTask == [x \in Calls |-> CHOOSE t \in Tasks : TRUE]
TwoServers == [x \in Calls |-> IF x = McpCall THEN Mcp ELSE Api]

\* The calls of the API server are interchangeable.
ApiCallSymmetry == Permutations(Calls \ {McpCall})
=============================================================================
