----------------------------- MODULE MCServices -----------------------------
(* The servers an agent talks to: a behaviour is one of the local inference *)
(* server, its tuner and the other callers of its manager, or of calls to   *)
(* an MCP server and their approvals; the other part rests.                 *)
EXTENDS InferenceTuning, McpClient

VARIABLE part

ServicesInit == part \in {"inference", "mcp"} /\ TuningInit /\ McpInit

InferenceStep == part = "inference" /\ TuningNext /\ UNCHANGED <<mcpVars, part>>
McpStep == part = "mcp" /\ McpNext /\ UNCHANGED <<inferenceVars, tuningVars, part>>

ServicesSpec ==
    ServicesInit /\ [][InferenceStep \/ McpStep]_<<inferenceVars, tuningVars, mcpVars, part>>
=============================================================================
