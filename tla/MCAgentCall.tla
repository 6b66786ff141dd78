----------------------------- MODULE MCAgentCall -----------------------------
(* Small instances of AgentCall: two calls of one panel, one of another. *)
EXTENDS AgentCall, TLC

CONSTANTS p1, p2, c1, c2, c3

MCPanelOf == (c1 :> p1) @@ (c2 :> p1)
MCThreeOf == (c1 :> p1) @@ (c2 :> p1) @@ (c3 :> p2)
=============================================================================
