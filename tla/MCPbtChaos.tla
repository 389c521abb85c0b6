----------------------------- MODULE MCPbtChaos -----------------------------
(***************************************************************************)
(* pbtchaos with a few requests and a channel they can fill.               *)
(***************************************************************************)
EXTENDS PbtChaos

AllCalls == {"partition", "clear"}
NoCalls  == {}
=============================================================================
