---------------------------- MODULE MCPbtMonitor ----------------------------
(***************************************************************************)
(* pbtmonitor over two clients and forks as deep as its two tails.         *)
(***************************************************************************)
EXTENDS PbtMonitor
=============================================================================
