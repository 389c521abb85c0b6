--------------------------- MODULE MCPbtScenario ---------------------------
(***************************************************************************)
(* A scenario over three clients: the one cut off, majority[0], and one    *)
(* more of the majority that nobody asks before the heal.                  *)
(***************************************************************************)
EXTENDS PbtScenario

CONSTANTS ref, other, island

Three == {ref, other, island}
=============================================================================
