-------------------------- MODULE MCMigrationSwap --------------------------
(***************************************************************************)
(* Two producers and three consumers, of which the first and the last      *)
(* share a producer, in a short lap with one partition in its middle and   *)
(* one at the fork.                                                        *)
(***************************************************************************)
EXTENDS MigrationSwap

MCQueue   == <<"c1", "c2", "c3">>
MCSource  == [n \in {"c1", "c2", "c3"} |-> IF n = "c2" THEN "erigon" ELSE "geth"]
MCWindows == {<<300, 420>>, <<900, 1020>>}
=============================================================================
