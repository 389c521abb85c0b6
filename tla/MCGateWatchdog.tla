--------------------------- MODULE MCGateWatchdog ---------------------------
(***************************************************************************)
(* The gate beside the smoke schedule: a short op before the fork, and a   *)
(* straddle whose legal tail ends exactly when the schedule is quiet.      *)
(***************************************************************************)
EXTENDS GateWatchdog

MCNoTime == -1

MCOpInfo ==
    << [start |-> 220, end |-> 370, hold |-> MCNoTime, victims |-> {2}],
       [start |-> 660, end |-> 840, hold |-> 960, victims |-> {2, 3}] >>

(* The migration is done in the middle of the schedule, after its end, when *)
(* the gate claims its window just before the watchdog would fire, or never. *)
Midway == {300}
Late   == {1185}
Never  == {MaxTime + 1}
AtTheLast == {1290}
Any       == Midway \cup AtTheLast \cup Never
MidwayOrLate  == Midway \cup Late

PartitionAndClear == {"partition", "clear"}
NoCalls  == {}
Clears   == {"clear"}
=============================================================================
