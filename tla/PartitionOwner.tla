--------------------------- MODULE PartitionOwner ---------------------------
(***************************************************************************)
(* What the program that owns disruptoor promises the rest of the network: *)
(* an op is applied inside its window only, what the owner knows to be     *)
(* applied is healed within HealLag of the op's latest heal unless a Clear *)
(* fails, and the owner is finished by ReleaseBy and leaves the network    *)
(* whole.  ChaosDriver implements it (ImplementsOwner); GateWatchdog       *)
(* relies on it.                                                           *)
(***************************************************************************)
EXTENDS Integers

CONSTANTS
    OpInfo,      \* op -> [start, end, hold, victims]
    NoOp,
    NoHold,
    StartLag,    \* how late after its window's end a started call may land
    HealLag,     \* how late a heal may be
    ReleaseBy    \* the schedule's Quiet

VARIABLES
    now,
    net,       \* the partition disruptoor applies
    kept,      \* the owner knows of it
    lastClear, \* how its latest Clear returned
    done       \* the owner never calls disruptoor again

ownerVars == <<now, net, kept, lastClear, done>>

Ops == DOMAIN OpInfo

Latest(o) == IF OpInfo[o].hold = NoHold THEN OpInfo[o].end ELSE OpInfo[o].hold

Init ==
    /\ now \in Int
    /\ net = NoOp /\ kept = FALSE
    /\ lastClear = "ok"
    /\ done = FALSE

(* A partition the owner does not know of is one whose answer was lost. *)
Split(o) ==
    /\ ~done
    /\ OpInfo[o].start <= now /\ now <= OpInfo[o].end + StartLag
    /\ net' = o
    /\ kept' \in BOOLEAN
    /\ UNCHANGED <<now, lastClear, done>>

Heal ==
    /\ ~done
    /\ net' = NoOp /\ kept' = FALSE
    /\ lastClear' = "ok"
    /\ done' \in BOOLEAN
    /\ UNCHANGED now

HealFails ==
    /\ ~done
    /\ \/ net' = NoOp /\ kept' = FALSE
       \/ UNCHANGED <<net, kept>>
    /\ lastClear' = "failed"
    /\ done' \in BOOLEAN
    /\ UNCHANGED now

Retire ==
    /\ ~done
    /\ net \notin Ops \/ lastClear = "failed"
    /\ done' = TRUE
    /\ UNCHANGED <<now, net, kept, lastClear>>

(* Time passes only as far as the promises allow. *)
Due(t) ==
    /\ kept /\ lastClear = "ok" => t <= Latest(net) + HealLag
    /\ done \/ t <= ReleaseBy

Pass ==
    /\ now' > now
    /\ Due(now')
    /\ UNCHANGED <<net, kept, lastClear, done>>

Next == (\E o \in Ops : Split(o)) \/ Heal \/ HealFails \/ Retire \/ Pass

Spec == Init /\ [][Next]_ownerVars
=============================================================================
