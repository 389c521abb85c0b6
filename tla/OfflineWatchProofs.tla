------------------------- MODULE OfflineWatchProofs -------------------------
(***************************************************************************)
(* Proof that a swap whose pushes all arrive is not reported against its   *)
(* node, for every alarm limit and every interleaving of the swap, the     *)
(* node, the monitor's polls and its samples.                              *)
(***************************************************************************)
EXTENDS OfflineWatch, TLAPS

Values ==
    /\ swap \in {"waiting", "stopping", "copying", "starting", "polling", "over"}
    /\ node \in {"live", "down", "importing", "behind", "synced", "dead"}
    /\ lost \in Nat /\ lates \in Nat /\ streak \in Nat /\ unseen \in Nat
    /\ reachable \in BOOLEAN /\ reset \in BOOLEAN
    /\ have \in BOOLEAN /\ behind \in BOOLEAN /\ active \in BOOLEAN

(* Where the swap is, where its node is, and what the monitor was told. *)
InStep ==
    /\ swap = "waiting"  => importer = "pending" /\ node = "live" /\ ~reachable
    /\ swap = "stopping" => importer = "disconnecting" /\ node = "live" /\ ~reachable
    /\ swap = "copying"  => importer = "disconnecting" /\ node = "down" /\ ~reachable
    /\ swap = "starting" => importer = "importing" /\ node = "down" /\ ~reachable
    /\ swap = "polling" /\ ~reachable =>
         importer = "importing" /\ node \in {"importing", "behind", "synced", "dead"}
    /\ swap = "polling" /\ reachable /\ reset => importer = "reconnecting"
    /\ swap = "polling" /\ reachable =>
         importer \in {"reconnecting", "replaying", "caught_up"}
    /\ reachable => swap \in {"polling", "over"} /\ node \in {"behind", "synced"}
    /\ swap = "over" /\ reachable => ~reset

(* Once the restarted node's reset was taken, what the monitor has read of *)
(* it is not older than the restart, and no streak is longer than the node *)
(* has been up without a root. *)
ReadAnew ==
    reachable /\ ~reset =>
        /\ have /\ node = "behind" => behind
        /\ active => streak <= unseen

QuietWhileBehind == swap = "polling" /\ reachable /\ node = "behind" => quiet

(* A misfire only after a swap that was over before the node answered. *)
MisfiresLate == alarm = "misfired" => swap = "over" /\ ~reachable

IInv ==
    /\ Values
    /\ Delivered => /\ late = {}
                    /\ InStep
                    /\ ReadAnew
                    /\ QuietWhileBehind
                    /\ MisfiresLate

-----------------------------------------------------------------------------
LEMMA InvInit == Init => IInv
<1> SUFFICES ASSUME Init PROVE IInv
  OBVIOUS
<1>1. lost \in Nat /\ lates \in Nat /\ streak \in Nat /\ unseen \in Nat
  BY DEF Init
<1> QED
  BY <1>1, Zenon DEF Init, IInv, Values, InStep, ReadAnew, QuietWhileBehind, MisfiresLate

(* A push that arrives is applied at once; any other ends Delivered. *)
LEMMA Pushed ==
    ASSUME NEW step, lost \in Nat, lates \in Nat, postLifecycle(step), Delivered'
    PROVE  Delivered /\ apply(step) /\ UNCHANGED pushes
BY DEF postLifecycle, Delivered, pushes

LEMMA SwapKeeps ==
    ASSUME IInv, SlowReplay, swapBody
    PROVE  IInv'
<1> USE DEF IInv, Values, Delivered, InStep, ReadAnew, QuietWhileBehind, MisfiresLate,
            nodeVars, monitorVars, quiet, quietSteps
<1>0. ASSUME NEW step, postLifecycle(step)
      PROVE  lost' \in Nat /\ lates' \in Nat /\ reset' \in BOOLEAN
  <2>1. lost' \in Nat /\ lates' \in Nat
    BY <1>0 DEF postLifecycle, pushes
  <2>2. reset' \in BOOLEAN
    BY <1>0, Zenon DEF postLifecycle, apply, lifecycle
  <2> QED
    BY <2>1, <2>2
<1>1. CASE Disconnect
  BY <1>0, <1>1, Pushed DEF Disconnect, apply, pushes
<1>2. CASE Stop
  BY <1>2 DEF Stop, pushes, lifecycle
<1>3. CASE Import
  BY <1>0, <1>3, Pushed DEF Import, apply, pushes
<1>4. CASE Start
  BY <1>4 DEF Start, pushes, lifecycle
<1>5. CASE Reconnect
  BY <1>0, <1>5, Pushed DEF Reconnect, Answers, apply, pushes
<1>6. CASE CaughtUp
  BY <1>0, <1>6, Pushed DEF CaughtUp, Polled, apply, pushes
<1>7. CASE TimedOut
  BY <1>0, <1>7, Pushed DEF TimedOut, Polled, apply, pushes
<1>8. CASE Failed
  BY <1>0, <1>8, Pushed DEF Failed, Polled, apply, pushes
<1> QED
  BY <1>1, <1>2, <1>3, <1>4, <1>5, <1>6, <1>7, <1>8 DEF swapBody

LEMMA NodeKeeps ==
    ASSUME IInv, Imported \/ Replayed \/ Arrives \/ Tick
    PROVE  IInv'
<1> USE OfflineWatchAssumption
    DEF IInv, Values, Delivered, InStep, ReadAnew, QuietWhileBehind, MisfiresLate, swapVars,
        nodeVars, monitorVars, pushes, lifecycle, quiet, quietSteps
<1>1. CASE Imported
  BY <1>1 DEF Imported
<1>2. CASE Replayed
  BY <1>2 DEF Replayed
<1>3. CASE Arrives
  BY <1>3 DEF Arrives, apply
<1>4. CASE Tick
  BY <1>4 DEF Tick, Capped
<1> QED
  BY <1>1, <1>2, <1>3, <1>4

LEMMA MonitorKeeps ==
    ASSUME IInv, Poll \/ Sample
    PROVE  IInv'
<1> USE OfflineWatchAssumption
    DEF IInv, Values, Delivered, InStep, ReadAnew, QuietWhileBehind, MisfiresLate, swapVars,
        nodeVars, pushes, lifecycle, quiet, quietSteps
<1>1. CASE takeReset
  BY <1>1 DEF takeReset
<1>2. CASE pollOnce
  <2>1. CASE Answers
    BY <1>2, <2>1, Zenon DEF pollOnce, Answers
  <2>2. CASE ~Answers
    <3>1. UNCHANGED <<swapVars, nodeVars, pushes, lifecycle, have, behind, active, streak, alarm>>
      BY <1>2, <2>2 DEF pollOnce
    <3> QED
      BY <3>1
  <2> QED
    BY <2>1, <2>2, Zenon
<1>3. CASE derive
  BY <1>3 DEF derive
<1>4. CASE sampleAt \/ Skipped
  BY <1>4 DEF sampleAt, Skipped
<1>5. CASE Observe
  <2> DEFINE since == IF have /\ active THEN streak ELSE 0
  <2>1. /\ active' = have
        /\ \/ streak' = 0 /\ unseen' = 0 /\ alarm' = alarm
           \/ /\ node # "live"
              /\ streak' = since /\ unseen' = unseen
              /\ alarm' = IF have /\ since > NullLimit /\ ~quiet
                          THEN IF unseen > NullLimit THEN "earned" ELSE "misfired"
                          ELSE alarm
    <3>1. PICK null \in {FALSE} \cup {node # "live"} :
            LET given == IF have /\ active /\ null THEN streak ELSE 0
            IN  /\ active' = have
                /\ streak' = given
                /\ unseen' = IF null THEN unseen ELSE 0
                /\ alarm' = IF have /\ null /\ given > NullLimit /\ ~quiet
                            THEN IF unseen > NullLimit THEN "earned" ELSE "misfired"
                            ELSE alarm
      BY <1>5, Zenon DEF Observe
    <3>2. CASE null = FALSE
      BY <3>1, <3>2, Zenon
    <3>3. CASE null = TRUE
      BY <3>1, <3>3, Zenon
    <3> QED
      BY <3>1, <3>2, <3>3, Zenon
  <2>2. /\ UNCHANGED <<swap, reachable, node, late, lost, lates, importer, reset, have, behind>>
        /\ node \in {"live", "behind", "synced"}
    BY <1>5 DEF Observe, Answers
  <2>3. streak' \in Nat /\ unseen' \in Nat /\ active' \in BOOLEAN
    BY <2>1
  <2>4. Delivered => ReadAnew'
    BY <2>1, <2>2
  <2>5. Delivered => MisfiresLate'
    BY <2>1, <2>2
  <2> QED
    BY <2>2, <2>3, <2>4, <2>5
<1> QED
  BY <1>1, <1>2, <1>3, <1>4, <1>5 DEF Poll, Sample

LEMMA Invariant ==
    ASSUME SlowReplay PROVE Spec => []IInv
<1>1. IInv /\ [Next]_vars => IInv'
  <2> SUFFICES ASSUME IInv, [Next]_vars PROVE IInv'
    OBVIOUS
  <2>1. CASE UNCHANGED vars
    BY <2>1
       DEF vars, swapVars, nodeVars, pushes, lifecycle, monitorVars, IInv, Values, Delivered,
           InStep, ReadAnew, QuietWhileBehind, MisfiresLate, quiet, quietSteps
  <2> QED
    BY <2>1, SwapKeeps, NodeKeeps, MonitorKeeps DEF Next
<1> QED
  BY <1>1, InvInit, PTL DEF Spec

(* A swap whose pushes all arrive causes no finding about its node, if the *)
(* monitor polls between the swap's first look at the restarted consumer   *)
(* and what it says next. *)
THEOREM SwapsStayQuiet ==
    ASSUME SlowReplay PROVE Spec => []SwapsAreNotFindings
<1>1. IInv => SwapsAreNotFindings
  BY DEF IInv, Values, InStep, QuietWhileBehind, MisfiresLate, SwapsAreNotFindings, quiet,
         quietSteps
<1> QED
  BY <1>1, Invariant, PTL

-----------------------------------------------------------------------------
(* Types, for either SlowReplay. *)
PushTypes ==
    /\ late \subseteq {"disconnecting", "importing", "reconnecting", "caught_up", "timeout", "failed"}
    /\ lost \in 0..MaxLost /\ lates \in 0..MaxLate
    /\ importer \in {"pending", "disconnecting", "importing", "reconnecting", "replaying",
                     "caught_up", "timeout", "failed"}

StepTypes ==
    /\ swap \in {"waiting", "stopping", "copying", "starting", "polling", "over"}
    /\ node \in {"live", "down", "importing", "behind", "synced", "dead"}
    /\ pc \in {"idle", "read", "derive", "sample"}
    /\ alarm \in {"none", "earned", "misfired"}

ClockTypes == unseen \in 0..(NullLimit + 1) /\ streak \in 0..(NullLimit + 1)

FlagTypes ==
    /\ reachable \in BOOLEAN /\ reset \in BOOLEAN
    /\ have \in BOOLEAN /\ behind \in BOOLEAN /\ active \in BOOLEAN

Typed == PushTypes /\ StepTypes /\ ClockTypes /\ FlagTypes

LEMMA PushedTypes ==
    ASSUME NEW step \in {"disconnecting", "importing", "reconnecting", "caught_up", "timeout", "failed"},
           PushTypes, postLifecycle(step)
    PROVE  PushTypes'
<1> DEFINE applied == importer' = step /\ UNCHANGED pushes
           dropped == lost < MaxLost /\ lost' = lost + 1 /\ UNCHANGED <<late, lates, importer>>
           delayed == lates < MaxLate /\ lates' = lates + 1 /\ late' = late \cup {step}
                      /\ UNCHANGED <<lost, importer>>
<1>1. applied \/ dropped \/ delayed
  BY Zenon DEF postLifecycle, apply, lifecycle
<1>2. CASE applied
  BY <1>2 DEF PushTypes, pushes
<1>3. CASE dropped
  BY <1>3, OfflineWatchAssumption DEF PushTypes
<1>4. CASE delayed
  BY <1>4, OfflineWatchAssumption DEF PushTypes
<1> QED
  BY <1>1, <1>2, <1>3, <1>4

LEMMA TypesKept ==
    ASSUME Typed, [Next]_vars
    PROVE  Typed'
<1> USE DEF Typed, swapBody, Poll, Sample, vars, swapVars, nodeVars, monitorVars
<1>1. PushTypes'
  <2>1. CASE swapBody
    BY <2>1, PushedTypes DEF Disconnect, Stop, Import, Start, Reconnect, CaughtUp, TimedOut, Failed,
       PushTypes, pushes, lifecycle
  <2>2. CASE Arrives
    BY <2>2 DEF Arrives, apply, PushTypes
  <2>3. CASE Imported \/ Replayed \/ Poll \/ Sample \/ Tick \/ UNCHANGED vars
    BY <2>3 DEF Imported, Replayed, takeReset, pollOnce, derive, sampleAt, Skipped, Observe, Tick,
       PushTypes, pushes, lifecycle
  <2> QED
    BY <2>1, <2>2, <2>3 DEF Next
<1>2. StepTypes'
  <2>1. CASE swapBody \/ Imported \/ Replayed \/ Arrives \/ UNCHANGED vars
    BY <2>1 DEF Disconnect, Stop, Import, Start, Reconnect, CaughtUp, TimedOut, Failed, Imported,
       Replayed, Arrives, StepTypes
  <2>2. CASE Poll \/ Sample \/ Tick
    BY <2>2 DEF takeReset, pollOnce, derive, sampleAt, Skipped, Observe, Tick, StepTypes
  <2> QED
    BY <2>1, <2>2 DEF Next
<1>3. ClockTypes'
  <2>1. CASE swapBody \/ Imported \/ Replayed \/ Arrives \/ UNCHANGED vars
    BY <2>1, OfflineWatchAssumption DEF Disconnect, Stop, Import, Start, Reconnect, CaughtUp,
       TimedOut, Failed, Imported, Replayed, Arrives, ClockTypes
  <2>2. CASE Poll \/ Sample \/ Tick
    BY <2>2, OfflineWatchAssumption DEF takeReset, pollOnce, derive, sampleAt, Skipped, Observe, Tick,
       Capped, ClockTypes
  <2> QED
    BY <2>1, <2>2 DEF Next
<1>4. FlagTypes'
  <2>1. ASSUME NEW step, postLifecycle(step) PROVE reset' \in BOOLEAN
    BY <2>1, Zenon DEF postLifecycle, apply, lifecycle, FlagTypes
  <2>2. CASE swapBody
    BY <2>1, <2>2, Zenon DEF Disconnect, Stop, Import, Start, Reconnect, CaughtUp, TimedOut, Failed,
       FlagTypes, lifecycle
  <2>3. CASE Imported \/ Replayed \/ Arrives \/ UNCHANGED vars
    BY <2>3, Zenon DEF Imported, Replayed, Arrives, apply, FlagTypes, lifecycle
  <2>4. CASE Poll \/ Sample \/ Tick
    BY <2>4, Zenon DEF takeReset, pollOnce, derive, sampleAt, Skipped, Observe, Tick, FlagTypes,
       lifecycle
  <2> QED
    BY <2>2, <2>3, <2>4, Zenon DEF Next
<1> QED
  BY <1>1, <1>2, <1>3, <1>4

(* Every variable keeps its type, and the streaks their cap.               *)
THEOREM WatchTypeCorrect == Spec => []TypeOK
<1>1. Init => Typed
  <2>1. Init => PushTypes /\ StepTypes /\ ClockTypes
    BY OfflineWatchAssumption DEF Init, PushTypes, StepTypes, ClockTypes
  <2>2. Init => FlagTypes
    BY Zenon DEF Init, FlagTypes
  <2> QED
    BY <2>1, <2>2 DEF Typed
<1>2. Typed => TypeOK
  BY Zenon DEF Typed, PushTypes, StepTypes, ClockTypes, FlagTypes, TypeOK
<1> QED
  BY <1>1, <1>2, TypesKept, PTL DEF Spec
=============================================================================
