------------------------- MODULE ChaosDriverProofs -------------------------
(***************************************************************************)
(* Proofs about the chaos driver, for every schedule with the shape of     *)
(* SerialAssumption, every lateness and every pattern of failing calls;    *)
(* and about the schedules themselves: every input that Resolve accepts    *)
(* gives one of that shape, swept, calm where Gaps says so, and with       *)
(* islands that lose.                                                      *)
(***************************************************************************)
EXTENDS ChaosDriver, Resolution, FiniteSetTheorems, SequenceTheorems, WellFoundedInduction, TLAPS

StartSteps == {"deployWait", "deploying", "startWait", "partitioning", "writeWait", "writing"}
EndSteps   == {"endWait", "probing", "holdSleep", "clearing"}
SweepSteps == {"sweepWait", "sweeping"}
Gone       == {"shutdownClear", "stopped"}

(* Where the driver is in its list agrees with the kind of action it is at. *)
PcMatchesAction ==
    /\ pc \in StartSteps \cup EndSteps \cup SweepSteps \cup {"repeering"} => k \in 1..Len(Acts)
    /\ pc \in StartSteps => Acts[k].kind = KindStart
    /\ pc \in EndSteps   => Acts[k].kind = KindEnd
    /\ pc \in SweepSteps => Acts[k].kind = KindSweep
    /\ pc = "boot" => k = 1
    /\ pc \in {"quietWait", "released"} => k = Len(Acts) + 1

BootIsFresh == pc = "boot" => net = NoOp

(* The start of every accepted op lies behind the driver. *)
AppliedIsBehind ==
    \A o \in applied : \E j \in 1..Len(Acts) :
        /\ Acts[j].kind = KindStart /\ Acts[j].op = o
        /\ j < k \/ (j = k /\ pc \in {"writeWait", "writing"} \cup Gone)

(* A heal is outstanding only inside the op's own two actions, or because  *)
(* a Clear failed. *)
OutstandingIsOpen ==
    ~healed /\ lastClear = "ok" =>
        \/ pc \in {"writeWait", "writing"} /\ Acts[k].op \in applied
        \/ pc \in EndSteps /\ Acts[k].op \in applied
        \/ pc \in Gone

(* Whatever is still applied without a failed Clear has a sweep ahead. *)
SweepAhead ==
    net # NoOp /\ lastClear = "ok" =>
        \/ k < Len(Acts)
        \/ k = Len(Acts) /\ pc \in SweepSteps
        \/ pc = "shutdownClear"

IInv ==
    /\ TypeOK
    /\ PcMatchesAction
    /\ BootIsFresh
    /\ AppliedIsBehind
    /\ OverstayIsKnown
    /\ OutstandingIsOpen
    /\ SweepAhead
    /\ pc = "stopped" => EndsWhole

-----------------------------------------------------------------------------
LEMMA SerialFacts ==
    /\ \A i \in 1..Len(Acts) : Acts[i].kind # KindSweep => Acts[i].op \in Ops
    /\ \A i, j \in 1..Len(Acts) :
          Acts[i].kind = KindStart /\ Acts[j].kind = KindStart /\ Acts[i].op = Acts[j].op => i = j
    /\ \A i \in 1..Len(Acts) : Acts[i].kind = KindStart =>
          /\ i + 1 \in 1..Len(Acts)
          /\ Acts[i+1].kind = KindEnd
          /\ Acts[i+1].op = Acts[i].op
          /\ Acts[i].at = OpInfo[Acts[i].op].start
    /\ Acts # <<>> /\ Acts[Len(Acts)].kind = KindSweep
  BY SerialAssumption, Zenon DEF Serial, Ops

(* Begin(i) lands on a step that matches action i, or on the final wait. *)
BeginSteps == {"deployWait", "startWait", "endWait", "sweepWait", "quietWait"}

LEMMA ActsFacts ==
    /\ Len(Acts) \in Nat /\ Len(Acts) >= 1
    /\ \A i \in 1..Len(Acts) : /\ Acts[i].kind \in {KindEnd, KindSweep, KindStart}
                               /\ Acts[i].at \in Int
                               /\ Acts[i].op \in Ops \cup {NoOp}
  <1> DEFINE Action == [kind : {KindEnd, KindSweep, KindStart}, at : Int, op : Ops \cup {NoOp}]
  <1>1. Acts \in Seq(Action)
    BY ScheduleAssumption
  <1>2. \A i \in 1..Len(Acts) : Acts[i] \in Action
    <2> HIDE DEF Action
    <2> QED BY <1>1
  <1>3. Len(Acts) \in Nat /\ Len(Acts) >= 1
    <2> HIDE DEF Action
    <2> QED BY <1>1, SerialFacts
  <1>4. QED
    BY <1>2, <1>3

LEMMA WaitFacts ==
    ASSUME NEW p, NEW t \in Int, now \in Int, WaitFor(p, t)
    PROVE  pc' = p /\ due' \in Int /\ asleep' \in BOOLEAN
  BY BoundsAssumption DEF WaitFor

LEMMA CallFacts ==
    ASSUME NEW p, NEW t \in Int, now \in Int, Call(p, t)
    PROVE  pc' = p /\ due' \in Int /\ asleep' \in BOOLEAN
  <1>1. asleep' \in BOOLEAN
    BY Zenon DEF Call
  <1>2. QED
    BY <1>1, BoundsAssumption DEF Call

LEMMA BeginFacts ==
    ASSUME NEW i \in 1..(Len(Acts) + 1), now \in Int, Begin(i)
    PROVE  /\ k' = i
           /\ pc' \in BeginSteps /\ due' \in Int /\ asleep' \in BOOLEAN
           /\ i = Len(Acts) + 1 => pc' = "quietWait"
           /\ i \in 1..Len(Acts) =>
                /\ Acts[i].kind = KindStart => pc' \in {"deployWait", "startWait"}
                /\ Acts[i].kind = KindEnd   => pc' = "endWait"
                /\ Acts[i].kind = KindSweep => pc' = "sweepWait"
  <1>0. Slack \in Nat /\ Quiet \in Int
    BY BoundsAssumption, ScheduleAssumption
  <1>1. CASE i > Len(Acts)
    <2>1. k' = i /\ WaitFor("quietWait", Quiet)
      BY <1>1, ActsFacts DEF Begin
    <2>2. i = Len(Acts) + 1 /\ i \notin 1..Len(Acts)
      BY <1>1, ActsFacts
    <2>3. QED
      BY <2>1, <2>2, <1>0, WaitFacts DEF BeginSteps
  <1>2. CASE i <= Len(Acts)
    <2>1. i \in 1..Len(Acts) /\ i # Len(Acts) + 1
      BY <1>2, ActsFacts
    <2>2. Acts[i].kind \in {KindEnd, KindSweep, KindStart} /\ Acts[i].at \in Int
      BY <2>1, ActsFacts
    <2>3. k' = i
      BY DEF Begin
    <2>4. Arrive(Acts[i])
      BY <1>2, ActsFacts DEF Begin
    <2>5. \/ Acts[i].kind = KindStart /\ WaitFor("deployWait", Acts[i].at - DeployLead)
          \/ Acts[i].kind = KindStart /\ WaitFor("startWait", Acts[i].at)
          \/ Acts[i].kind = KindEnd   /\ WaitFor("endWait", Acts[i].at)
          \/ Acts[i].kind = KindSweep /\ WaitFor("sweepWait", Acts[i].at)
      BY <2>4 DEF Arrive
    <2>6. Acts[i].at - DeployLead \in Int
      BY <2>2 DEF DeployLead
    <2>7. QED
      BY <2>1, <2>2, <2>3, <2>5, <2>6, WaitFacts
         DEF BeginSteps, KindStart, KindEnd, KindSweep
  <1>3. QED
    BY <1>1, <1>2, ActsFacts

LEMMA InitInv == Init => IInv
  <1>1. SUFFICES ASSUME Init PROVE IInv
    OBVIOUS
  <1>2. now \in Int /\ due \in Int
    BY <1>1, BoundsAssumption DEF Init
  <1>a. /\ asleep \in BOOLEAN /\ healed \in BOOLEAN /\ signal \in BOOLEAN
        /\ pc \in PCs /\ net \in Ops \cup {NoOp} /\ lastClear \in {"ok", "failed"}
    BY <1>1, Zenon DEF Init, PCs
  <1>b. k \in 1..(Len(Acts) + 1) /\ alarms \in Nat
    BY <1>1, ActsFacts DEF Init
  <1>c. applied \subseteq Ops /\ crossed \subseteq Islands /\ onOwn \subseteq Islands
    BY <1>1 DEF Init
  <1>3. TypeOK
    BY <1>2, <1>a, <1>b, <1>c DEF TypeOK
  <1>4. PcMatchesAction
    BY <1>1 DEF Init, PcMatchesAction, StartSteps, EndSteps, SweepSteps
  <1>5. BootIsFresh /\ AppliedIsBehind /\ OverstayIsKnown /\ OutstandingIsOpen /\ SweepAhead
    BY <1>1 DEF Init, BootIsFresh, AppliedIsBehind, OverstayIsKnown, OutstandingIsOpen, SweepAhead
  <1>6. QED
    BY <1>1, <1>3, <1>4, <1>5 DEF IInv, Init

-----------------------------------------------------------------------------
(* Every step keeps the control state typed, and pc at a step of its action. *)
Control ==
    /\ due \in Int
    /\ pc \in PCs
    /\ k \in 1..(Len(Acts) + 1)
    /\ asleep \in BOOLEAN
    /\ PcMatchesAction

LEMMA ControlStep == TypeOK /\ PcMatchesAction /\ Next => Control'
  <1> SUFFICES ASSUME TypeOK, PcMatchesAction, Next PROVE Control'
    OBVIOUS
  <1> USE ActsFacts, BoundsAssumption
  <1> USE DEF TypeOK, PcMatchesAction, Control, PCs, Waits, Calls, Terminal, BeginSteps,
              StartSteps, EndSteps, SweepSteps
  <1>1. CASE Boot
    <2>1. Begin(1) /\ 1 \in 1..(Len(Acts) + 1)
      BY <1>1 DEF Boot
    <2>2. QED
      BY <2>1, BeginFacts
  <1>2. CASE SkipStale
    <2>1. Begin(k + 1) /\ k + 1 \in 1..(Len(Acts) + 1)
      BY <1>2 DEF SkipStale
    <2>2. QED
      BY <2>1, BeginFacts
  <1>3. CASE PartitionErr
    <2>1. Begin(k + 1) /\ k + 1 \in 1..(Len(Acts) + 1)
      BY <1>3 DEF PartitionErr
    <2>2. QED
      BY <2>1, BeginFacts
  <1>4. CASE Written
    <2>1. Begin(k + 1) /\ k + 1 \in 1..(Len(Acts) + 1)
      BY <1>4 DEF Written
    <2>2. QED
      BY <2>1, BeginFacts
  <1>5. CASE SkipUnapplied
    <2>1. Begin(k + 1) /\ k + 1 \in 1..(Len(Acts) + 1)
      BY <1>5 DEF SkipUnapplied
    <2>2. QED
      BY <2>1, BeginFacts
  <1>6. CASE ClearErr
    <2>1. Begin(k + 1) /\ k + 1 \in 1..(Len(Acts) + 1)
      BY <1>6 DEF ClearErr
    <2>2. QED
      BY <2>1, BeginFacts
  <1>7. CASE Repeered
    <2>1. Begin(k + 1) /\ k + 1 \in 1..(Len(Acts) + 1)
      BY <1>7 DEF Repeered
    <2>2. QED
      BY <2>1, BeginFacts
  <1>8. CASE DeployWaitEnds
    <2>1. Call("deploying", DeployTimeout) /\ k' = k
      BY <1>8 DEF DeployWaitEnds
    <2>2. QED
      BY <1>8, <2>1, CallFacts DEF DeployWaitEnds, DeployTimeout
  <1>9. CASE StartWaitEnds
    <2>1. Call("partitioning", CallTimeout) /\ k' = k
      BY <1>9 DEF StartWaitEnds
    <2>2. QED
      BY <1>9, <2>1, CallFacts DEF StartWaitEnds, CallTimeout
  <1>10. CASE WriteWaitEnds
    <2>1. Call("writing", WriteTimeout) /\ k' = k
      BY <1>10 DEF WriteWaitEnds
    <2>2. QED
      BY <1>10, <2>1, CallFacts DEF WriteWaitEnds, WriteTimeout
  <1>11. CASE HoldSleepEnds
    <2>1. Call("probing", ProbeTimeout) /\ k' = k
      BY <1>11 DEF HoldSleepEnds
    <2>2. QED
      BY <1>11, <2>1, CallFacts DEF HoldSleepEnds, ProbeTimeout
  <1>12. CASE ClearOK
    <2>1. Call("repeering", RepeerTimeout) /\ k' = k
      BY <1>12 DEF ClearOK
    <2>2. QED
      BY <1>12, <2>1, CallFacts DEF ClearOK, RepeerTimeout
  <1>13. CASE SweepWaitEnds
    <2>1. Call("sweeping", CallTimeout) /\ k' = k
      BY <1>13 DEF SweepWaitEnds
    <2>2. QED
      BY <1>13, <2>1, CallFacts DEF SweepWaitEnds, CallTimeout
  <1>14. CASE SweepOK
    <2>1. Call("repeering", RepeerTimeout) /\ k' = k
      BY <1>14 DEF SweepOK
    <2>2. QED
      BY <1>14, <2>1, CallFacts DEF SweepOK, RepeerTimeout
  <1>15. CASE SweepErr
    <2>1. Call("repeering", RepeerTimeout) /\ k' = k
      BY <1>15 DEF SweepErr
    <2>2. QED
      BY <1>15, <2>1, CallFacts DEF SweepErr, RepeerTimeout
  <1>16. CASE Shutdown
    <2>1. Call("shutdownClear", CallTimeout) /\ k' = k
      BY <1>16 DEF Shutdown
    <2>2. QED
      BY <1>16, <2>1, CallFacts DEF Shutdown, CallTimeout
  <1>17. CASE Deployed
    <2>1. WaitFor("startWait", Acts[k].at) /\ k' = k
      BY <1>17 DEF Deployed
    <2>2. QED
      BY <1>17, <2>1, WaitFacts DEF Deployed
  <1>18. CASE PartitionOK
    <2>1. \/ WaitFor("writeWait", Acts[k].at + WriteDelay) /\ k' = k
          \/ Begin(k + 1)
      BY <1>18 DEF PartitionOK
    <2>2. k \in 1..Len(Acts) /\ Acts[k].at + WriteDelay \in Int
      BY <1>18 DEF PartitionOK, WriteDelay
    <2>3. CASE WaitFor("writeWait", Acts[k].at + WriteDelay) /\ k' = k
      BY <1>18, <2>2, <2>3, WaitFacts DEF PartitionOK
    <2>4. CASE Begin(k + 1)
      BY <2>2, <2>4, BeginFacts
    <2>5. QED
      BY <2>1, <2>3, <2>4
  <1>19. CASE EndWaitEnds
    <2>1. k' = k /\ (Call("probing", ProbeTimeout) \/ Call("clearing", CallTimeout))
      BY <1>19 DEF EndWaitEnds
    <2>2. QED
      BY <1>19, <2>1, CallFacts DEF EndWaitEnds, ProbeTimeout, CallTimeout
  <1>20. CASE Probe
    <2>1. k' = k /\ (Call("clearing", CallTimeout) \/ WaitFor("holdSleep", now + SlotSeconds))
      BY <1>20 DEF Probe
    <2>2. now + SlotSeconds \in Int
      OBVIOUS
    <2>3. QED
      BY <1>20, <2>1, <2>2, CallFacts, WaitFacts DEF Probe, CallTimeout
  <1>21. CASE ShutdownCleared
    BY <1>21 DEF ShutdownCleared
  <1>22. CASE ShutdownQuiet
    BY <1>22 DEF ShutdownQuiet
  <1>23. CASE Release
    BY <1>23 DEF Release
  <1>24. CASE StopReleased
    BY <1>24 DEF StopReleased
  <1>25. CASE Exited
    BY <1>25 DEF Exited, vars
  <1>26. CASE Tick
    BY <1>26 DEF Tick
  <1>27. CASE Signal
    BY <1>27 DEF Signal
  <1>28. CASE CrossFork
    BY <1>28 DEF CrossFork
  <1>29. QED
    BY <1>1, <1>2, <1>3, <1>4, <1>5, <1>6, <1>7, <1>8, <1>9, <1>10, <1>11, <1>12, <1>13, <1>14,
       <1>15, <1>16, <1>17, <1>18, <1>19, <1>20, <1>21, <1>22, <1>23, <1>24, <1>25, <1>26, <1>27, <1>28
       DEF Next, DriverStep

-----------------------------------------------------------------------------
(* What the driver has recorded, and the state of the network, stay typed. *)
DataOK ==
    /\ now \in Int
    /\ applied \subseteq Ops
    /\ healed \in BOOLEAN
    /\ crossed \subseteq Islands
    /\ alarms \in Nat
    /\ signal \in BOOLEAN
    /\ lastClear \in {"ok", "failed"}
    /\ net \in Ops \cup {NoOp}
    /\ onOwn \subseteq Islands

LEMMA OpIsAnOp ==
    ASSUME PcMatchesAction, pc \in StartSteps \cup EndSteps
    PROVE  Op \in Ops
  BY SerialFacts
     DEF PcMatchesAction, Op, StartSteps, EndSteps, KindStart, KindEnd, KindSweep

LEMMA VictimsAreIslands == \A o \in Ops : Victims(o) \subseteq Islands
  BY DEF Islands

LEMMA DataStep == TypeOK /\ PcMatchesAction /\ [Next]_vars => DataOK'
  <1> SUFFICES ASSUME TypeOK, PcMatchesAction, [Next]_vars PROVE DataOK'
    OBVIOUS
  <1> DEFINE Same == UNCHANGED <<now, applied, healed, crossed, alarms, signal, lastClear, net, onOwn>>
  <1>1. CASE Same
    BY <1>1, Zenon DEF TypeOK, DataOK
  <1>2. CASE /\ UNCHANGED <<now, applied, healed, crossed, alarms, lastClear, net, onOwn>>
             /\ signal' \in BOOLEAN
    BY <1>2, Zenon DEF TypeOK, DataOK
  <1>3. CASE PartitionOK
    <2>1. Op \in Ops
      BY <1>3, OpIsAnOp DEF PartitionOK, StartSteps
    <2>2. applied' \subseteq Ops /\ net' \in Ops \cup {NoOp}
      BY <1>3, <2>1 DEF PartitionOK, TypeOK
    <2>3. UNCHANGED <<now, crossed, alarms, lastClear, onOwn, signal>> /\ healed' \in BOOLEAN
      BY <1>3, Zenon DEF PartitionOK
    <2>4. QED
      BY <2>2, <2>3, Zenon DEF TypeOK, DataOK
  <1>4. CASE PartitionErr
    <2>1. Op \in Ops
      BY <1>4, OpIsAnOp DEF PartitionErr, StartSteps
    <2>2. net' \in Ops \cup {NoOp}
      BY <1>4, <2>1 DEF PartitionErr, TypeOK
    <2>3. UNCHANGED <<now, applied, healed, crossed, alarms, lastClear, onOwn, signal>>
      BY <1>4 DEF PartitionErr
    <2>4. QED
      BY <2>2, <2>3, Zenon DEF TypeOK, DataOK
  <1>5. CASE Probe
    <2>1. Victims(Op) \subseteq Islands
      BY <1>5, OpIsAnOp, VictimsAreIslands DEF Probe, EndSteps
    <2>2. crossed' \subseteq Islands
      BY <1>5, <2>1 DEF Probe, TypeOK
    <2>3. UNCHANGED <<now, applied, healed, alarms, lastClear, net, onOwn, signal>>
      BY <1>5 DEF Probe
    <2>4. QED
      BY <2>2, <2>3, Zenon DEF TypeOK, DataOK
  <1>6. CASE ClearOK
    <2>1. /\ UNCHANGED <<now, applied, crossed, alarms, onOwn, signal>>
          /\ healed' \in BOOLEAN /\ lastClear' \in {"ok", "failed"} /\ net' \in Ops \cup {NoOp}
      BY <1>6, Zenon DEF ClearOK
    <2>2. QED
      BY <2>1, Zenon DEF TypeOK, DataOK
  <1>7. CASE ClearErr \/ SweepErr \/ ShutdownCleared
    <2>1. UNCHANGED <<now, applied, healed, crossed, alarms, onOwn, signal>>
      BY <1>7 DEF ClearErr, SweepErr, ShutdownCleared, books
    <2>2. lastClear' \in {"ok", "failed"} /\ net' \in Ops \cup {NoOp}
      BY <1>7 DEF ClearErr, SweepErr, ShutdownCleared, TypeOK
    <2>3. QED
      BY <2>1, <2>2, Zenon DEF TypeOK, DataOK
  <1>8. CASE SweepOK
    <2>1. alarms' \in Nat
      BY <1>8 DEF SweepOK, TypeOK
    <2>2. /\ UNCHANGED <<now, applied, crossed, onOwn, signal>>
          /\ healed' \in BOOLEAN /\ lastClear' \in {"ok", "failed"} /\ net' \in Ops \cup {NoOp}
      BY <1>8, Zenon DEF SweepOK
    <2>3. QED
      BY <2>1, <2>2, Zenon DEF TypeOK, DataOK
  <1>9. CASE Tick
    <2>1. now' \in Int
      BY <1>9, BoundsAssumption DEF Tick, TypeOK
    <2>2. UNCHANGED <<applied, healed, crossed, alarms, signal, lastClear, net, onOwn>>
      BY <1>9 DEF Tick, books
    <2>3. QED
      BY <2>1, <2>2, Zenon DEF TypeOK, DataOK
  <1>10. CASE CrossFork
    <2>1. net \in Ops
      BY <1>10 DEF CrossFork, TypeOK
    <2>2. onOwn' \subseteq Islands
      BY <1>10, <2>1, VictimsAreIslands DEF CrossFork, TypeOK
    <2>3. UNCHANGED <<now, applied, healed, crossed, alarms, signal, lastClear, net>>
      BY <1>10 DEF CrossFork, books
    <2>4. QED
      BY <2>2, <2>3, Zenon DEF TypeOK, DataOK
  <1>11. CASE Shutdown \/ ShutdownQuiet \/ StopReleased \/ Signal
    <2>1. /\ UNCHANGED <<now, applied, healed, crossed, alarms, lastClear, net, onOwn>>
          /\ signal' = FALSE \/ signal' = TRUE
      BY <1>11 DEF Shutdown, ShutdownQuiet, StopReleased, Signal, books
    <2>2. QED
      BY <1>2, <2>1, Zenon
  <1>12. CASE \/ Boot \/ DeployWaitEnds \/ Deployed \/ SkipStale \/ StartWaitEnds
              \/ WriteWaitEnds \/ Written \/ SkipUnapplied \/ EndWaitEnds \/ HoldSleepEnds
              \/ Repeered \/ SweepWaitEnds \/ Release
    <2>1. Same
      BY <1>12
         DEF Boot, DeployWaitEnds, Deployed, SkipStale, StartWaitEnds, WriteWaitEnds, Written,
             SkipUnapplied, EndWaitEnds, HoldSleepEnds, Repeered, SweepWaitEnds, Release, books
    <2>2. QED
      BY <1>1, <2>1
  <1>13. CASE Exited \/ UNCHANGED vars
    <2>1. Same
      BY <1>13 DEF Exited, vars
    <2>2. QED
      BY <1>1, <2>1
  <1>14. QED
    <2> HIDE DEF Same
    <2> QED
    BY <1>3, <1>4, <1>5, <1>6, <1>7, <1>8, <1>9, <1>10, <1>11, <1>12, <1>13
       DEF Next, DriverStep

LEMMA TypeStep == TypeOK /\ PcMatchesAction /\ [Next]_vars => TypeOK' /\ PcMatchesAction'
  <1> SUFFICES ASSUME TypeOK, PcMatchesAction, [Next]_vars
               PROVE  TypeOK' /\ PcMatchesAction'
    OBVIOUS
  <1>1. DataOK'
    BY DataStep
  <1>2. Control'
    <2>1. CASE Next
      BY <2>1, ControlStep
    <2>2. CASE UNCHANGED vars
      BY <2>2 DEF vars, Control, TypeOK, PcMatchesAction
    <2>3. QED
      BY <2>1, <2>2
  <1>3. QED
    BY <1>1, <1>2, Zenon DEF TypeOK, DataOK, Control

(* No handler leaves its variables outside their types, and pc never gets  *)
(* out of step with the action list: for every schedule, clock and pattern *)
(* of failing calls (execute). *)
THEOREM TypeCorrect == Spec => []TypeOK
  <1>1. Init => TypeOK /\ PcMatchesAction
    BY InitInv DEF IInv
  <1>2. QED
    BY <1>1, TypeStep, PTL DEF Spec

-----------------------------------------------------------------------------
(* Every step is one of the seven that touch disruptoor, an advance in the *)
(* action list, or a step that stays at its action; only the first kind    *)
(* changes what is applied or what is recorded about it. *)
Advance ==
    /\ pc \in {"startWait", "writing", "endWait", "repeering"}
    /\ pc = "endWait" => Op \notin applied
    /\ Begin(k + 1)
    /\ UNCHANGED <<net, applied, healed, lastClear, alarms>>

Stay ==
    /\ k' = k
    /\ pc \in {"writeWait", "writing"} => pc' \in {"writeWait", "writing"} \cup Gone
    /\ pc \in EndSteps   => pc' \in EndSteps \cup Gone
    /\ pc \in SweepSteps => pc' \in SweepSteps \cup {"shutdownClear"}
    /\ pc \in Gone => pc' = pc
    /\ pc' = "stopped" => pc \in {"stopped", "quietWait", "released"}
    /\ pc' = "boot" => pc = "boot"
    /\ UNCHANGED <<net, applied, healed, lastClear, alarms>>

LEMMA StepShape ==
    ASSUME TypeOK, PcMatchesAction, [Next]_vars
    PROVE  \/ Advance \/ Stay
           \/ PartitionOK \/ PartitionErr \/ ClearOK \/ ClearErr
           \/ SweepOK \/ SweepErr \/ ShutdownCleared
  <1>1. CASE SkipStale \/ Written \/ SkipUnapplied \/ Repeered
    BY <1>1 DEF SkipStale, Written, SkipUnapplied, Repeered, Advance, books
  <1>2. CASE Boot
    <2>1. Begin(1) /\ k = 1
      BY <1>2 DEF Boot, PcMatchesAction
    <2>2. k' = k /\ pc' \in BeginSteps
      BY <2>1, ActsFacts, BeginFacts DEF TypeOK
    <2>3. QED
      BY <1>2, <2>2
         DEF Boot, Stay, books, BeginSteps, EndSteps, SweepSteps, Gone
  <1>3. CASE \/ DeployWaitEnds \/ StartWaitEnds \/ WriteWaitEnds \/ HoldSleepEnds
             \/ SweepWaitEnds \/ Shutdown
    BY <1>3
       DEF DeployWaitEnds, StartWaitEnds, WriteWaitEnds, HoldSleepEnds, SweepWaitEnds, Shutdown,
           Call, Stay, books, EndSteps, SweepSteps, Gone, Waits
  <1>4. CASE Deployed
    BY <1>4 DEF Deployed, WaitFor, Stay, books, EndSteps, SweepSteps, Gone
  <1>5. CASE EndWaitEnds
    BY <1>5 DEF EndWaitEnds, Call, Stay, books, EndSteps, SweepSteps, Gone
  <1>6. CASE Probe
    BY <1>6 DEF Probe, Call, WaitFor, Stay, EndSteps, SweepSteps, Gone
  <1>7. CASE \/ ShutdownQuiet \/ Release \/ StopReleased \/ Exited \/ Tick \/ Signal
             \/ CrossFork \/ UNCHANGED vars
    BY <1>7
       DEF ShutdownQuiet, Release, StopReleased, Exited, Tick, Signal, CrossFork,
           Stay, vars, books, EndSteps, SweepSteps, Gone
  <1>8. QED
    BY <1>1, <1>2, <1>3, <1>4, <1>5, <1>6, <1>7 DEF Next, DriverStep

(* Where Begin(k + 1) lands after an action of each kind. *)
LEMMA AfterStart ==
    ASSUME TypeOK, PcMatchesAction, pc \in StartSteps
    PROVE  /\ k + 1 < Len(Acts) /\ k + 1 \in 1..Len(Acts)
           /\ Acts[k+1].op = Op
           /\ Begin(k + 1) => k' = k + 1 /\ pc' = "endWait"
  <1>1. k \in 1..Len(Acts) /\ Acts[k].kind = KindStart
    BY DEF PcMatchesAction
  <1>2. k + 1 \in 1..Len(Acts) /\ Acts[k+1].kind = KindEnd /\ Acts[k+1].op = Acts[k].op
    BY <1>1, SerialFacts
  <1>3. k + 1 # Len(Acts)
    BY <1>2, SerialFacts DEF KindEnd, KindSweep
  <1>4. Begin(k + 1) => k' = k + 1 /\ pc' = "endWait"
    <2>1. k + 1 \in 1..(Len(Acts) + 1) /\ now \in Int
      BY <1>2, ActsFacts DEF TypeOK
    <2>2. QED
      BY <1>2, <2>1, BeginFacts
  <1>5. QED
    BY <1>1, <1>2, <1>3, <1>4, ActsFacts DEF Op

LEMMA AfterAny ==
    ASSUME TypeOK, k \in 1..Len(Acts), Begin(k + 1)
    PROVE  k' = k + 1 /\ pc' \in BeginSteps /\ (k + 1 = Len(Acts) => pc' = "sweepWait")
  <1>1. k + 1 \in 1..(Len(Acts) + 1) /\ now \in Int
    BY ActsFacts DEF TypeOK
  <1>2. k + 1 = Len(Acts) => k + 1 \in 1..Len(Acts) /\ Acts[k+1].kind = KindSweep
    BY ActsFacts, SerialFacts
  <1>3. QED
    BY <1>1, <1>2, BeginFacts

LEMMA BehindStep == IInv /\ [Next]_vars => AppliedIsBehind'
  <1> SUFFICES ASSUME IInv, [Next]_vars, NEW o \in applied'
               PROVE  \E j \in 1..Len(Acts) :
                         /\ Acts[j].kind = KindStart /\ Acts[j].op = o
                         /\ j < k' \/ (j = k' /\ pc' \in {"writeWait", "writing"} \cup Gone)
    BY DEF AppliedIsBehind
  <1>0. TypeOK /\ PcMatchesAction /\ AppliedIsBehind /\ k \in Int
    BY ActsFacts DEF IInv, TypeOK
  <1>1. CASE o \in applied
    <2>1. PICK j \in 1..Len(Acts) :
             /\ Acts[j].kind = KindStart /\ Acts[j].op = o
             /\ j < k \/ (j = k /\ pc \in {"writeWait", "writing"} \cup Gone)
      BY <1>0, <1>1 DEF AppliedIsBehind
    <2>2. \/ k' = k + 1
          \/ k' = k /\ (pc \in {"writeWait", "writing"} \cup Gone
                          => pc' \in {"writeWait", "writing"} \cup Gone)
      <3>1. CASE Advance \/ PartitionErr \/ ClearErr
        BY <3>1 DEF Advance, PartitionErr, ClearErr, Begin
      <3>2. CASE Stay
        BY <3>2 DEF Stay, Gone
      <3>3. CASE PartitionOK
        BY <3>3 DEF PartitionOK, Begin, Gone
      <3>4. CASE ClearOK \/ SweepOK \/ SweepErr \/ ShutdownCleared
        BY <3>4 DEF ClearOK, SweepOK, SweepErr, ShutdownCleared, Gone
      <3>5. QED
        BY <1>0, <3>1, <3>2, <3>3, <3>4, StepShape
    <2>3. QED
      BY <1>0, <2>1, <2>2
  <1>2. CASE o \notin applied
    <2>1. PartitionOK /\ o = Op
      <3>1. CASE Advance \/ Stay
        BY <1>2, <3>1 DEF Advance, Stay
      <3>2. CASE PartitionErr \/ ClearOK \/ ClearErr \/ SweepOK \/ SweepErr \/ ShutdownCleared
        BY <1>2, <3>2
           DEF PartitionErr, ClearOK, ClearErr, SweepOK, SweepErr, ShutdownCleared, books
      <3>3. CASE PartitionOK
        BY <1>2, <3>3 DEF PartitionOK
      <3>4. QED
        BY <1>0, <3>1, <3>2, <3>3, StepShape
    <2>2. k \in 1..Len(Acts) /\ Acts[k].kind = KindStart /\ Acts[k].op = o
      BY <1>0, <2>1 DEF PartitionOK, PcMatchesAction, StartSteps, Op
    <2>3. k' = k + 1 \/ (k' = k /\ pc' = "writeWait")
      BY <2>1 DEF PartitionOK, Begin, WaitFor
    <2>4. QED
      BY <1>0, <2>2, <2>3
  <1>3. QED
    BY <1>1, <1>2

(* The crux: a PUT whose answer was lost cannot land on an op disruptoor   *)
(* accepted before, because an op's start is walked over once. *)
LEMMA StartIsNotApplied ==
    ASSUME IInv, pc = "partitioning"
    PROVE  Op \notin applied
  <1>1. SUFFICES ASSUME Op \in applied PROVE FALSE
    OBVIOUS
  <1>2. k \in 1..Len(Acts) /\ Acts[k].kind = KindStart
    BY DEF IInv, PcMatchesAction, StartSteps
  <1>3. PICK j \in 1..Len(Acts) :
           /\ Acts[j].kind = KindStart /\ Acts[j].op = Op
           /\ j < k \/ (j = k /\ pc \in {"writeWait", "writing"} \cup Gone)
    BY <1>1 DEF IInv, AppliedIsBehind
  <1>4. j = k
    BY <1>2, <1>3, SerialFacts DEF Op
  <1>5. QED
    BY <1>2, <1>3, <1>4, ActsFacts DEF Gone

LEMMA OverstayStep == IInv /\ [Next]_vars => OverstayIsKnown'
  <1> SUFFICES ASSUME IInv, [Next]_vars, net' \in applied' PROVE ~healed'
    BY DEF OverstayIsKnown
  <1>0. TypeOK /\ PcMatchesAction /\ (net \in applied => ~healed) /\ NoOp \notin applied
    BY ScheduleAssumption DEF IInv, TypeOK, OverstayIsKnown
  <1>1. CASE Advance \/ Stay
    BY <1>0, <1>1 DEF Advance, Stay
  <1>2. CASE PartitionOK
    BY <1>2 DEF PartitionOK
  <1>3. CASE PartitionErr
    <2>1. net' = net /\ applied' = applied /\ healed' = healed
      BY <1>3, StartIsNotApplied DEF PartitionErr
    <2>2. QED
      BY <1>0, <2>1
  <1>4. CASE ClearOK \/ SweepOK
    BY <1>0, <1>4 DEF ClearOK, SweepOK
  <1>5. CASE ClearErr \/ SweepErr \/ ShutdownCleared
    <2>1. (net' = NoOp \/ net' = net) /\ applied' = applied /\ healed' = healed
      BY <1>5 DEF ClearErr, SweepErr, ShutdownCleared, books
    <2>2. QED
      BY <1>0, <2>1
  <1>6. QED
    BY <1>0, <1>1, <1>2, <1>3, <1>4, <1>5, StepShape

LEMMA OpenStep == IInv /\ [Next]_vars => OutstandingIsOpen'
  <1> SUFFICES ASSUME IInv, [Next]_vars, ~healed', lastClear' = "ok"
               PROVE  \/ pc' \in {"writeWait", "writing"} /\ Acts[k'].op \in applied'
                      \/ pc' \in EndSteps /\ Acts[k'].op \in applied'
                      \/ pc' \in Gone
    BY DEF OutstandingIsOpen
  <1>0. TypeOK /\ PcMatchesAction
    BY DEF IInv
  <1>a. ~healed /\ lastClear = "ok" =>
           \/ pc \in {"writeWait", "writing"} /\ Op \in applied
           \/ pc \in EndSteps /\ Op \in applied
           \/ pc \in Gone
    BY DEF IInv, OutstandingIsOpen, Op
  <1>1. CASE Advance
    <2>1. pc = "writing" /\ Op \in applied
      BY <1>1, <1>a DEF Advance, EndSteps, Gone
    <2>2. k' = k + 1 /\ pc' = "endWait" /\ Acts[k + 1].op = Op
      BY <1>0, <1>1, <2>1, AfterStart DEF Advance, StartSteps
    <2>3. QED
      BY <1>1, <2>1, <2>2 DEF Advance, EndSteps
  <1>2. CASE Stay
    BY <1>2, <1>a DEF Stay, Op, EndSteps, Gone
  <1>3. CASE PartitionOK
    <2>1. CASE k' = k /\ pc' = "writeWait"
      BY <1>3, <2>1 DEF PartitionOK, Op
    <2>2. CASE Begin(k + 1)
      <3>1. k' = k + 1 /\ pc' = "endWait" /\ Acts[k + 1].op = Op
        BY <1>0, <1>3, <2>2, AfterStart DEF PartitionOK, StartSteps
      <3>2. QED
        BY <1>3, <3>1 DEF PartitionOK, EndSteps
    <2>3. QED
      BY <1>3, <2>1, <2>2 DEF PartitionOK, WaitFor
  <1>4. CASE PartitionErr
    BY <1>4, <1>a DEF PartitionErr, EndSteps, Gone
  <1>5. CASE ClearOK \/ SweepOK
    BY <1>5 DEF ClearOK, SweepOK
  <1>6. CASE ClearErr \/ SweepErr
    BY <1>6 DEF ClearErr, SweepErr
  <1>7. CASE ShutdownCleared
    BY <1>7 DEF ShutdownCleared, Gone
  <1>8. QED
    BY <1>0, <1>1, <1>2, <1>3, <1>4, <1>5, <1>6, <1>7, StepShape

LEMMA SweepAheadStep == IInv /\ [Next]_vars => SweepAhead'
  <1> SUFFICES ASSUME IInv, [Next]_vars, net' # NoOp, lastClear' = "ok"
               PROVE  \/ k' < Len(Acts)
                      \/ k' = Len(Acts) /\ pc' \in SweepSteps
                      \/ pc' = "shutdownClear"
    BY DEF SweepAhead
  <1>0. TypeOK /\ PcMatchesAction /\ k \in Int /\ Len(Acts) \in Nat
    BY ActsFacts DEF IInv, TypeOK
  <1>a. net # NoOp /\ lastClear = "ok" =>
           \/ k < Len(Acts)
           \/ k = Len(Acts) /\ pc \in SweepSteps
           \/ pc = "shutdownClear"
    BY DEF IInv, SweepAhead
  <1>1. CASE Advance
    <2>1. k < Len(Acts) /\ k \in 1..Len(Acts)
      BY <1>0, <1>1, <1>a DEF Advance, SweepSteps, TypeOK
    <2>2. k' = k + 1 /\ (k + 1 = Len(Acts) => pc' = "sweepWait")
      BY <1>0, <1>1, <2>1, AfterAny DEF Advance
    <2>3. QED
      BY <1>0, <2>1, <2>2 DEF SweepSteps
  <1>2. CASE Stay
    BY <1>2, <1>a DEF Stay, SweepSteps, Gone
  <1>3. CASE PartitionOK \/ PartitionErr
    <2>1. k + 1 < Len(Acts) /\ (k' = k + 1 \/ k' = k)
      BY <1>0, <1>3, AfterStart DEF PartitionOK, PartitionErr, StartSteps, Begin
    <2>2. QED
      BY <1>0, <2>1
  <1>4. CASE ClearOK \/ SweepOK
    BY <1>4 DEF ClearOK, SweepOK
  <1>5. CASE ClearErr \/ SweepErr
    BY <1>5 DEF ClearErr, SweepErr
  <1>6. CASE ShutdownCleared
    BY <1>6 DEF ShutdownCleared
  <1>7. QED
    BY <1>0, <1>1, <1>2, <1>3, <1>4, <1>5, <1>6, StepShape

(* A driver that is done has no partition without a failed Clear: its last *)
(* action was a sweep. *)
LEMMA DoneIsWhole ==
    ASSUME IInv, pc \in {"quietWait", "released"}
    PROVE  net = NoOp \/ lastClear = "failed"
  BY ActsFacts DEF IInv, SweepAhead, PcMatchesAction, TypeOK, SweepSteps

LEMMA StoppedStep == IInv /\ [Next]_vars => (pc = "stopped" => EndsWhole)'
  <1> SUFFICES ASSUME IInv, [Next]_vars, pc' = "stopped"
               PROVE  net' = NoOp \/ lastClear' = "failed"
    BY DEF EndsWhole
  <1>0. TypeOK /\ PcMatchesAction
    BY DEF IInv
  <1>1. CASE Advance
    <2>1. k \in 1..Len(Acts)
      BY <1>0, <1>1 DEF Advance, PcMatchesAction, StartSteps, EndSteps
    <2>2. QED
      BY <1>0, <1>1, <2>1, AfterAny DEF Advance, BeginSteps
  <1>2. CASE Stay
    <2>1. pc \in {"stopped", "quietWait", "released"}
      BY <1>2 DEF Stay
    <2>2. net = NoOp \/ lastClear = "failed"
      BY <2>1, DoneIsWhole DEF IInv, EndsWhole, Terminal
    <2>3. QED
      BY <1>2, <2>2 DEF Stay
  <1>3. CASE PartitionOK \/ PartitionErr
    BY <1>0, <1>3, AfterStart DEF PartitionOK, PartitionErr, StartSteps, WaitFor
  <1>4. CASE ClearOK \/ SweepOK \/ SweepErr \/ ClearErr \/ ShutdownCleared
    BY <1>4 DEF ClearOK, SweepOK, SweepErr, ClearErr, ShutdownCleared
  <1>5. QED
    BY <1>0, <1>1, <1>2, <1>3, <1>4, StepShape

LEMMA BootStep == IInv /\ [Next]_vars => BootIsFresh'
  <1> SUFFICES ASSUME IInv, [Next]_vars, pc' = "boot" PROVE net' = NoOp
    BY DEF BootIsFresh
  <1>0. TypeOK /\ PcMatchesAction
    BY DEF IInv
  <1>1. CASE Advance
    <2>1. k \in 1..Len(Acts)
      BY <1>0, <1>1 DEF Advance, PcMatchesAction, StartSteps, EndSteps
    <2>2. QED
      BY <1>0, <1>1, <2>1, AfterAny DEF Advance, BeginSteps
  <1>2. CASE Stay
    BY <1>2 DEF Stay, IInv, BootIsFresh
  <1>3. CASE PartitionOK \/ PartitionErr
    BY <1>0, <1>3, AfterStart DEF PartitionOK, PartitionErr, StartSteps, WaitFor
  <1>4. CASE ClearErr
    <2>1. k \in 1..Len(Acts)
      BY <1>0, <1>4 DEF ClearErr, PcMatchesAction, EndSteps
    <2>2. QED
      BY <1>0, <1>4, <2>1, AfterAny DEF ClearErr, BeginSteps
  <1>5. CASE ClearOK \/ SweepOK \/ SweepErr \/ ShutdownCleared
    BY <1>5 DEF ClearOK, SweepOK, SweepErr, ShutdownCleared, Call
  <1>6. QED
    BY <1>0, <1>1, <1>2, <1>3, <1>4, <1>5, StepShape

LEMMA InvStep == IInv /\ [Next]_vars => IInv'
  BY TypeStep, BootStep, BehindStep, OverstayStep, OpenStep, SweepAheadStep, StoppedStep
     DEF IInv

LEMMA Inductive == Spec => []IInv
  BY InitInv, InvStep, PTL DEF Spec

-----------------------------------------------------------------------------
(* While an accepted partition is applied, execute's "healed" is FALSE,    *)
(* whatever calls failed, answers were lost or windows were skipped. *)
THEOREM OverstayKnown == Spec => []OverstayIsKnown
  <1>1. IInv => OverstayIsKnown
    BY DEF IInv
  <1>2. QED
    BY <1>1, Inductive, PTL

(* A driver that released disruptoor or exited leaves no partition unless  *)
(* its last Clear failed: the action list always ends in a sweep. *)
THEOREM DriverEndsWhole == Spec => []EndsWhole
  <1>1. IInv => EndsWhole
    BY DoneIsWhole DEF IInv, EndsWhole, Terminal
  <1>2. QED
    BY <1>1, Inductive, PTL

(* A sweep that clears an accepted partition raises CRITICAL: no partition *)
(* outlives its heal in silence (execute's Sweep branch). *)
THEOREM SweepAlarms == Spec => SweepAlarmsOnOverstay
  <1>1. IInv /\ [Next]_vars =>
           [pc = "sweeping" /\ net \in applied /\ net' = NoOp /\ lastClear' = "ok"
              => alarms' = alarms + 1]_vars
    <2> SUFFICES ASSUME IInv, [Next]_vars,
                        pc = "sweeping", net \in applied, net' = NoOp, lastClear' = "ok"
                 PROVE  alarms' = alarms + 1
      OBVIOUS
    <2>1. ~healed /\ net # NoOp
      BY ScheduleAssumption DEF IInv, OverstayIsKnown, TypeOK
    <2>2. SweepOK
      <3>1. TypeOK /\ PcMatchesAction
        BY DEF IInv
      <3>2. ~(Advance \/ Stay)
        BY <2>1 DEF Advance, Stay
      <3>3. ~(PartitionOK \/ PartitionErr \/ ClearOK \/ ClearErr \/ SweepErr \/ ShutdownCleared)
        BY DEF PartitionOK, PartitionErr, ClearOK, ClearErr, SweepErr, ShutdownCleared
      <3>4. QED
        BY <3>1, <3>2, <3>3, StepShape
    <2>3. QED
      BY <2>1, <2>2 DEF SweepOK
  <1>2. QED
    BY <1>1, Inductive, PTL DEF Spec, SweepAlarmsOnOverstay

(* The alarm is never false: a sweep finds a heal outstanding only after a *)
(* Clear failed and nothing healed since (execute's "healed"). *)
THEOREM AlarmsEarned == Spec => AlarmsAreEarned
  <1>1. IInv /\ [Next]_vars => [alarms' > alarms => lastClear = "failed"]_vars
    <2> SUFFICES ASSUME IInv, [Next]_vars, alarms' > alarms PROVE lastClear = "failed"
      OBVIOUS
    <2>0. TypeOK /\ PcMatchesAction
      BY DEF IInv
    <2>1. SweepOK /\ ~healed
      <3>1. alarms' # alarms
        BY <2>0 DEF TypeOK
      <3>2. ~(Advance \/ Stay)
        BY <3>1 DEF Advance, Stay
      <3>3. ~(PartitionOK \/ PartitionErr \/ ClearOK \/ ClearErr \/ SweepErr \/ ShutdownCleared)
        BY <3>1
           DEF PartitionOK, PartitionErr, ClearOK, ClearErr, SweepErr, ShutdownCleared, books
      <3>4. QED
        BY <2>0, <3>1, <3>2, <3>3, StepShape DEF SweepOK
    <2>2. ~(pc \in {"writeWait", "writing"} \cup EndSteps \cup Gone)
      BY <2>1 DEF SweepOK, EndSteps, Gone
    <2>3. lastClear # "ok"
      BY <2>1, <2>2 DEF IInv, OutstandingIsOpen
    <2>4. QED
      BY <2>0, <2>3 DEF TypeOK
  <1>2. QED
    BY <1>1, Inductive, PTL DEF Spec, AlarmsAreEarned

-----------------------------------------------------------------------------
(* A victim is recorded as across only when it answered so. *)
CrossedIsTrue == crossed \subseteq onOwn

LEMMA CrossedStep == TypeOK /\ PcMatchesAction /\ CrossedIsTrue /\ [Next]_vars => CrossedIsTrue'
  <1> SUFFICES ASSUME TypeOK, PcMatchesAction, crossed \subseteq onOwn, [Next]_vars
               PROVE  crossed' \subseteq onOwn'
    BY DEF CrossedIsTrue
  <1>1. CASE Probe
    BY <1>1 DEF Probe
  <1>2. CASE CrossFork
    BY <1>2 DEF CrossFork, books
  <1>3. CASE Next /\ ~Probe /\ ~CrossFork
    <2>1. crossed' = crossed /\ onOwn' = onOwn
      BY <1>3, Zenon
         DEF Next, DriverStep, Boot, DeployWaitEnds, Deployed, SkipStale, StartWaitEnds,
             PartitionOK, PartitionErr, WriteWaitEnds, Written, SkipUnapplied, EndWaitEnds,
             HoldSleepEnds, ClearOK, ClearErr, Repeered, SweepWaitEnds, SweepOK, SweepErr,
             Shutdown, ShutdownCleared, ShutdownQuiet, Release, StopReleased, Exited, Tick,
             Signal, books, vars
    <2> QED
      BY <2>1
  <1>4. CASE UNCHANGED vars
    BY <1>4 DEF vars
  <1> QED
    BY <1>1, <1>2, <1>3, <1>4

(* A straddle is healed before HoldUntil only when every victim really     *)
(* minted past the fork on its own branch: a probe that failed never       *)
(* counts as one that did (holdStraddle). *)
THEOREM EarlyHealsAreEarned == Spec => EarlyHealMeansAllCrossed
  <1>1. TypeOK /\ PcMatchesAction /\ CrossedIsTrue /\ [Next]_vars =>
          [pc = "probing" /\ pc' = "clearing" /\ now < OpInfo[Op].hold
             => Victims(Op) \subseteq onOwn]_vars
    <2> SUFFICES ASSUME TypeOK, PcMatchesAction, crossed \subseteq onOwn, [Next]_vars,
                        pc = "probing", pc' = "clearing", now < OpInfo[Op].hold
                 PROVE  Victims(Op) \subseteq onOwn
      BY DEF CrossedIsTrue
    <2>1. Probe
      BY DEF Next, DriverStep, Boot, DeployWaitEnds, Deployed, SkipStale, StartWaitEnds,
             PartitionOK, PartitionErr, WriteWaitEnds, Written, SkipUnapplied, EndWaitEnds,
             HoldSleepEnds, ClearOK, ClearErr, Repeered, SweepWaitEnds, SweepOK, SweepErr,
             Shutdown, ShutdownCleared, ShutdownQuiet, Release, StopReleased, Exited, Tick,
             Signal, CrossFork, vars, books, Waits
    <2>2. /\ crossed' \subseteq onOwn
          /\ Victims(Op) \subseteq crossed' \/ now >= OpInfo[Op].hold
      BY <2>1 DEF Probe, holdOver, WaitFor
    <2>3. now \in Int /\ OpInfo[Op].hold \in Int
      BY OpIsAnOp, ScheduleAssumption DEF EndSteps, TypeOK, Ops
    <2> QED
      BY <2>2, <2>3
  <1>2. Init => TypeOK /\ PcMatchesAction /\ CrossedIsTrue
    BY InitInv DEF IInv, Init, CrossedIsTrue
  <1> QED
    BY <1>1, <1>2, TypeStep, CrossedStep, PTL DEF Spec, EarlyHealMeansAllCrossed

-----------------------------------------------------------------------------
(* On a paced schedule no step ends later than the action's own bounds.    *)

LEMMA Durations ==
    /\ Slack \in Nat /\ SlotSeconds \in Nat /\ Quiet \in Int /\ Fork \in Int
    /\ TickLen \in Nat /\ TickLen > 0 /\ Injector \in BOOLEAN
    /\ HealLag \in Int /\ StartLag \in Int
BY BoundsAssumption, ScheduleAssumption
   DEF HealLag, StartLag, CallTimeout, ProbeTimeout

(* The bounds of an action's steps, in the order of the steps. *)
LEMMA WakeBounds ==
    \A t, u \in Int : /\ WakeBy(t, u) \in Int /\ u <= WakeBy(t, u) /\ t + Slack <= WakeBy(t, u)
                      /\ WakeBy(t, u) = (IF t > u THEN t ELSE u) + Slack
BY Durations DEF WakeBy, Later

LEMMA InjectingBounds ==
    ASSUME NEW a, a.at \in Int, a.kind = KindStart, Injects(a), NEW u \in Int
    PROVE  /\ {WakeBy(a.at - DeployLead, u), DeployedBy(a, u), OpenBy(a, u), AppliedBy(a, u),
               WriteBy(a, u), OverBy(a, u)} \subseteq Int
           /\ DeployedBy(a, u) = WakeBy(a.at - DeployLead, u) + DeployTimeout + Slack
           /\ OpenBy(a, u) = WakeBy(a.at, DeployedBy(a, u))
           /\ AppliedBy(a, u) = OpenBy(a, u) + CallTimeout + Slack
           /\ WriteBy(a, u) = WakeBy(a.at + WriteDelay, AppliedBy(a, u))
           /\ AppliedBy(a, u) <= WriteBy(a, u)
           /\ OverBy(a, u) = WriteBy(a, u) + WriteTimeout + Slack
<1>1. /\ DeployedBy(a, u) \in Int /\ WakeBy(a.at - DeployLead, u) \in Int
      /\ DeployedBy(a, u) = WakeBy(a.at - DeployLead, u) + DeployTimeout + Slack
  <2>1. a.at - DeployLead \in Int
    BY DEF DeployLead
  <2>2. WakeBy(a.at - DeployLead, u) \in Int
    BY <2>1, WakeBounds
  <2> QED
    BY <2>2, Durations DEF DeployedBy, DeployTimeout
<1>2. OpenBy(a, u) = WakeBy(a.at, DeployedBy(a, u)) /\ OpenBy(a, u) \in Int
  BY <1>1, WakeBounds DEF OpenBy
<1>3. AppliedBy(a, u) = OpenBy(a, u) + CallTimeout + Slack /\ AppliedBy(a, u) \in Int
  BY <1>2, Durations DEF AppliedBy, CallTimeout
<1>4. /\ WriteBy(a, u) = WakeBy(a.at + WriteDelay, AppliedBy(a, u))
      /\ WriteBy(a, u) \in Int /\ AppliedBy(a, u) <= WriteBy(a, u)
  <2>1. a.at + WriteDelay \in Int
    BY DEF WriteDelay
  <2> QED
    BY <1>3, <2>1, WakeBounds DEF WriteBy
<1>5. OverBy(a, u) = WriteBy(a, u) + WriteTimeout + Slack /\ OverBy(a, u) \in Int
  BY <1>4, Durations DEF OverBy, WriteTimeout
<1> QED
  BY <1>1, <1>2, <1>3, <1>4, <1>5

LEMMA PlainBounds ==
    ASSUME NEW a, a.at \in Int, a.kind = KindStart, ~Injects(a), NEW u \in Int
    PROVE  /\ {OpenBy(a, u), AppliedBy(a, u), OverBy(a, u)} \subseteq Int
           /\ OpenBy(a, u) = WakeBy(a.at, u)
           /\ AppliedBy(a, u) = OpenBy(a, u) + CallTimeout + Slack
           /\ OverBy(a, u) = AppliedBy(a, u)
<1>1. OpenBy(a, u) = WakeBy(a.at, u) /\ OpenBy(a, u) \in Int
  BY WakeBounds DEF OpenBy
<1>2. AppliedBy(a, u) = OpenBy(a, u) + CallTimeout + Slack /\ AppliedBy(a, u) \in Int
  BY <1>1, Durations DEF AppliedBy, CallTimeout
<1> QED
  BY <1>1, <1>2 DEF OverBy

LEMMA HealBounds ==
    ASSUME NEW a, a.at \in Int, a.kind # KindStart, NEW u \in Int,
           a.kind = KindEnd => a.op \in Ops
    PROVE  /\ {WakeBy(a.at, u), HealedBy(a, u), OverBy(a, u)} \subseteq Int
           /\ WakeBy(a.at, u) + CallTimeout + Slack <= HealedBy(a, u)
           /\ OverBy(a, u) = HealedBy(a, u) + RepeerTimeout + Slack
           /\ a.kind = KindEnd /\ Straddle(a.op) =>
                /\ HeldBy(a, u) \in Int /\ WakeBy(a.at, u) <= HeldBy(a, u)
                /\ OpInfo[a.op].hold - 1 + SlotSeconds + Slack <= HeldBy(a, u)
                /\ HealedBy(a, u) = HeldBy(a, u) + ProbeTimeout + Slack + CallTimeout + Slack
<1>1. WakeBy(a.at, u) \in Int
  BY WakeBounds
<1>2. CASE a.kind = KindEnd /\ Straddle(a.op)
  <2>1. OpInfo[a.op].hold \in Int
    BY <1>2, ScheduleAssumption
  <2>2. /\ HeldBy(a, u) \in Int /\ WakeBy(a.at, u) <= HeldBy(a, u)
        /\ OpInfo[a.op].hold - 1 + SlotSeconds + Slack <= HeldBy(a, u)
    BY <1>1, <2>1, Durations DEF HeldBy, Later
  <2>3. /\ HealedBy(a, u) = HeldBy(a, u) + ProbeTimeout + Slack + CallTimeout + Slack
        /\ HealedBy(a, u) \in Int
    BY <1>2, <2>2, Durations DEF HealedBy, CallTimeout, ProbeTimeout
  <2>4. OverBy(a, u) = HealedBy(a, u) + RepeerTimeout + Slack /\ OverBy(a, u) \in Int
    BY <2>3, Durations DEF OverBy, RepeerTimeout
  <2> QED
    BY <1>1, <2>2, <2>3, <2>4, Durations DEF ProbeTimeout, CallTimeout
<1>3. CASE ~(a.kind = KindEnd /\ Straddle(a.op))
  <2>1. HealedBy(a, u) = WakeBy(a.at, u) + CallTimeout + Slack /\ HealedBy(a, u) \in Int
    BY <1>1, <1>3, Durations DEF HealedBy, CallTimeout
  <2>2. OverBy(a, u) = HealedBy(a, u) + RepeerTimeout + Slack /\ OverBy(a, u) \in Int
    BY <2>1, Durations DEF OverBy, RepeerTimeout
  <2> QED
    BY <1>1, <1>3, <2>1, <2>2, Durations DEF CallTimeout
<1> QED
  BY <1>2, <1>3

(* Each step ends by its bound; an op's start is not early, and its PUT is *)
(* sent inside the window. *)
OnPace(reached) ==
    LET a == Acts[k]
        u == reached[k]
    IN  /\ now <= due
        /\ pc = "boot"         => due <= reached[1]
        /\ pc = "deployWait"   => Injects(a) /\ due <= WakeBy(a.at - DeployLead, u)
        /\ pc = "deploying"    => Injects(a) /\ due <= DeployedBy(a, u)
        /\ pc = "startWait"    => due <= OpenBy(a, u) /\ a.at + Slack <= due
        /\ pc = "partitioning" => /\ due <= AppliedBy(a, u) /\ a.at <= now
                                  /\ due < OpInfo[a.op].end + CallTimeout + Slack
        /\ pc = "writeWait"    => Injects(a) /\ due <= WriteBy(a, u)
        /\ pc = "writing"      => due <= OverBy(a, u)
        /\ pc \in {"endWait", "sweepWait"} => due <= WakeBy(a.at, u)
        /\ pc = "holdSleep"    => Straddle(a.op) /\ due <= HeldBy(a, u)
        /\ pc = "probing"      => Straddle(a.op) /\ due <= HeldBy(a, u) + ProbeTimeout + Slack
        /\ pc \in {"clearing", "sweeping"} => due <= HealedBy(a, u)
        /\ pc = "repeering"    => due <= OverBy(a, u)
        /\ pc = "shutdownClear" => due <= Quiet

(* What a paced schedule leaves every action: its heal in time, and all of *)
(* it before Quiet. *)
LEMMA PacedFacts ==
    ASSUME NEW reached, Paced(reached), NEW i \in 1..Len(Acts)
    PROVE  LET a == Acts[i]
               u == reached[i]
           IN  /\ u \in Int /\ reached[i+1] \in Int
               /\ a.at \in Int /\ (a.kind # KindSweep => a.op \in Ops)
               /\ OverBy(a, u) \in Int /\ OverBy(a, u) <= reached[i+1]
               /\ a.kind = KindStart =>
                    OverBy(a, u) <= Quiet /\ OverBy(a, u) <= HealBy(a.op) + HealLag
               /\ a.kind # KindStart => HealedBy(a, u) <= Quiet
               /\ a.kind = KindEnd   => HealedBy(a, u) <= HealBy(a.op) + HealLag
<1>1. reached[i] \in Int /\ reached[i+1] \in Int /\ i + 1 \in 1..(Len(Acts) + 1)
  BY ActsFacts DEF Paced
<1>2. Acts[i].at \in Int /\ (Acts[i].kind # KindSweep => Acts[i].op \in Ops)
  BY ActsFacts, SerialFacts
<1>3. /\ OverBy(Acts[i], reached[i]) <= reached[i+1]
      /\ Acts[i].kind = KindEnd =>
           HealedBy(Acts[i], reached[i]) <= HealBy(Acts[i].op) + HealLag
  BY DEF Paced
<1>4. \A o \in Ops : HealBy(o) \in Int
  BY ScheduleAssumption DEF HealBy
<1>5. ASSUME Acts[i].kind = KindStart
      PROVE  /\ OverBy(Acts[i], reached[i]) <= Quiet
             /\ OverBy(Acts[i], reached[i]) <= HealBy(Acts[i].op) + HealLag
  <2>1. i + 1 \in 1..Len(Acts) /\ Acts[i+1].kind = KindEnd /\ Acts[i+1].op = Acts[i].op
    BY <1>5, SerialFacts
  <2>2. /\ reached[i+1] <= Quiet
        /\ HealedBy(Acts[i+1], reached[i+1]) <= HealBy(Acts[i].op) + HealLag
    BY <2>1 DEF Paced
  <2>3. Acts[i+1].at \in Int /\ Acts[i+1].kind # KindStart /\ Acts[i+1].op \in Ops
    BY <1>2, <1>5, <2>1, ActsFacts DEF KindEnd, KindStart, KindSweep
  <2>4. /\ HealedBy(Acts[i+1], reached[i+1]) \in Int /\ WakeBy(Acts[i+1].at, reached[i+1]) \in Int
        /\ WakeBy(Acts[i+1].at, reached[i+1]) + CallTimeout + Slack <= HealedBy(Acts[i+1], reached[i+1])
    BY <1>1, <2>3, HealBounds
  <2>5. reached[i+1] <= WakeBy(Acts[i+1].at, reached[i+1])
    BY <1>1, <2>3, WakeBounds
  <2>6. OverBy(Acts[i], reached[i]) \in Int
    BY <1>1, <1>2, <1>5, InjectingBounds, PlainBounds
  <2> QED
    <3>1. Acts[i].op \in Ops
      BY <2>1, <2>3
    <3>2. reached[i+1] <= HealedBy(Acts[i+1], reached[i+1])
      BY <1>1, <2>4, <2>5, Durations DEF CallTimeout
    <3> QED
      BY <1>1, <1>3, <1>4, <2>2, <2>4, <2>6, <3>1, <3>2, Durations
<1>6. ASSUME Acts[i].kind # KindStart
      PROVE  HealedBy(Acts[i], reached[i]) <= Quiet
  <2>1. /\ HealedBy(Acts[i], reached[i]) \in Int
        /\ OverBy(Acts[i], reached[i]) = HealedBy(Acts[i], reached[i]) + RepeerTimeout + Slack
    <3>1. Acts[i].kind = KindEnd => Acts[i].op \in Ops
      BY <1>2 DEF KindEnd, KindSweep
    <3> QED
      BY <1>1, <1>2, <1>6, <3>1, HealBounds
  <2>2. CASE i = Len(Acts)
    BY <2>2 DEF Paced
  <2>3. CASE i # Len(Acts)
    <3>1. i + 1 \in 1..Len(Acts)
      BY <2>3, ActsFacts
    <3>2. reached[i+1] <= Quiet
      BY <3>1 DEF Paced
    <3> QED
      BY <1>1, <1>3, <2>1, <3>2, Durations DEF RepeerTimeout
  <2> QED
    BY <2>2, <2>3
<1>7. OverBy(Acts[i], reached[i]) \in Int
  <2>1. CASE Acts[i].kind = KindStart
    BY <1>1, <1>2, <2>1, InjectingBounds, PlainBounds
  <2>2. CASE Acts[i].kind # KindStart
    <3>1. Acts[i].kind = KindEnd => Acts[i].op \in Ops
      BY <1>2 DEF KindEnd, KindSweep
    <3> QED
      BY <1>1, <1>2, <2>2, <3>1, HealBounds
  <2> QED
    BY <2>1, <2>2
<1> QED
  BY <1>1, <1>2, <1>3, <1>5, <1>6, <1>7

(* An action reached in time waits in time. *)
LEMMA BeginOnPace ==
    ASSUME NEW reached, Paced(reached), NEW i \in 1..(Len(Acts) + 1),
           now \in Int, now' = now, now <= reached[i], Begin(i)
    PROVE  OnPace(reached)'
<1>1. reached[i] \in Int
  BY DEF Paced
<1>2. CASE i > Len(Acts)
  <2>1. WaitFor("quietWait", Quiet)
    BY <1>2, ActsFacts DEF Begin
  <2> QED
    BY <2>1, Durations DEF OnPace, WaitFor
<1>3. CASE i <= Len(Acts)
  <2>1. i \in 1..Len(Acts) /\ k' = i /\ Arrive(Acts[i])
    BY <1>3, ActsFacts DEF Begin
  <2>2. Acts[i].at \in Int
    BY <2>1, ActsFacts
  <2>3. ASSUME NEW p, NEW t \in Int, WaitFor(p, t)
        PROVE  /\ pc' = p /\ due' \in Int /\ now <= due' /\ t + Slack <= due'
               /\ due' <= WakeBy(t, reached[i])
    <3>1. /\ WakeBy(t, reached[i]) = (IF t > reached[i] THEN t ELSE reached[i]) + Slack
          /\ due' = (IF t > now THEN t ELSE now) + Slack
      BY <1>1, <2>3, WakeBounds DEF WaitFor
    <3> QED
      BY <1>1, <2>3, <3>1, Durations DEF WaitFor
  <2>4. CASE Acts[i].kind = KindStart /\ Injects(Acts[i])
    <3>1. WaitFor("deployWait", Acts[i].at - DeployLead)
      BY <2>1, <2>4 DEF Arrive, Injects, KindStart, KindEnd, KindSweep
    <3>2. Acts[i].at - DeployLead \in Int
      BY <2>2 DEF DeployLead
    <3> QED
      BY <2>1, <2>3, <2>4, <3>1, <3>2 DEF OnPace, Injects, Straddle
  <2>5. CASE Acts[i].kind = KindStart /\ ~Injects(Acts[i])
    <3>1. WaitFor("startWait", Acts[i].at)
      BY <2>1, <2>5 DEF Arrive, Injects, KindStart, KindEnd, KindSweep
    <3>2. OpenBy(Acts[i], reached[i]) = WakeBy(Acts[i].at, reached[i])
      BY <1>1, <2>2, <2>5, PlainBounds
    <3> QED
      BY <2>1, <2>2, <2>3, <3>1, <3>2 DEF OnPace
  <2>6. CASE Acts[i].kind # KindStart
    <3>1. \E p \in {"endWait", "sweepWait"} : WaitFor(p, Acts[i].at)
      BY <2>1, <2>6 DEF Arrive
    <3> QED
      BY <2>1, <2>2, <2>3, <3>1 DEF OnPace
  <2> QED
    BY <2>4, <2>5, <2>6
<1> QED
  BY <1>2, <1>3, ActsFacts

(* Every step ends in time. *)
LEMMA PaceStep ==
    ASSUME NEW reached, Paced(reached), TypeOK, PcMatchesAction, OnPace(reached), [Next]_vars
    PROVE  OnPace(reached)'
<1> DEFINE a == Acts[k]
           u == reached[k]
<1>0. now \in Int /\ due \in Int /\ now <= due
  BY DEF TypeOK, OnPace
<1>a. ASSUME pc \in StartSteps \cup EndSteps \cup SweepSteps \cup {"repeering"}
      PROVE  /\ k \in 1..Len(Acts) /\ k + 1 \in 1..(Len(Acts) + 1) /\ u \in Int /\ a.at \in Int
             /\ reached[k+1] \in Int /\ OverBy(a, u) \in Int /\ OverBy(a, u) <= reached[k+1]
             /\ a.kind = KindStart => OverBy(a, u) <= Quiet
             /\ a.kind # KindStart => HealedBy(a, u) <= Quiet
             /\ a.kind # KindSweep => a.op \in Ops
  BY <1>a, ActsFacts, PacedFacts DEF PcMatchesAction
<1>b. ASSUME pc \in StartSteps
      PROVE  /\ a.kind = KindStart
             /\ {OpenBy(a, u), AppliedBy(a, u), OverBy(a, u)} \subseteq Int
             /\ AppliedBy(a, u) = OpenBy(a, u) + CallTimeout + Slack
             /\ AppliedBy(a, u) <= OverBy(a, u)
             /\ ~Injects(a) => OpenBy(a, u) = WakeBy(a.at, u)
             /\ Injects(a) =>
                  /\ {WakeBy(a.at - DeployLead, u), DeployedBy(a, u), WriteBy(a, u)} \subseteq Int
                  /\ DeployedBy(a, u) = WakeBy(a.at - DeployLead, u) + DeployTimeout + Slack
                  /\ OpenBy(a, u) = WakeBy(a.at, DeployedBy(a, u))
                  /\ WriteBy(a, u) = WakeBy(a.at + WriteDelay, AppliedBy(a, u))
                  /\ OverBy(a, u) = WriteBy(a, u) + WriteTimeout + Slack
  <2>1. a.kind = KindStart
    BY <1>b DEF PcMatchesAction
  <2>2. CASE Injects(a)
    <3>1. /\ {WakeBy(a.at - DeployLead, u), DeployedBy(a, u), OpenBy(a, u), AppliedBy(a, u),
              WriteBy(a, u), OverBy(a, u)} \subseteq Int
          /\ DeployedBy(a, u) = WakeBy(a.at - DeployLead, u) + DeployTimeout + Slack
          /\ OpenBy(a, u) = WakeBy(a.at, DeployedBy(a, u))
          /\ AppliedBy(a, u) = OpenBy(a, u) + CallTimeout + Slack
          /\ WriteBy(a, u) = WakeBy(a.at + WriteDelay, AppliedBy(a, u))
          /\ AppliedBy(a, u) <= WriteBy(a, u)
          /\ OverBy(a, u) = WriteBy(a, u) + WriteTimeout + Slack
      <4> HIDE DEF a, u
      <4> QED
        BY <1>a, <1>b, <2>1, <2>2, InjectingBounds
    <3>2. AppliedBy(a, u) <= OverBy(a, u)
      BY <3>1, Durations DEF WriteTimeout
    <3> HIDE DEF a, u
    <3> QED
      BY <2>1, <2>2, <3>1, <3>2
  <2>3. CASE ~Injects(a)
    <3>1. /\ {OpenBy(a, u), AppliedBy(a, u), OverBy(a, u)} \subseteq Int
          /\ OpenBy(a, u) = WakeBy(a.at, u)
          /\ AppliedBy(a, u) = OpenBy(a, u) + CallTimeout + Slack
          /\ OverBy(a, u) = AppliedBy(a, u)
      <4> HIDE DEF a, u
      <4> QED
        BY <1>a, <1>b, <2>1, <2>3, PlainBounds
    <3> HIDE DEF a, u
    <3> QED
      BY <2>1, <2>3, <3>1
  <2> QED
    BY <2>2, <2>3
<1>c. ASSUME pc \in EndSteps \cup SweepSteps
      PROVE  /\ a.kind # KindStart
             /\ pc \in EndSteps => a.kind = KindEnd /\ a.op \in Ops
             /\ {WakeBy(a.at, u), HealedBy(a, u), OverBy(a, u)} \subseteq Int
             /\ WakeBy(a.at, u) + CallTimeout + Slack <= HealedBy(a, u)
             /\ OverBy(a, u) = HealedBy(a, u) + RepeerTimeout + Slack
             /\ pc \in EndSteps /\ Straddle(a.op) =>
                  /\ HeldBy(a, u) \in Int /\ WakeBy(a.at, u) <= HeldBy(a, u)
                  /\ OpInfo[a.op].hold \in Int
                  /\ OpInfo[a.op].hold - 1 + SlotSeconds + Slack <= HeldBy(a, u)
                  /\ HealedBy(a, u) = HeldBy(a, u) + ProbeTimeout + Slack + CallTimeout + Slack
  <2>1. /\ a.kind # KindStart /\ (pc \in EndSteps => a.kind = KindEnd /\ a.op \in Ops)
        /\ a.kind = KindEnd => a.op \in Ops
    BY <1>a, <1>c DEF PcMatchesAction, KindStart, KindEnd, KindSweep
  <2>2. \A o \in Ops : OpInfo[o].hold \in Int
    BY ScheduleAssumption
  <2> QED
    BY <1>a, <1>c, <2>1, <2>2, HealBounds
<1>d. ASSUME NEW t \in Nat, NEW p, Call(p, t), now' = now
      PROVE  pc' = p /\ due' \in Int /\ now' <= due' /\ due' <= due + t + Slack
  BY <1>0, <1>d, Durations DEF Call
<1>e. ASSUME NEW t \in Int, NEW v \in Int, NEW p, WaitFor(p, t), now' = now, due <= v
      PROVE  /\ pc' = p /\ due' \in Int /\ now' <= due'
             /\ t + Slack <= due' /\ due' <= WakeBy(t, v)
  <2>1. /\ WakeBy(t, v) = (IF t > v THEN t ELSE v) + Slack
        /\ due' = (IF t > now THEN t ELSE now) + Slack
    BY <1>e, WakeBounds DEF WaitFor
  <2> QED
    BY <1>0, <1>e, <2>1, Durations DEF WaitFor
<1>f. ASSUME Begin(k + 1), now' = now,
             pc \in StartSteps \cup EndSteps \cup SweepSteps \cup {"repeering"},
             now <= OverBy(a, u)
      PROVE  OnPace(reached)'
  <2>1. now <= reached[k+1]
    BY <1>0, <1>a, <1>f
  <2> QED
    BY <1>0, <1>a, <1>f, <2>1, BeginOnPace
<1>g. CallTimeout = 15 /\ ProbeTimeout = 10 /\ RepeerTimeout = 30 /\ DeployTimeout = 75
      /\ WriteTimeout = 110
  BY DEF CallTimeout, ProbeTimeout, RepeerTimeout, DeployTimeout, WriteTimeout
<1> HIDE DEF a, u
<1>1. CASE Boot
  <2>1. now <= reached[1] /\ 1 \in 1..(Len(Acts) + 1) /\ reached[1] \in Int
    BY <1>0, <1>1, ActsFacts DEF Boot, OnPace, Paced
  <2> QED
    BY <1>0, <1>1, <2>1, BeginOnPace DEF Boot
<1>2. CASE SkipStale \/ PartitionErr \/ Written
  <2>1. pc \in StartSteps /\ now <= OverBy(a, u) /\ Begin(k + 1) /\ now' = now
    BY <1>0, <1>2, <1>b, <1>g, Durations
       DEF SkipStale, PartitionErr, Written, StartSteps, OnPace, a, u
  <2> QED
    BY <1>b, <1>f, <2>1
<1>3. CASE SkipUnapplied \/ ClearErr
  <2>1. pc \in EndSteps /\ now <= OverBy(a, u) /\ Begin(k + 1) /\ now' = now
    BY <1>0, <1>3, <1>c, <1>g, Durations DEF SkipUnapplied, ClearErr, EndSteps, OnPace, a, u
  <2> QED
    BY <1>c, <1>f, <2>1
<1>4. CASE Repeered
  <2>1. pc = "repeering" /\ now <= OverBy(a, u) /\ Begin(k + 1) /\ now' = now
    BY <1>0, <1>a, <1>4 DEF Repeered, OnPace, a, u
  <2> QED
    BY <1>f, <2>1
<1>5. CASE DeployWaitEnds
  <2>1. pc = "deployWait" /\ Call("deploying", 75) /\ k' = k /\ now' = now
    BY <1>5, <1>g DEF DeployWaitEnds
  <2>2. Injects(a) /\ due <= WakeBy(a.at - DeployLead, u)
    BY <2>1 DEF OnPace, a, u
  <2> QED
    BY <1>0, <1>b, <1>d, <1>g, <2>1, <2>2, Durations DEF OnPace, StartSteps, a, u
<1>6. CASE Deployed
  <2>1. pc = "deploying" /\ WaitFor("startWait", a.at) /\ k' = k /\ now' = now
    BY <1>6 DEF Deployed, a
  <2>2. Injects(a) /\ due <= DeployedBy(a, u)
    BY <2>1 DEF OnPace, a, u
  <2>3. /\ a.at \in Int /\ DeployedBy(a, u) \in Int
        /\ OpenBy(a, u) = WakeBy(a.at, DeployedBy(a, u))
    BY <1>a, <1>b, <2>1, <2>2 DEF StartSteps
  <2>4. /\ pc' = "startWait" /\ now' <= due'
        /\ a.at + Slack <= due' /\ due' <= OpenBy(a, u)
    BY <1>e, <2>1, <2>2, <2>3
  <2> QED
    BY <2>1, <2>4 DEF OnPace, a, u
<1>7. CASE StartWaitEnds
  <2>1. /\ pc = "startWait" /\ Call("partitioning", 15) /\ k' = k /\ now' = now
        /\ now < OpInfo[a.op].end /\ now + Slack >= due
    BY <1>0, <1>7, <1>a, <1>g, ScheduleAssumption
       DEF StartWaitEnds, Woken, Op, StartSteps, a, KindStart, KindSweep, PcMatchesAction
  <2>2. due <= OpenBy(a, u) /\ a.at + Slack <= due
    BY <2>1 DEF OnPace, a, u
  <2> QED
    <3>1. /\ a.at \in Int /\ OpInfo[a.op].end \in Int
          /\ OpenBy(a, u) \in Int /\ AppliedBy(a, u) = OpenBy(a, u) + CallTimeout + Slack
      BY <1>a, <1>b, <2>1, ScheduleAssumption DEF StartSteps, KindStart, KindSweep
    <3>2. /\ pc' = "partitioning" /\ now <= due' /\ due' <= AppliedBy(a, u) /\ a.at <= now
          /\ due' < OpInfo[a.op].end + CallTimeout + Slack
      BY <1>0, <1>g, <2>1, <2>2, <3>1, Durations DEF Call
    <3> QED
      BY <2>1, <3>2 DEF OnPace, a, u
<1>8. CASE PartitionOK
  <2>1. pc = "partitioning" /\ now' = now /\ due <= AppliedBy(a, u)
    BY <1>8 DEF PartitionOK, OnPace, a, u
  <2>2. CASE Injects(a)
    <3>1. WaitFor("writeWait", a.at + WriteDelay) /\ k' = k /\ a.at + WriteDelay \in Int
      BY <1>8, <1>a, <2>1, <2>2 DEF PartitionOK, Injects, Op, StartSteps, WriteDelay, a
    <3> QED
      <4>1. /\ AppliedBy(a, u) \in Int
            /\ WriteBy(a, u) = WakeBy(a.at + WriteDelay, AppliedBy(a, u))
        BY <1>b, <2>1, <2>2 DEF StartSteps
      <4>2. pc' = "writeWait" /\ now' <= due' /\ due' <= WriteBy(a, u)
        BY <1>e, <2>1, <3>1, <4>1
      <4> QED
        BY <2>2, <3>1, <4>2 DEF OnPace, a, u
  <2>3. CASE ~Injects(a)
    <3>1. Begin(k + 1)
      BY <1>8, <2>3 DEF PartitionOK, Injects, Op, a
    <3>2. pc \in StartSteps /\ now <= OverBy(a, u)
      BY <1>0, <1>b, <2>1 DEF StartSteps
    <3> QED
      BY <1>f, <2>1, <3>1, <3>2
  <2> QED
    BY <2>2, <2>3
<1>9. CASE WriteWaitEnds
  <2>1. pc = "writeWait" /\ Call("writing", 110) /\ k' = k /\ now' = now
    BY <1>9, <1>g DEF WriteWaitEnds
  <2>2. Injects(a) /\ due <= WriteBy(a, u)
    BY <2>1 DEF OnPace, a, u
  <2> QED
    BY <1>0, <1>b, <1>d, <1>g, <2>1, <2>2, Durations DEF OnPace, StartSteps, a, u
<1>10. CASE EndWaitEnds
  <2>1. /\ pc = "endWait" /\ k' = k /\ now' = now /\ due <= WakeBy(a.at, u)
        /\ \/ Straddle(a.op) /\ Call("probing", 10)
           \/ ~Straddle(a.op) /\ Call("clearing", 15)
    BY <1>10, <1>g DEF EndWaitEnds, Op, OnPace, a, u
  <2> QED
    BY <1>0, <1>c, <1>d, <1>g, <2>1, Durations DEF OnPace, EndSteps, a, u
<1>11. CASE Probe
  <2>1. /\ pc = "probing" /\ k' = k /\ now' = now
        /\ Straddle(a.op) /\ due <= HeldBy(a, u) + ProbeTimeout + Slack
    BY <1>11 DEF Probe, OnPace, a, u
  <2>2. CASE Call("clearing", CallTimeout)
    BY <1>0, <1>c, <1>d, <1>g, <2>1, <2>2, Durations DEF OnPace, EndSteps, a, u
  <2>3. CASE WaitFor("holdSleep", now + SlotSeconds) /\ now < OpInfo[a.op].hold
    <3>1. /\ pc' = "holdSleep" /\ now' <= due'
          /\ due' <= OpInfo[a.op].hold - 1 + SlotSeconds + Slack
      BY <1>0, <1>c, <2>1, <2>3, Durations DEF WaitFor, EndSteps
    <3> QED
      <4>1. due' <= HeldBy(a, u)
        BY <1>0, <1>c, <2>1, <2>3, <3>1, Durations DEF EndSteps, WaitFor
      <4> QED
        BY <2>1, <3>1, <4>1 DEF OnPace, a, u
  <2>4. Call("clearing", CallTimeout) \/
          (WaitFor("holdSleep", now + SlotSeconds) /\ now < OpInfo[a.op].hold)
    BY <1>0, <1>11, <1>c, <2>1 DEF Probe, holdOver, Op, EndSteps, a
  <2> QED
    BY <2>2, <2>3, <2>4
<1>12. CASE HoldSleepEnds
  <2>1. /\ pc = "holdSleep" /\ Call("probing", 10) /\ k' = k /\ now' = now
        /\ Straddle(a.op) /\ due <= HeldBy(a, u)
    BY <1>12, <1>g DEF HoldSleepEnds, OnPace, a, u
  <2> QED
    BY <1>0, <1>c, <1>d, <1>g, <2>1, Durations DEF OnPace, EndSteps, a, u
<1>13. CASE ClearOK \/ SweepOK \/ SweepErr
  <2>1. /\ pc \in {"clearing", "sweeping"} /\ Call("repeering", 30) /\ k' = k /\ now' = now
        /\ due <= HealedBy(a, u)
    BY <1>13, <1>g DEF ClearOK, SweepOK, SweepErr, OnPace, a, u
  <2> QED
    BY <1>0, <1>c, <1>d, <1>g, <2>1, Durations DEF OnPace, EndSteps, SweepSteps, a, u
<1>14. CASE SweepWaitEnds
  <2>1. /\ pc = "sweepWait" /\ Call("sweeping", 15) /\ k' = k /\ now' = now
        /\ due <= WakeBy(a.at, u)
    BY <1>14, <1>g DEF SweepWaitEnds, OnPace, a, u
  <2> QED
    BY <1>0, <1>c, <1>d, <1>g, <2>1, Durations DEF OnPace, SweepSteps, a, u
<1>15. CASE Shutdown
  <2>1. pc \in Waits /\ Call("shutdownClear", 15) /\ now' = now
    BY <1>15, <1>g DEF Shutdown
  <2>2. now + 15 + Slack <= Quiet
    <3>1. CASE pc = "deployWait"
      <4>1. Injects(a) /\ due <= WakeBy(a.at - DeployLead, u)
        BY <3>1 DEF OnPace, a, u
      <4>2. DeployedBy(a, u) \in Int /\ DeployedBy(a, u) <= OpenBy(a, u)
        <5>1. /\ a.at \in Int /\ DeployedBy(a, u) \in Int
              /\ OpenBy(a, u) = WakeBy(a.at, DeployedBy(a, u))
          BY <1>a, <1>b, <3>1, <4>1 DEF StartSteps
        <5> QED
          BY <5>1, WakeBounds
      <4> QED
        <5>1. /\ WakeBy(a.at - DeployLead, u) \in Int /\ DeployedBy(a, u) \in Int
              /\ DeployedBy(a, u) = WakeBy(a.at - DeployLead, u) + DeployTimeout + Slack
          BY <1>b, <3>1, <4>1 DEF StartSteps
        <5>2. /\ OpenBy(a, u) \in Int /\ AppliedBy(a, u) = OpenBy(a, u) + CallTimeout + Slack
              /\ OverBy(a, u) \in Int /\ AppliedBy(a, u) <= OverBy(a, u) /\ OverBy(a, u) <= Quiet
          BY <1>a, <1>b, <3>1 DEF StartSteps
        <5> QED
          BY <1>0, <1>g, <4>1, <4>2, <5>1, <5>2, Durations
    <3>4. CASE pc = "startWait"
      <4>1. due <= OpenBy(a, u)
        BY <3>4 DEF OnPace, a, u
      <4>2. /\ OpenBy(a, u) \in Int /\ AppliedBy(a, u) = OpenBy(a, u) + CallTimeout + Slack
            /\ OverBy(a, u) \in Int /\ AppliedBy(a, u) <= OverBy(a, u) /\ OverBy(a, u) <= Quiet
        BY <1>a, <1>b, <3>4 DEF StartSteps
      <4> QED
        BY <1>0, <1>g, <4>1, <4>2, Durations
    <3>5. CASE pc = "writeWait"
      <4>1. Injects(a) /\ due <= WriteBy(a, u)
        BY <3>5 DEF OnPace, a, u
      <4> QED
        <5>1. /\ WriteBy(a, u) \in Int /\ OverBy(a, u) = WriteBy(a, u) + WriteTimeout + Slack
              /\ OverBy(a, u) <= Quiet
          BY <1>a, <1>b, <3>5, <4>1 DEF StartSteps
        <5> QED
          BY <1>0, <1>g, <4>1, <5>1, Durations
    <3>2. CASE pc \in {"endWait", "sweepWait"}
      BY <1>0, <1>a, <1>c, <1>g, <3>2, Durations DEF OnPace, EndSteps, SweepSteps, a, u
    <3>3. CASE pc = "holdSleep"
      <4>1. Straddle(a.op) /\ due <= HeldBy(a, u)
        BY <3>3 DEF OnPace, a, u
      <4>2. HealedBy(a, u) <= Quiet
        BY <1>a, <1>c, <3>3 DEF EndSteps
      <4> QED
        BY <1>0, <1>c, <1>g, <3>3, <4>1, <4>2, Durations DEF EndSteps
    <3> QED
      BY <2>1, <3>1, <3>2, <3>3, <3>4, <3>5 DEF Waits
  <2> QED
    BY <1>0, <2>1, <2>2, Durations DEF OnPace, Call
<1>16. CASE Tick
  <2>1. UNCHANGED <<due, pc, k>> /\ now' \in Int /\ now < now' /\ now' <= due
    BY <1>0, <1>16, Durations DEF Tick, books
  <2> QED
    <3>1. pc = "partitioning" => a.at <= now'
      <4>1. pc = "partitioning" => a.at <= now /\ a.at \in Int
        BY <1>a DEF OnPace, StartSteps, a, u
      <4> QED
        BY <1>0, <2>1, <4>1
    <3> QED
      BY <1>0, <2>1, <3>1 DEF OnPace, a, u
<1>17. CASE /\ \/ ShutdownCleared \/ ShutdownQuiet \/ Release \/ StopReleased
            /\ pc' \in Terminal
  BY <1>0, <1>17
     DEF ShutdownCleared, ShutdownQuiet, Release, StopReleased, OnPace, Terminal
<1>18. CASE Exited \/ Signal \/ CrossFork \/ UNCHANGED vars
  BY <1>18 DEF Exited, Signal, CrossFork, vars, OnPace
<1> QED
  BY <1>1, <1>2, <1>3, <1>4, <1>5, <1>6, <1>7, <1>8, <1>9, <1>10, <1>11, <1>12, <1>13, <1>14,
     <1>15, <1>16, <1>17, <1>18
     DEF Next, DriverStep, ShutdownCleared, ShutdownQuiet, Release, StopReleased, Terminal

-----------------------------------------------------------------------------
(* What the driver knows to be applied is its current op's, until a        *)
(* shutdown's Clear. *)
KeptIsCurrent ==
    net \in applied /\ lastClear = "ok" =>
        /\ pc \in {"writeWait", "writing"} \cup EndSteps => net = Op
        /\ pc = "shutdownClear" => due <= HealBy(net) + HealLag

LEMMA KeptIsOpen ==
    ASSUME IInv, net \in applied, lastClear = "ok"
    PROVE  \/ pc \in {"writeWait", "writing"} \cup EndSteps /\ Op \in applied
           \/ pc = "shutdownClear"
  <1>1. ~healed /\ net # NoOp
    BY ScheduleAssumption DEF IInv, OverstayIsKnown, TypeOK
  <1> QED
    BY <1>1 DEF IInv, OutstandingIsOpen, Op, Gone, EndsWhole, Terminal

(* At a step of its own action, the action's heal is not overdue. *)
LEMMA OpenInTime ==
    ASSUME NEW reached, Paced(reached), TypeOK, PcMatchesAction, OnPace(reached),
           pc \in {"writeWait", "writing"} \cup EndSteps
    PROVE  /\ due <= HealBy(Op) + HealLag
           /\ pc \in {"writeWait", "endWait", "holdSleep"} =>
                due + CallTimeout + Slack <= HealBy(Op) + HealLag
  <1> DEFINE a == Acts[k]
             u == reached[k]
  <1>0. due \in Int /\ Op = a.op
    BY DEF TypeOK, Op
  <1>1. /\ k \in 1..Len(Acts)
        /\ a.kind = IF pc \in EndSteps THEN KindEnd ELSE KindStart
    BY DEF PcMatchesAction, StartSteps, EndSteps
  <1>2. u \in Int /\ a.at \in Int /\ a.op \in Ops /\ OverBy(a, u) \in Int
    BY <1>1, PacedFacts DEF KindStart, KindEnd, KindSweep
  <1>3. HealBy(a.op) \in Int /\ OpInfo[a.op].hold \in Int
    BY <1>2, ScheduleAssumption DEF HealBy
  <1>4. CASE pc \in {"writeWait", "writing"}
    <2>1. a.kind = KindStart /\ OverBy(a, u) <= HealBy(a.op) + HealLag
      BY <1>1, <1>4, PacedFacts DEF EndSteps
    <2>2. CASE pc = "writing"
      <3>1. due <= OverBy(a, u)
        BY <2>2 DEF OnPace
      <3> QED
        BY <1>0, <1>2, <1>3, <2>1, <2>2, <3>1, Durations
    <2>3. CASE pc = "writeWait"
      <3>1. Injects(a) /\ due <= WriteBy(a, u)
        BY <2>3 DEF OnPace
      <3>2. WriteBy(a, u) \in Int /\ OverBy(a, u) = WriteBy(a, u) + WriteTimeout + Slack
        <4> HIDE DEF a, u
        <4> QED
          BY <1>2, <2>1, <3>1, InjectingBounds
      <3> QED
        BY <1>0, <1>2, <1>3, <2>1, <3>1, <3>2, Durations DEF CallTimeout, WriteTimeout
    <2> QED
      BY <1>4, <2>2, <2>3
  <1>5. CASE pc \in EndSteps
    <2>1. a.kind = KindEnd /\ a.kind # KindStart /\ HealedBy(a, u) <= HealBy(a.op) + HealLag
      BY <1>1, <1>5, PacedFacts DEF KindStart, KindEnd
    <2>2. /\ {WakeBy(a.at, u), HealedBy(a, u)} \subseteq Int
          /\ WakeBy(a.at, u) + CallTimeout + Slack <= HealedBy(a, u)
          /\ Straddle(a.op) =>
               /\ HeldBy(a, u) \in Int
               /\ HealedBy(a, u) = HeldBy(a, u) + ProbeTimeout + Slack + CallTimeout + Slack
      <3> HIDE DEF a, u
      <3> QED
        BY <1>2, <2>1, HealBounds
    <2>3. CASE pc = "endWait"
      <3>1. due <= WakeBy(a.at, u)
        BY <2>3 DEF OnPace
      <3> QED
        BY <1>0, <1>3, <2>1, <2>2, <3>1, Durations DEF CallTimeout
    <2>4. CASE pc \in {"holdSleep", "probing"}
      <3>1. /\ Straddle(a.op) /\ due <= HeldBy(a, u) + ProbeTimeout + Slack
            /\ pc = "holdSleep" => due <= HeldBy(a, u)
        <4>1. Straddle(a.op)
          BY <2>4 DEF OnPace
        <4>2. HeldBy(a, u) \in Int
          BY <2>2, <4>1
        <4> QED
          BY <1>0, <2>4, <4>1, <4>2, Durations DEF OnPace, ProbeTimeout
      <3> QED
        BY <1>0, <1>3, <2>1, <2>2, <2>4, <3>1, Durations DEF CallTimeout, ProbeTimeout
    <2>5. CASE pc = "clearing"
      <3>1. due <= HealedBy(a, u)
        BY <2>5 DEF OnPace
      <3> QED
        BY <1>0, <1>3, <2>1, <2>2, <2>5, <3>1, Durations
    <2> QED
      BY <1>5, <2>3, <2>4, <2>5 DEF EndSteps
  <1> QED
    BY <1>4, <1>5

LEMMA KeptStep ==
    ASSUME NEW reached, Paced(reached), IInv, OnPace(reached), KeptIsCurrent, [Next]_vars
    PROVE  KeptIsCurrent'
  <1> SUFFICES ASSUME net' \in applied', lastClear' = "ok"
               PROVE  /\ pc' \in {"writeWait", "writing"} \cup EndSteps => net' = Acts[k'].op
                      /\ pc' = "shutdownClear" => due' <= HealBy(net') + HealLag
    BY DEF KeptIsCurrent, Op
  <1>0. TypeOK /\ PcMatchesAction /\ NoOp \notin applied
    BY ScheduleAssumption DEF IInv, TypeOK
  <1>1. CASE Advance
    <2>1. net \in applied /\ lastClear = "ok"
      BY <1>1 DEF Advance
    <2>2. pc = "writing" /\ net = Op
      BY <1>1, <2>1, KeptIsOpen DEF Advance, EndSteps, KeptIsCurrent
    <2>3. k' = k + 1 /\ pc' = "endWait" /\ Acts[k+1].op = Op
      BY <1>0, <1>1, <2>2, AfterStart DEF Advance, StartSteps
    <2> QED
      BY <1>1, <2>2, <2>3 DEF Advance
  <1>2. CASE Stay
    <2>1. net' = net /\ k' = k /\ net \in applied /\ lastClear = "ok"
      BY <1>2 DEF Stay
    <2>2. pc' \in {"writeWait", "writing"} \cup EndSteps => net = Op
      BY <1>2, <2>1, KeptIsOpen DEF Stay, EndSteps, Gone, KeptIsCurrent
    <2>3. ASSUME pc' = "shutdownClear" PROVE due' <= HealBy(net) + HealLag
      <3>1. CASE pc = "shutdownClear"
        <4>1. due' = due
          BY <2>3, <3>1
             DEF Next, DriverStep, Boot, DeployWaitEnds, Deployed, SkipStale, StartWaitEnds,
                 PartitionOK, PartitionErr, WriteWaitEnds, Written, SkipUnapplied, EndWaitEnds,
                 Probe, HoldSleepEnds, ClearOK, ClearErr, Repeered, SweepWaitEnds, SweepOK,
                 SweepErr, Shutdown, ShutdownCleared, ShutdownQuiet, Release, StopReleased,
                 Exited, Tick, Signal, CrossFork, vars, Waits
        <4> QED
          BY <2>1, <3>1, <4>1 DEF KeptIsCurrent
      <3>2. CASE pc # "shutdownClear"
        <4>1. pc \in {"writeWait", "writing"} \cup EndSteps /\ net = Op
          BY <2>1, <3>2, KeptIsOpen DEF KeptIsCurrent
        <4>a. ~Begin(k + 1)
          BY <1>0, <2>3, <4>1, AfterAny DEF BeginSteps, PcMatchesAction, StartSteps
        <4>2. Shutdown
          BY <2>3, <4>1, <4>a
             DEF Next, DriverStep, Boot, DeployWaitEnds, Deployed, SkipStale, StartWaitEnds,
                 PartitionOK, PartitionErr, WriteWaitEnds, Written, SkipUnapplied, EndWaitEnds,
                 Probe, HoldSleepEnds, ClearOK, ClearErr, Repeered, SweepWaitEnds, SweepOK,
                 SweepErr, ShutdownCleared, ShutdownQuiet, Release, StopReleased,
                 Exited, Tick, Signal, CrossFork, vars, EndSteps, Call, WaitFor
        <4>3. pc \in {"writeWait", "endWait", "holdSleep"}
          BY <4>1, <4>2 DEF Shutdown, Waits, EndSteps
        <4>4. due + CallTimeout + Slack <= HealBy(Op) + HealLag
          BY <1>0, <4>1, <4>3, OpenInTime
        <4>5. HealBy(Op) \in Int
          BY <1>0, <4>3, OpIsAnOp, ScheduleAssumption DEF HealBy, StartSteps, EndSteps
        <4>6. now \in Int /\ due \in Int /\ now <= due /\ due' = now + CallTimeout + Slack
          BY <1>0, <4>2 DEF TypeOK, OnPace, Shutdown, Call
        <4> QED
          BY <4>1, <4>4, <4>5, <4>6, Durations DEF CallTimeout
      <3> QED
        BY <3>1, <3>2
    <2> QED
      BY <2>1, <2>2, <2>3 DEF Op
  <1>3. CASE PartitionOK
    <2>1. CASE k' = k /\ pc' = "writeWait"
      BY <1>3, <2>1 DEF PartitionOK, Op
    <2>2. CASE Begin(k + 1)
      <3>1. k' = k + 1 /\ pc' = "endWait" /\ Acts[k+1].op = Op
        BY <1>0, <1>3, <2>2, AfterStart DEF PartitionOK, StartSteps
      <3> QED
        BY <1>3, <3>1 DEF PartitionOK
    <2> QED
      BY <1>3, <2>1, <2>2 DEF PartitionOK, WaitFor
  <1>4. CASE PartitionErr
    <2>1. net' = net /\ net \in applied /\ lastClear = "ok" /\ pc = "partitioning"
      BY <1>4, StartIsNotApplied DEF PartitionErr
    <2> QED
      BY <2>1, KeptIsOpen DEF EndSteps
  <1>5. CASE ClearOK \/ SweepOK
    BY <1>0, <1>5 DEF ClearOK, SweepOK
  <1>6. CASE ClearErr \/ SweepErr
    BY <1>6 DEF ClearErr, SweepErr
  <1>7. CASE ShutdownCleared
    BY <1>0, <1>7 DEF ShutdownCleared, books
  <1> QED
    BY <1>0, <1>1, <1>2, <1>3, <1>4, <1>5, <1>6, <1>7, StepShape

(* A driver that is not finished is over by Quiet. *)
LEMMA UnfinishedInTime ==
    ASSUME NEW reached, Paced(reached), TypeOK, PcMatchesAction, OnPace(reached), ~Finished
    PROVE  due <= Quiet
  <1> DEFINE a == Acts[k]
             u == reached[k]
  <1>0. due \in Int
    BY DEF TypeOK
  <1>1. CASE pc = "boot"
    <2>1. due <= reached[1]
      BY <1>1 DEF OnPace
    <2>2. 1 \in 1..Len(Acts) /\ 1 \in 1..(Len(Acts) + 1)
      BY ActsFacts
    <2>3. reached[1] \in Int /\ reached[1] <= Quiet
      BY <2>2 DEF Paced
    <2> QED
      BY <1>0, <2>1, <2>3, Durations
  <1>2. CASE pc \in StartSteps
    <2>1. k \in 1..Len(Acts) /\ a.kind = KindStart
      BY <1>2 DEF PcMatchesAction
    <2>2. u \in Int /\ a.at \in Int /\ OverBy(a, u) \in Int /\ OverBy(a, u) <= Quiet
      BY <2>1, PacedFacts
    <2>3. CASE Injects(a)
      <3>1. /\ {WakeBy(a.at - DeployLead, u), DeployedBy(a, u), OpenBy(a, u), AppliedBy(a, u),
                WriteBy(a, u)} \subseteq Int
            /\ DeployedBy(a, u) = WakeBy(a.at - DeployLead, u) + DeployTimeout + Slack
            /\ OpenBy(a, u) = WakeBy(a.at, DeployedBy(a, u))
            /\ AppliedBy(a, u) = OpenBy(a, u) + CallTimeout + Slack
            /\ AppliedBy(a, u) <= WriteBy(a, u)
            /\ OverBy(a, u) = WriteBy(a, u) + WriteTimeout + Slack
        <4> HIDE DEF a, u
        <4> QED
          BY <2>1, <2>2, <2>3, InjectingBounds
      <3>2. DeployedBy(a, u) <= OpenBy(a, u)
        <4> DEFINE d == DeployedBy(a, u)
        <4>1. a.at \in Int /\ d \in Int /\ OpenBy(a, u) = WakeBy(a.at, d)
          <5> HIDE DEF a, u
          <5> QED
            BY <2>2, <3>1
        <4> HIDE DEF a, d
        <4>2. d <= WakeBy(a.at, d)
          BY <4>1, WakeBounds
        <4> QED
          BY <4>1, <4>2 DEF d
      <3>3. /\ WakeBy(a.at - DeployLead, u) <= DeployedBy(a, u) /\ OpenBy(a, u) <= AppliedBy(a, u)
            /\ WriteBy(a, u) <= OverBy(a, u)
        BY <2>2, <3>1, Durations DEF DeployTimeout, CallTimeout, WriteTimeout
      <3>4. \/ due <= WakeBy(a.at - DeployLead, u) \/ due <= DeployedBy(a, u)
            \/ due <= OpenBy(a, u) \/ due <= AppliedBy(a, u) \/ due <= WriteBy(a, u)
            \/ due <= OverBy(a, u)
        BY <1>2 DEF OnPace, StartSteps
      <3> HIDE DEF a, u
      <3> QED
        BY <1>0, <2>2, <3>1, <3>2, <3>3, <3>4, Durations
    <2>4. CASE ~Injects(a)
      <3>1. /\ OpenBy(a, u) \in Int /\ AppliedBy(a, u) = OpenBy(a, u) + CallTimeout + Slack
            /\ OverBy(a, u) = AppliedBy(a, u)
        <4> HIDE DEF a, u
        <4> QED
          BY <2>1, <2>2, <2>4, PlainBounds
      <3>2. due <= OpenBy(a, u) \/ due <= AppliedBy(a, u) \/ due <= OverBy(a, u)
        BY <1>2, <2>4 DEF OnPace, StartSteps
      <3> HIDE DEF a, u
      <3> QED
        BY <1>0, <2>2, <3>1, <3>2, Durations DEF CallTimeout
    <2> QED
      BY <2>3, <2>4
  <1>3. CASE pc \in EndSteps \cup SweepSteps
    <2>1. /\ k \in 1..Len(Acts) /\ a.kind # KindStart
          /\ pc \in EndSteps => a.kind = KindEnd
      BY <1>3 DEF PcMatchesAction, KindStart, KindEnd, KindSweep
    <2>2. /\ u \in Int /\ a.at \in Int /\ HealedBy(a, u) <= Quiet
          /\ a.kind = KindEnd => a.op \in Ops
      BY <2>1, PacedFacts DEF KindEnd, KindSweep
    <2>3. /\ {WakeBy(a.at, u), HealedBy(a, u)} \subseteq Int
          /\ WakeBy(a.at, u) + CallTimeout + Slack <= HealedBy(a, u)
          /\ a.kind = KindEnd /\ Straddle(a.op) =>
               /\ HeldBy(a, u) \in Int
               /\ HealedBy(a, u) = HeldBy(a, u) + ProbeTimeout + Slack + CallTimeout + Slack
      <3> HIDE DEF a, u
      <3> QED
        BY <2>1, <2>2, HealBounds
    <2>4. \/ due <= WakeBy(a.at, u) \/ due <= HealedBy(a, u)
          \/ /\ a.kind = KindEnd /\ Straddle(a.op)
             /\ due <= HeldBy(a, u) \/ due <= HeldBy(a, u) + ProbeTimeout + Slack
      BY <1>3, <2>1 DEF OnPace, EndSteps, SweepSteps
    <2> HIDE DEF a, u
    <2> QED
      BY <1>0, <2>2, <2>3, <2>4, Durations DEF CallTimeout, ProbeTimeout
  <1>4. CASE pc = "repeering"
    <2>1. k \in 1..Len(Acts) /\ k # Len(Acts)
      BY <1>4 DEF PcMatchesAction, Finished
    <2>2. /\ OverBy(a, u) \in Int /\ reached[k+1] \in Int /\ OverBy(a, u) <= reached[k+1]
      BY <2>1, PacedFacts
    <2>3. reached[k+1] <= Quiet
      BY <2>1, ActsFacts DEF Paced
    <2> QED
      BY <1>0, <1>4, <2>2, <2>3, Durations DEF OnPace
  <1>5. CASE pc = "shutdownClear"
    BY <1>5 DEF OnPace
  <1> QED
    BY <1>1, <1>2, <1>3, <1>4, <1>5
       DEF TypeOK, PCs, Waits, Calls, Terminal, Finished, StartSteps, EndSteps, SweepSteps

LEMMA PaceInit ==
    ASSUME NEW reached, Paced(reached), Init
    PROVE  OnPace(reached) /\ KeptIsCurrent
  <1>1. now \in Int /\ due = now + Slack /\ pc = "boot" /\ now + Slack <= reached[1]
    BY BoundsAssumption DEF Init, Paced
  <1> QED
    BY <1>1, Durations DEF OnPace, Init, KeptIsCurrent

(* The owner's promises, one step at a time: what touches disruptoor is a  *)
(* split inside its window or a heal, time passes within the promises, and *)
(* every other step is the driver's own business. *)
LEMMA OwnerStep ==
    ASSUME NEW reached, Paced(reached), IInv, OnPace(reached), KeptIsCurrent, [Next]_vars
    PROVE  [Owner!Next]_(Owner!ownerVars)
  <1>0. TypeOK /\ PcMatchesAction /\ NoOp \notin applied /\ NoOp \notin Ops
    BY ScheduleAssumption DEF IInv, TypeOK
  <1> USE DEF Owner!Next, Owner!ownerVars
  <1>1. CASE PartitionOK \/ PartitionErr
    <2>1. /\ pc = "partitioning" /\ Op \in Ops /\ k \in 1..Len(Acts)
          /\ Acts[k].at = OpInfo[Op].start
      BY <1>0, <1>1, OpIsAnOp, SerialFacts
         DEF PartitionOK, PartitionErr, StartSteps, PcMatchesAction, Op
    <2>2. /\ OpInfo[Op].start <= now /\ now <= OpInfo[Op].end + StartLag
      <3>1. /\ Acts[k].at <= now /\ now <= due
            /\ due < OpInfo[Op].end + CallTimeout + Slack
        BY <2>1 DEF OnPace, Op
      <3>2. OpInfo[Op].end \in Int /\ now \in Int /\ due \in Int
        BY <1>0, <2>1, ScheduleAssumption DEF TypeOK
      <3>3. OpInfo[Op].start <= now
        BY <2>1, <3>1
      <3>4. now <= OpInfo[Op].end + StartLag
        BY <3>1, <3>2, Durations DEF StartLag, CallTimeout
      <3> QED
        BY <3>3, <3>4
    <2>3. UNCHANGED <<now, lastClear>> /\ Finished = FALSE /\ Finished' = FALSE
      <3>1. UNCHANGED <<now, lastClear>> /\ Finished = FALSE
        BY <1>1, <2>1 DEF PartitionOK, PartitionErr, Finished, Terminal
      <3>2. pc' \in {"writeWait", "endWait"}
        BY <1>0, <1>1, <2>1, AfterStart DEF PartitionOK, PartitionErr, WaitFor, StartSteps
      <3> QED
        BY <3>1, <3>2 DEF Finished, Terminal
    <2>4. net' = Op \/ (net' = net /\ applied' = applied)
      BY <1>1 DEF PartitionOK, PartitionErr
    <2>5. CASE net' = Op
      <3>1. Owner!Split(Op)
        <4>1. (net' \in applied') \in BOOLEAN
          OBVIOUS
        <4> QED
          BY <2>1, <2>2, <2>3, <2>5, <4>1 DEF Owner!Split
      <3> QED
        BY <2>1, <3>1 DEF Owner!Ops, Ops
    <2>6. CASE net' = net /\ applied' = applied
      BY <2>3, <2>6, Zenon
    <2> QED
      BY <2>4, <2>5, <2>6
  <1>2. CASE ClearOK \/ SweepOK \/ ClearErr \/ SweepErr \/ ShutdownCleared
    <2>1. Finished = FALSE /\ now' = now /\ applied' = applied /\ Finished' \in BOOLEAN
      BY <1>2 DEF ClearOK, SweepOK, ClearErr, SweepErr, ShutdownCleared, Finished, Terminal, books
    <2>2. \/ net' = NoOp /\ lastClear' = "ok"
          \/ (net' = NoOp \/ net' = net) /\ lastClear' = "failed"
      BY <1>2 DEF ClearOK, SweepOK, ClearErr, SweepErr, ShutdownCleared
    <2>3. net' = NoOp => (net' \in applied') = FALSE
      BY <1>0, <2>1
    <2>4. Owner!Heal \/ Owner!HealFails
      BY <2>1, <2>2, <2>3, Zenon DEF Owner!Heal, Owner!HealFails
    <2> QED
      BY <2>4
  <1>3. CASE Tick
    <2>1. /\ pc \notin Terminal /\ now' \in Int /\ now < now' /\ now' <= due /\ due \in Int
          /\ UNCHANGED <<pc, k, net, applied, lastClear>>
      BY <1>0, <1>3, Durations DEF Tick, TypeOK, books
    <2>2. net \in applied /\ lastClear = "ok" => now' <= Owner!Latest(net) + HealLag
      <3> SUFFICES ASSUME net \in applied, lastClear = "ok"
                   PROVE  now' <= Owner!Latest(net) + HealLag
        OBVIOUS
      <3>1. net \in Ops /\ HealBy(net) \in Int /\ Owner!Latest(net) = HealBy(net)
        BY <1>0, ScheduleAssumption DEF TypeOK, HealBy, Straddle, Owner!Latest
      <3>2. due <= HealBy(net) + HealLag
        <4>1. CASE pc = "shutdownClear"
          BY <4>1 DEF KeptIsCurrent
        <4>2. CASE pc # "shutdownClear"
          BY <1>0, <4>2, KeptIsOpen, OpenInTime DEF KeptIsCurrent
        <4> QED
          BY <4>1, <4>2
      <3> QED
        BY <2>1, <3>1, <3>2, Durations
    <2>3. Finished \/ now' <= Quiet
      BY <1>0, <2>1, UnfinishedInTime, Durations
    <2>4. Owner!Due(now')
      BY <2>2, <2>3 DEF Owner!Due
    <2>5. UNCHANGED <<net, net \in applied, lastClear, Finished>>
      BY <2>1 DEF Finished
    <2> QED
      BY <2>1, <2>4, <2>5 DEF Owner!Pass
  <1>a. ASSUME UNCHANGED <<now, net, applied, lastClear>>, Finished' = Finished
        PROVE  UNCHANGED Owner!ownerVars
    BY <1>a, Zenon
  <1>4. CASE SkipStale \/ Written \/ SkipUnapplied \/ Repeered
    <2>1. UNCHANGED <<now, net, applied, lastClear>> /\ Begin(k + 1)
      BY <1>4 DEF SkipStale, Written, SkipUnapplied, Repeered, books
    <2>2. /\ pc \in {"startWait", "writing", "endWait", "repeering"} /\ k \in 1..Len(Acts)
          /\ pc # "repeering" => Acts[k].kind # KindSweep
      BY <1>0, <1>4
         DEF SkipStale, Written, SkipUnapplied, Repeered, PcMatchesAction, StartSteps, EndSteps,
             KindStart, KindEnd, KindSweep
    <2>3. k' = k + 1 /\ k + 1 \in 1..(Len(Acts) + 1) /\ now \in Int
      BY <1>0, <2>1, <2>2, ActsFacts, AfterAny DEF TypeOK
    <2>4. CASE k = Len(Acts)
      <3>1. pc = "repeering"
        BY <2>2, <2>4, SerialFacts
      <3>2. pc' = "quietWait"
        BY <2>1, <2>3, <2>4, BeginFacts
      <3> QED
        BY <1>a, <2>1, <2>4, <3>1, <3>2 DEF Finished
    <2>5. CASE k # Len(Acts)
      <3>1. k + 1 \in 1..Len(Acts)
        BY <2>2, <2>5, ActsFacts
      <3>2. pc' \in {"deployWait", "startWait", "endWait", "sweepWait"}
        BY <2>1, <2>3, <3>1, BeginFacts, ActsFacts
      <3> QED
        BY <1>a, <2>1, <2>2, <2>5, <3>2 DEF Finished, Terminal
    <2> QED
      BY <2>4, <2>5
  <1>5. CASE Boot
    <2>1. Begin(1) /\ 1 \in 1..Len(Acts) /\ 1 \in 1..(Len(Acts) + 1) /\ now \in Int
      BY <1>0, <1>5, ActsFacts DEF Boot, TypeOK
    <2>2. pc' \in {"deployWait", "startWait", "endWait", "sweepWait"}
      BY <2>1, BeginFacts, ActsFacts
    <2>3. UNCHANGED <<now, net, applied, lastClear>> /\ pc = "boot"
      BY <1>5 DEF Boot, books
    <2> QED
      BY <1>a, <2>2, <2>3 DEF Finished, Terminal
  <1>6. CASE \/ DeployWaitEnds \/ StartWaitEnds \/ WriteWaitEnds \/ HoldSleepEnds \/ SweepWaitEnds
             \/ Shutdown \/ Deployed \/ EndWaitEnds \/ Probe
    <2>1. /\ UNCHANGED <<now, net, applied, lastClear>>
          /\ pc \in Waits \cup {"deploying", "probing"} /\ pc' \in (Waits \cup Calls) \ {"repeering"}
      BY <1>6
         DEF DeployWaitEnds, StartWaitEnds, WriteWaitEnds, HoldSleepEnds, SweepWaitEnds, Shutdown,
             Deployed, EndWaitEnds, Probe, Call, WaitFor, Waits, Calls, books
    <2> QED
      BY <1>a, <2>1 DEF Finished, Terminal, Waits, Calls
  <1>7. CASE ShutdownQuiet \/ Release \/ StopReleased
    <2>1. /\ UNCHANGED <<now, net, applied, lastClear>>
          /\ pc \in {"quietWait", "released"} /\ pc' \in Terminal
      BY <1>7 DEF ShutdownQuiet, Release, StopReleased, Terminal, books
    <2> QED
      BY <1>a, <2>1 DEF Finished, Terminal
  <1>8. CASE Exited \/ Signal \/ CrossFork \/ UNCHANGED vars
    <2>1. UNCHANGED <<now, pc, k, net, applied, lastClear>>
      BY <1>8 DEF Exited, Signal, CrossFork, vars, books
    <2> QED
      BY <1>a, <2>1 DEF Finished
  <1> QED
    BY <1>1, <1>2, <1>3, <1>4, <1>5, <1>6, <1>7, <1>8 DEF Next, DriverStep

(* A driver on a paced schedule does what the owner of disruptoor promises *)
(* the rest of the network, for every such schedule, every lateness inside *)
(* it and every pattern of failing calls: it splits inside an op's window  *)
(* only, heals in time unless a Clear failed, and is finished by Quiet     *)
(* (execute; the gate reads Quiet as the release). *)
THEOREM DriverImplementsOwner ==
  ASSUME NEW reached, Paced(reached) PROVE Spec => ImplementsOwner
  <1>1. Init => OnPace(reached) /\ KeptIsCurrent /\ Owner!Init
    <2>1. Init => now \in Int /\ Finished = FALSE /\ (net \in applied) = FALSE
      BY BoundsAssumption DEF Init, Finished, Terminal
    <2> QED
      BY <2>1, PaceInit DEF Init, Owner!Init
  <1>2. IInv /\ OnPace(reached) /\ KeptIsCurrent /\ [Next]_vars
          => OnPace(reached)' /\ KeptIsCurrent'
    BY PaceStep, KeptStep DEF IInv
  <1>3. IInv /\ OnPace(reached) /\ KeptIsCurrent /\ [Next]_vars
          => [Owner!Next]_(Owner!ownerVars)
    BY OwnerStep
  <1> QED
    BY <1>1, <1>2, <1>3, Inductive, PTL DEF Spec, ImplementsOwner, Owner!Spec

-----------------------------------------------------------------------------
(* After a heal that worked the network is whole, and an injecting         *)
(* straddle is approached from there. *)
Prepared ==
    /\ pc = "repeering" => net = NoOp \/ lastClear = "failed"
    /\ pc \in {"deployWait", "deploying"} => net = NoOp \/ lastClear = "failed"

LEMMA PreparedStep ==
    ASSUME NEW reached, Paced(reached), StraddleHasRoom(reached), IInv, OnPace(reached),
           Prepared, [Next]_vars
    PROVE  Prepared'
  <1>0. TypeOK /\ PcMatchesAction
    BY DEF IInv
  <1>a. ASSUME k' \in 1..Len(Acts), k' # 1, pc' = "deployWait"
        PROVE  Acts[k'-1].kind = KindSweep
    <2>1. OnPace(reached)' /\ PcMatchesAction'
      BY <1>0, PaceStep, TypeStep
    <2>2. Straddle(Acts[k'].op) /\ Acts[k'].kind = KindStart
      BY <1>a, <2>1 DEF OnPace, Injects, PcMatchesAction, StartSteps
    <2> QED
      BY <1>a, <2>2 DEF StraddleHasRoom
  <1>1. CASE SkipStale \/ Written \/ SkipUnapplied \/ Repeered
    <2>1. UNCHANGED <<net, lastClear>> /\ Begin(k + 1)
      BY <1>1 DEF SkipStale, Written, SkipUnapplied, Repeered, books
    <2>2. /\ pc \in {"startWait", "writing", "endWait", "repeering"} /\ k \in 1..Len(Acts)
          /\ pc # "repeering" => Acts[k].kind # KindSweep
      BY <1>0, <1>1
         DEF SkipStale, Written, SkipUnapplied, Repeered, PcMatchesAction, StartSteps, EndSteps,
             KindStart, KindEnd, KindSweep
    <2>3. k' = k + 1 /\ pc' \in BeginSteps /\ k + 1 # 1 /\ k' - 1 = k
      BY <1>0, <2>1, <2>2, AfterAny
    <2>4. pc' = "deployWait" => k' \in 1..Len(Acts)
      BY <1>0, TypeStep DEF PcMatchesAction, StartSteps
    <2>5. pc' = "deployWait" => pc = "repeering"
      BY <1>a, <2>2, <2>3, <2>4
    <2> QED
      BY <2>1, <2>3, <2>5 DEF Prepared, BeginSteps
  <1>2. CASE Boot
    <2>1. pc' \in BeginSteps
      BY <1>0, <1>2, ActsFacts, BeginFacts DEF Boot, TypeOK
    <2> QED
      BY <1>2, <2>1 DEF Boot, Prepared, BeginSteps, IInv, BootIsFresh
  <1>3. CASE PartitionOK \/ PartitionErr
    <2>1. pc' \in {"writeWait", "endWait"}
      BY <1>0, <1>3, AfterStart DEF PartitionOK, PartitionErr, WaitFor, StartSteps
    <2> QED
      BY <2>1 DEF Prepared
  <1>4. CASE ClearOK \/ SweepOK \/ ClearErr \/ SweepErr \/ ShutdownCleared
    <2>1. net' = NoOp \/ lastClear' = "failed"
      BY <1>4 DEF ClearOK, SweepOK, ClearErr, SweepErr, ShutdownCleared
    <2> QED
      BY <2>1 DEF Prepared
  <1>5. CASE \/ DeployWaitEnds \/ StartWaitEnds \/ WriteWaitEnds \/ HoldSleepEnds \/ SweepWaitEnds
             \/ Shutdown \/ Deployed \/ EndWaitEnds \/ Probe
    BY <1>5
       DEF DeployWaitEnds, StartWaitEnds, WriteWaitEnds, HoldSleepEnds, SweepWaitEnds, Shutdown,
           Deployed, EndWaitEnds, Probe, Call, WaitFor, Prepared, books
  <1>6. CASE ShutdownQuiet \/ Release \/ StopReleased
    BY <1>6 DEF ShutdownQuiet, Release, StopReleased, Prepared
  <1>7. CASE Exited \/ Tick \/ Signal \/ CrossFork \/ UNCHANGED vars
    BY <1>7 DEF Exited, Tick, Signal, CrossFork, vars, Prepared
  <1> QED
    BY <1>1, <1>2, <1>3, <1>4, <1>5, <1>6, <1>7 DEF Next, DriverStep

(* On a paced schedule that leaves its straddle room, the injector deploys *)
(* into a network that is whole unless a Clear failed, even where a PUT    *)
(* landed whose answer was lost, and a straddle that is opened is open     *)
(* straddleMinSide before the fork. *)
THEOREM StraddlesAreReady ==
  ASSUME NEW reached, Paced(reached), StraddleHasRoom(reached)
  PROVE  Spec => StraddleIsReady
  <1>1. IInv /\ OnPace(reached) /\ Prepared /\ [Next]_vars =>
          [/\ pc = "deploying" => net = NoOp \/ lastClear = "failed"
           /\ \A o \in applied' \ applied : Straddle(o) => now + 60 <= Fork]_vars
    <2> SUFFICES ASSUME IInv, OnPace(reached), [Next]_vars,
                        NEW o \in applied', o \notin applied, Straddle(o)
                 PROVE  now + 60 <= Fork
      BY DEF Prepared
    <2>0. TypeOK /\ PcMatchesAction
      BY DEF IInv
    <2>1. PartitionOK /\ o = Op
      <3>1. ~(Advance \/ Stay)
        BY DEF Advance, Stay
      <3>2. ~(PartitionErr \/ ClearOK \/ ClearErr \/ SweepOK \/ SweepErr \/ ShutdownCleared)
        BY DEF PartitionErr, ClearOK, ClearErr, SweepOK, SweepErr, ShutdownCleared, books
      <3> QED
        <4>1. PartitionOK
          BY <2>0, <3>1, <3>2, StepShape
        <4> QED
          BY <4>1 DEF PartitionOK
    <2>2. k \in 1..Len(Acts) /\ Acts[k].kind = KindStart
      BY <2>0, <2>1 DEF PartitionOK, PcMatchesAction, StartSteps
    <2>3. AppliedBy(Acts[k], reached[k]) + 60 <= Fork
      BY <2>1, <2>2 DEF StraddleHasRoom, Op
    <2>4. AppliedBy(Acts[k], reached[k]) \in Int
      BY <2>2, PacedFacts, InjectingBounds, PlainBounds
    <2>5. now <= due /\ due <= AppliedBy(Acts[k], reached[k]) /\ now \in Int /\ due \in Int
      BY <2>0, <2>1 DEF OnPace, PartitionOK, TypeOK
    <2> QED
      BY <2>3, <2>4, <2>5, Durations
  <1>2. Init => OnPace(reached) /\ Prepared
    BY PaceInit DEF Init, Prepared
  <1>3. IInv /\ OnPace(reached) /\ Prepared /\ [Next]_vars => OnPace(reached)' /\ Prepared'
    BY PaceStep, PreparedStep DEF IInv
  <1> QED
    BY <1>1, <1>2, <1>3, Inductive, PTL DEF Spec, StraddleIsReady

-----------------------------------------------------------------------------
(* The schedule.  SerialAssumption is what migsched resolves: the driver's *)
(* list is a finite set of actions in the order of actionBefore, and the   *)
(* position of each is the number of those before it. *)

(* How many elements of S come before x. *)
Rank(S, R, x) == Cardinality({y \in S : <<y, x>> \in R})

(* R orders S strictly and totally. *)
Orders(R, S) ==
    /\ \A x \in S : <<x, x>> \notin R
    /\ \A x, y \in S : x # y => <<x, y>> \in R \/ <<y, x>> \in R
    /\ \A x, y, z \in S : <<x, y>> \in R /\ <<y, z>> \in R => <<x, z>> \in R

LEMMA RankFacts ==
    ASSUME NEW S, IsFiniteSet(S), NEW R, Orders(R, S)
    PROVE  /\ Cardinality(S) \in Nat
           /\ \A x \in S : Rank(S, R, x) \in 0..(Cardinality(S) - 1)
           /\ \A x, y \in S : <<x, y>> \in R <=> Rank(S, R, x) < Rank(S, R, y)
           /\ \A i \in 1..Cardinality(S) : \E x \in S : Rank(S, R, x) = i - 1
  <1> DEFINE below(x) == {y \in S : <<y, x>> \in R}
             n == Cardinality(S)
             f == [x \in S |-> Rank(S, R, x)]
  <1>1. n \in Nat
    BY FS_CardinalityType
  <1>2. \A x \in S : IsFiniteSet(below(x)) /\ Cardinality(below(x)) \in Nat
    <2>1. \A x \in S : below(x) \in SUBSET S
      OBVIOUS
    <2> QED
      BY <2>1, FS_Subset, FS_CardinalityType
  <1>3. ASSUME NEW x \in S PROVE Cardinality(below(x)) < n
    <2>1. below(x) \in SUBSET S /\ x \notin below(x)
      BY DEF Orders
    <2>2. Cardinality(below(x)) <= n /\ (n = Cardinality(below(x)) => S = below(x))
      BY <2>1, FS_Subset
    <2> QED
      BY <2>1, <2>2, <1>1, <1>2
  <1>4. ASSUME NEW x \in S, NEW y \in S, <<x, y>> \in R
        PROVE  Cardinality(below(x)) < Cardinality(below(y))
    <2>1. below(x) \in SUBSET below(y)
      BY <1>4 DEF Orders
    <2>2. x \in below(y) /\ x \notin below(x)
      BY <1>4 DEF Orders
    <2>3. /\ Cardinality(below(x)) <= Cardinality(below(y))
          /\ Cardinality(below(y)) = Cardinality(below(x)) => below(y) = below(x)
      BY <2>1, <1>2, FS_Subset
    <2>4. below(x) # below(y)
      BY <2>2
    <2>5. Cardinality(below(x)) \in Nat /\ Cardinality(below(y)) \in Nat
      BY <1>2
    <2> HIDE DEF below
    <2> QED
      BY <2>3, <2>4, <2>5
  <1>5. \A x \in S : Rank(S, R, x) = Cardinality(below(x))
    BY DEF Rank
  <1>6. ASSUME NEW x \in S PROVE Rank(S, R, x) \in 0..(n - 1)
    <2>1. Rank(S, R, x) \in Nat /\ Rank(S, R, x) < n
      BY <1>2, <1>3, <1>5
    <2> QED
      BY <2>1, <1>1
  <1>7. \A x, y \in S : <<x, y>> \in R => Rank(S, R, x) < Rank(S, R, y)
    BY <1>4, <1>5
  <1>8. \A x, y \in S : Rank(S, R, x) < Rank(S, R, y) => <<x, y>> \in R
    <2>1. SUFFICES ASSUME NEW x \in S, NEW y \in S, Rank(S, R, x) < Rank(S, R, y), <<x, y>> \notin R
                   PROVE  FALSE
      OBVIOUS
    <2>2. x # y
      BY <2>1, <1>6
    <2>3. <<y, x>> \in R
      BY <2>1, <2>2 DEF Orders
    <2> QED
      BY <2>1, <2>3, <1>6, <1>7
  <1>9. f \in Injection(S, 0..(n - 1))
    <2>1. f \in [S -> 0..(n - 1)]
      BY <1>6
    <2>2. ASSUME NEW x \in S, NEW y \in S, f[x] = f[y] PROVE x = y
      <3>1. x # y => <<x, y>> \in R \/ <<y, x>> \in R
        BY DEF Orders
      <3>2. Rank(S, R, x) = Rank(S, R, y)
        BY <2>2
      <3> QED
        BY <3>1, <3>2, <1>6, <1>7
    <2> QED
      BY <2>1, <2>2 DEF Injection, IsInjective
  <1>10. IsFiniteSet(0..(n - 1)) /\ Cardinality(0..(n - 1)) = n
    <2> DEFINE m == n - 1
    <2>1. m \in Int /\ 0 \in Int /\ m - 0 + 1 = n /\ (0 > m => n = 0)
      BY <1>1
    <2> HIDE DEF m, f
    <2>2. IsFiniteSet(0..m) /\ Cardinality(0..m) = IF 0 > m THEN 0 ELSE m - 0 + 1
      BY <2>1, FS_Interval, Zenon
    <2> QED
      BY <2>1, <2>2 DEF m
  <1>11. f \in Surjection(S, 0..(n - 1))
    <2> HIDE DEF f
    <2> QED
      BY <1>9, <1>10, FS_Injection
  <1>12. ASSUME NEW i \in 1..n PROVE \E x \in S : Rank(S, R, x) = i - 1
    <2>1. i - 1 \in 0..(n - 1)
      BY <1>1
    <2> QED
      BY <2>1, <1>11 DEF Surjection
  <1> QED
    BY <1>1, <1>6, <1>7, <1>8, <1>12

LEMMA SameLength ==
    ASSUME NEW m \in Nat, NEW n \in Nat, 1..m = 1..n
    PROVE  m = n
  <1>1. m >= 1 => m \in 1..n
    BY m \in 1..m \/ m < 1
  <1>2. n >= 1 => n \in 1..m
    BY n \in 1..n \/ n < 1
  <1> QED
    BY <1>1, <1>2

Ordered(S, R) ==
    [i \in 1..Cardinality(S) |-> CHOOSE x \in S : Rank(S, R, x) = i - 1]

(* What SortedBy returns: the elements of a finite set, each once, in order. *)
LEMMA SortedFacts ==
    ASSUME NEW S, IsFiniteSet(S), NEW R, Orders(R, S)
    PROVE  LET list == Ordered(S, R) IN
           /\ Cardinality(S) \in Nat
           /\ list \in Seq(S) /\ Len(list) = Cardinality(S) /\ DOMAIN list = 1..Cardinality(S)
           /\ \A i \in DOMAIN list : list[i] \in S
           /\ \A x \in S : \E i \in DOMAIN list : list[i] = x
           /\ \A i, j \in DOMAIN list : i < j <=> <<list[i], list[j]>> \in R
  <1> DEFINE n == Cardinality(S)
             list == Ordered(S, R)
  <1>0. list = [i \in 1..n |-> CHOOSE x \in S : Rank(S, R, x) = i - 1]
    BY DEF Ordered
  <1> HIDE DEF list
  <1>1. n \in Nat /\ DOMAIN list = 1..n
    BY <1>0, RankFacts
  <1>2. ASSUME NEW i \in 1..n PROVE list[i] \in S /\ Rank(S, R, list[i]) = i - 1
    <2>1. list[i] = CHOOSE x \in S : Rank(S, R, x) = i - 1
      BY <1>0
    <2>2. \E x \in S : Rank(S, R, x) = i - 1
      BY RankFacts
    <2> QED
      BY <2>1, <2>2, Zenon
  <1>3. list \in Seq(S) /\ Len(list) = n
    <2>1. list \in [1..n -> S]
      BY <1>0, <1>2
    <2>2. list \in Seq(S)
      <3> HIDE DEF n
      <3> QED
        BY <1>1, <2>1, SeqDef
    <2>3. Len(list) \in Nat /\ DOMAIN list = 1..Len(list)
      BY <2>2, LenProperties
    <2>4. Len(list) = n
      <3> HIDE DEF n
      <3> QED
        BY <1>1, <2>3, SameLength
    <2> QED
      BY <2>2, <2>4
  <1>4. ASSUME NEW x \in S PROVE \E i \in DOMAIN list : list[i] = x
    <2>1. Rank(S, R, x) \in 0..(n - 1)
      BY RankFacts
    <2>2. PICK i \in 1..n : Rank(S, R, x) = i - 1
      <3>1. Rank(S, R, x) + 1 \in 1..n /\ Rank(S, R, x) = (Rank(S, R, x) + 1) - 1
        BY <2>1, <1>1
      <3> QED
        BY <3>1
    <2>3. list[i] \in S /\ Rank(S, R, list[i]) = Rank(S, R, x)
      BY <1>2, <2>2
    <2>4. list[i] = x
      <3>1. <<x, list[i]>> \notin R /\ <<list[i], x>> \notin R
        BY <2>1, <2>3, RankFacts
      <3> QED
        BY <2>3, <3>1 DEF Orders
    <2> QED
      BY <1>1, <2>4
  <1>5. ASSUME NEW i \in 1..n, NEW j \in 1..n PROVE i < j <=> <<list[i], list[j]>> \in R
    <2>1. list[i] \in S /\ Rank(S, R, list[i]) = i - 1 /\ list[j] \in S /\ Rank(S, R, list[j]) = j - 1
      BY <1>2
    <2>2. <<list[i], list[j]>> \in R <=> Rank(S, R, list[i]) < Rank(S, R, list[j])
      BY <2>1, RankFacts
    <2> QED
      BY <2>1, <2>2
  <1> QED
    BY <1>1, <1>2, <1>3, <1>4, <1>5 DEF list

-----------------------------------------------------------------------------
(* What the shipped profiles have in common: windows before the fork lie   *)
(* apart, and there is one straddle and at most one window after it.       *)
PreFork == {"deep", "short"}

Placed(w) ==
    /\ w.start \in Int /\ w.end \in Int /\ w.start < w.end
    /\ \/ w.class \in PreFork /\ w.anchor = "genesis" /\ w.start > 0
       \/ w.class = "straddle" /\ w.anchor = "fork" /\ w.start = -120 /\ w.end = 60
       \/ w.class = "window" /\ w.anchor = "fork" /\ w.start = 300 /\ w.end = 450

Apart(v, w) ==
    \/ v.class \in PreFork /\ w.class \notin PreFork
    \/ v.class \notin PreFork /\ w.class \in PreFork
    \/ v.class \notin PreFork /\ w.class \notin PreFork /\ v.class # w.class
    \/ v.end < w.start \/ w.end < v.start

Shape(ws) ==
    /\ IsFiniteSet(DOMAIN ws) /\ DOMAIN ws \in SUBSET (Nat \ {0})
    /\ \A i \in DOMAIN ws : Placed(ws[i])
    /\ \A i, j \in DOMAIN ws : i # j => Apart(ws[i], ws[j])

LEMMA ProfileShapes ==
    ASSUME NEW p \in DOMAIN profiles
    PROVE  Shape(profiles[p])
  <1>0. p = "composite" \/ p = "compositeSmoke"
    BY DEF profiles
  <1>1. CASE p = "composite"
    <2> DEFINE ws == profiles[p]
    <2>1. ws = << Window( 240, 430, "genesis", "deep"), Window( 540, 730, "genesis", "deep"),
                  Window( 790, 940, "genesis", "short"), Window(-120,  60, "fork",    "straddle"),
                  Window( 300, 450, "fork",    "window") >>
      BY <1>1 DEF profiles
    <2>2. DOMAIN ws = 1..5
      BY <2>1
    <2>3. /\ ws[1] = Window( 240, 430, "genesis", "deep")
          /\ ws[2] = Window( 540, 730, "genesis", "deep")
          /\ ws[3] = Window( 790, 940, "genesis", "short")
          /\ ws[4] = Window(-120,  60, "fork",    "straddle")
          /\ ws[5] = Window( 300, 450, "fork",    "window")
      BY <2>1
    <2>4. \A i \in 1..5 : i = 1 \/ i = 2 \/ i = 3 \/ i = 4 \/ i = 5
      OBVIOUS
    <2>5. IsFiniteSet(DOMAIN ws) /\ DOMAIN ws \in SUBSET (Nat \ {0})
      <3>1. IsFiniteSet(1..5)
        BY FS_Interval, 1 \in Int, 5 \in Int
      <3>2. 1..5 \in SUBSET (Nat \ {0})
        OBVIOUS
      <3> QED
        BY <3>1, <3>2, <2>2
    <2> HIDE DEF ws
    <2>6. Shape(ws)
      <3>1. /\ Placed(ws[1]) /\ Placed(ws[2]) /\ Placed(ws[3]) /\ Placed(ws[4]) /\ Placed(ws[5])
        BY <2>3 DEF Placed, Window, PreFork
      <3>2. /\ ws[1].class \in PreFork /\ ws[2].class \in PreFork /\ ws[3].class \in PreFork
            /\ ws[4].class \notin PreFork /\ ws[5].class \notin PreFork /\ ws[4].class # ws[5].class
            /\ ws[1].end < ws[2].start /\ ws[1].end < ws[3].start /\ ws[2].end < ws[3].start
        BY <2>3 DEF Window, PreFork
      <3>3. \A j \in 1..5 : /\ j # 1 => Apart(ws[1], ws[j])
                            /\ j # 2 => Apart(ws[2], ws[j])
                            /\ j # 3 => Apart(ws[3], ws[j])
                            /\ j # 4 => Apart(ws[4], ws[j])
                            /\ j # 5 => Apart(ws[5], ws[j])
        BY <2>4, <3>2 DEF Apart
      <3>4. \A i \in 1..5 : Placed(ws[i])
        BY <2>4, <3>1, Zenon
      <3>5. \A i, j \in 1..5 : i # j => Apart(ws[i], ws[j])
        <4> SUFFICES ASSUME NEW i \in 1..5, NEW j \in 1..5, i # j
                     PROVE  Apart(ws[i], ws[j])
          BY Zenon
        <4>1. CASE i = 1
          BY <3>3, <4>1
        <4>2. CASE i = 2
          BY <3>3, <4>2
        <4>3. CASE i = 3
          BY <3>3, <4>3
        <4>4. CASE i = 4
          BY <3>3, <4>4
        <4>5. CASE i = 5
          BY <3>3, <4>5
        <4> QED
          BY <2>4, <4>1, <4>2, <4>3, <4>4, <4>5, Zenon
      <3> QED
        BY <2>2, <2>5, <3>4, <3>5, Zenon DEF Shape
    <2> QED
      BY <2>6 DEF ws
  <1>2. CASE p = "compositeSmoke"
    <2> DEFINE ws == profiles[p]
    <2>1. ws = << Window( 220, 370, "genesis", "short"), Window(-120,  60, "fork",    "straddle") >>
      BY <1>2 DEF profiles
    <2>2. DOMAIN ws = 1..2
      BY <2>1
    <2>3. /\ ws[1] = Window( 220, 370, "genesis", "short")
          /\ ws[2] = Window(-120,  60, "fork",    "straddle")
      BY <2>1
    <2>4. \A i \in 1..2 : i = 1 \/ i = 2
      OBVIOUS
    <2>5. IsFiniteSet(DOMAIN ws) /\ DOMAIN ws \in SUBSET (Nat \ {0})
      <3>1. IsFiniteSet(1..2)
        BY FS_Interval, 1 \in Int, 2 \in Int, Zenon
      <3>2. 1..2 \in SUBSET (Nat \ {0})
        OBVIOUS
      <3> QED
        BY <3>1, <3>2, <2>2
    <2> HIDE DEF ws
    <2>6. Shape(ws)
      <3>1. Placed(ws[1]) /\ Placed(ws[2])
        BY <2>3 DEF Placed, Window, PreFork
      <3>2. Apart(ws[1], ws[2]) /\ Apart(ws[2], ws[1])
        BY <2>3 DEF Apart, Window, PreFork
      <3>3. \A i \in 1..2 : Placed(ws[i])
        BY <2>4, <3>1, Zenon
      <3>4. \A i, j \in 1..2 : i # j => Apart(ws[i], ws[j])
        BY <2>4, <3>2, Zenon
      <3> QED
        BY <2>2, <2>5, <3>3, <3>4, Zenon DEF Shape
    <2> QED
      BY <2>6 DEF ws
  <1> QED
    BY <1>0, <1>1, <1>2

LEMMA OpFields ==
    ASSUME NEW in, NEW i \in DOMAIN profiles[in.profile]
    PROVE  LET w    == profiles[in.profile][i]
               o    == resolveOps(in)[i]
               base == IF w.anchor = "fork" THEN in.gap ELSE 0
           IN  /\ DOMAIN resolveOps(in) = DOMAIN profiles[in.profile]
               /\ o.name = i /\ o.class = w.class
               /\ o.start = base + w.start /\ o.end = base + w.end
               /\ o.hold = IF w.class = "straddle" THEN base + w.end + straddleMaxHold ELSE NoTime
               /\ o.refused <=> refused(w.class, base + w.start, base + w.end, in)
  BY Zenon DEF resolveOps, resolveOp, refused

(* An op as Resolve returns it, by its class. *)
OpShape(o, gap) ==
    /\ o.start \in Int /\ o.end \in Int /\ o.hold \in Int /\ Latest(o) \in Int
    /\ o.start < o.end /\ o.end <= Latest(o)
    /\ \/ /\ o.class \in PreFork
          /\ o.hold = NoTime /\ Latest(o) = o.end
          /\ Admitted(o) => o.end <= gap - preForkMargin
       \/ /\ o.class = "straddle"
          /\ o.hold # NoTime /\ Admitted(o)
          /\ o.start = gap - 120 /\ o.end = gap + 60 /\ Latest(o) = gap + 180
       \/ /\ o.class = "window"
          /\ o.hold = NoTime /\ Admitted(o)
          /\ o.start = gap + 300 /\ o.end = gap + 450 /\ Latest(o) = gap + 450

LEMMA ResolvedOp ==
    ASSUME NEW in, in.gap \in Nat, in.profile \in DOMAIN profiles,
           NEW i \in DOMAIN profiles[in.profile]
    PROVE  /\ OpShape(resolveOps(in)[i], in.gap)
           /\ resolveOps(in)[i].name = i
           /\ resolveOps(in)[i].class = profiles[in.profile][i].class
  <1> DEFINE w == profiles[in.profile][i]
             o == resolveOps(in)[i]
             g == in.gap
  <1>1. /\ w.start \in Int /\ w.end \in Int /\ w.start < w.end
        /\ \/ w.class \in PreFork /\ w.anchor = "genesis" /\ w.start > 0
           \/ w.class = "straddle" /\ w.anchor = "fork" /\ w.start = -120 /\ w.end = 60
           \/ w.class = "window" /\ w.anchor = "fork" /\ w.start = 300 /\ w.end = 450
    BY ProfileShapes DEF Shape, Placed, Apart
  <1>2. /\ o.name = i /\ o.class = w.class
        /\ o.start = (IF w.anchor = "fork" THEN g ELSE 0) + w.start
        /\ o.end = (IF w.anchor = "fork" THEN g ELSE 0) + w.end
        /\ o.hold = IF w.class = "straddle" THEN (IF w.anchor = "fork" THEN g ELSE 0) + w.end + straddleMaxHold
                                            ELSE NoTime
        /\ o.refused <=> /\ w.class \in {"deep", "short"}
                         /\ (IF w.anchor = "fork" THEN g ELSE 0) + w.end > deadlineOf(in)
    BY OpFields DEF refused
  <1>3. deadlineOf(in) = g - 390 /\ preForkMargin = 390 /\ straddleMaxHold = 120 /\ NoTime = -1000000
    BY DEF deadlineOf, preForkMargin, straddleMaxHold, NoTime
  <1>4. /\ Latest(o) = IF o.hold = NoTime THEN o.end ELSE o.hold
        /\ Admitted(o) <=> ~o.refused
    BY DEF Latest, Admitted
  <1> HIDE DEF o, w, g
  <1>g. g \in Nat
    BY DEF g
  <1>5. CASE w.class \in PreFork
    <2>1. w.anchor = "genesis" /\ w.class # "straddle" /\ w.class \in {"deep", "short"}
      BY <1>1, <1>5 DEF PreFork
    <2>2. o.start = w.start /\ o.end = w.end /\ o.hold = NoTime /\ Latest(o) = w.end
      BY <2>1, <1>1, <1>2, <1>4
    <2>3. Admitted(o) => o.end <= g - preForkMargin
      BY <2>1, <2>2, <1>1, <1>2, <1>3, <1>4, <1>g
    <2> QED
      BY <2>1, <2>2, <2>3, <1>1, <1>2, <1>3, <1>5 DEF OpShape, o, g, w
  <1>6. CASE w.class = "straddle"
    <2>1. o.start = g - 120 /\ o.end = g + 60 /\ o.hold = g + 180
      BY <1>1, <1>2, <1>3, <1>6, <1>g DEF PreFork
    <2>2. o.hold # NoTime /\ Latest(o) = g + 180 /\ Admitted(o)
      BY <2>1, <1>2, <1>3, <1>4, <1>6, <1>g
    <2> QED
      BY <2>1, <2>2, <1>2, <1>6, <1>g DEF OpShape, o, g, w
  <1>7. CASE w.class = "window"
    <2>1. o.start = g + 300 /\ o.end = g + 450 /\ o.hold = NoTime
      BY <1>1, <1>2, <1>3, <1>7, <1>g DEF PreFork
    <2>2. Latest(o) = g + 450 /\ Admitted(o)
      BY <2>1, <1>2, <1>3, <1>4, <1>7, <1>g
    <2> QED
      BY <2>1, <2>2, <1>2, <1>3, <1>7, <1>g DEF OpShape, o, g, w
  <1> QED
    BY <1>1, <1>5, <1>6, <1>7

(* Admitted ops lie apart, their hold included. *)
LEMMA OpsLieApart ==
    ASSUME NEW in, in.gap \in Nat, in.profile \in DOMAIN profiles,
           NEW o \in Range(resolveOps(in)), NEW p \in Range(resolveOps(in)),
           Admitted(o), Admitted(p), o # p
    PROVE  Latest(o) < p.start \/ Latest(p) < o.start
  <1> DEFINE ws == profiles[in.profile]
             ops == resolveOps(in)
  <1>1. DOMAIN ops = DOMAIN ws
    BY DEF resolveOps
  <1>2. PICK i \in DOMAIN ws, j \in DOMAIN ws : o = ops[i] /\ p = ops[j] /\ i # j
    BY <1>1 DEF Range
  <1>3. OpShape(o, in.gap) /\ OpShape(p, in.gap) /\ o.class = ws[i].class /\ p.class = ws[j].class
    BY <1>2, ResolvedOp
  <1>4. \/ ws[i].class \in PreFork /\ ws[j].class \notin PreFork
        \/ ws[i].class \notin PreFork /\ ws[j].class \in PreFork
        \/ ws[i].class \notin PreFork /\ ws[j].class \notin PreFork /\ ws[i].class # ws[j].class
        \/ ws[i].end < ws[j].start \/ ws[j].end < ws[i].start
    BY <1>2, ProfileShapes DEF Shape, Placed, Apart
  <1>5. CASE o.class \in PreFork /\ p.class \notin PreFork
    BY <1>3, <1>5 DEF OpShape, PreFork, preForkMargin
  <1>6. CASE o.class \notin PreFork /\ p.class \in PreFork
    BY <1>3, <1>6 DEF OpShape, PreFork, preForkMargin
  <1>7. CASE o.class \notin PreFork /\ p.class \notin PreFork
    <2>1. o.class # p.class
      <3>2. ws[i].class = ws[j].class /\ ws[i].class \notin PreFork => ws[i].start = ws[j].start /\ ws[i].end = ws[j].end
        BY <1>2, ProfileShapes DEF Shape, Placed, Apart, PreFork
      <3>1. ws[i].start \in Int /\ ws[i].end \in Int /\ ws[i].start < ws[i].end
        BY <1>2, ProfileShapes DEF Shape, Placed, Apart
      <3> QED
        BY <3>1, <3>2, <1>3, <1>4, <1>7
    <2> QED
      BY <2>1, <1>3, <1>7 DEF OpShape, PreFork
  <1>8. CASE o.class \in PreFork /\ p.class \in PreFork
    <2>1. ws[i].end < ws[j].start \/ ws[j].end < ws[i].start
      BY <1>3, <1>4, <1>8
    <2>2. /\ ws[i].anchor = "genesis" /\ ws[j].anchor = "genesis"
          /\ ws[i].start \in Int /\ ws[i].end \in Int /\ ws[j].start \in Int /\ ws[j].end \in Int
      BY <1>2, <1>3, <1>8, ProfileShapes DEF Shape, Placed, Apart, PreFork
    <2>3. o.start = ws[i].start /\ o.end = ws[i].end /\ p.start = ws[j].start /\ p.end = ws[j].end
      BY <1>2, <2>2, OpFields
    <2>4. Latest(o) = o.end /\ Latest(p) = p.end
      BY <1>3, <1>8 DEF OpShape, PreFork
    <2> QED
      BY <2>1, <2>3, <2>4
  <1> QED
    BY <1>5, <1>6, <1>7, <1>8

LEMMA InRange ==
    ASSUME NEW s, NEW x \in Range(s)
    PROVE  \E i \in DOMAIN s : x = s[i]
  BY DEF Range

LEMMA FiniteRange ==
    ASSUME NEW f, IsFiniteSet(DOMAIN f), f = [x \in DOMAIN f |-> f[x]]
    PROVE  IsFiniteSet(Range(f))
  <1>1. f \in Surjection(DOMAIN f, Range(f))
    BY DEF Surjection, Range
  <1> QED
    BY <1>1, FS_Surjection

(* The order of the instants of S. *)
Earlier(S) == {q \in S \X S : q[1] < q[2]}

LEMMA EarlierOrders ==
    ASSUME NEW S \in SUBSET Int
    PROVE  /\ \A x, y \in S : <<x, y>> \in Earlier(S) <=> x < y
           /\ Orders(Earlier(S), S)
  <1>1. \A x, y \in S : <<x, y>> \in Earlier(S) <=> x < y
    BY DEF Earlier
  <1>2. /\ \A x \in S : ~(x < x)
        /\ \A x, y \in S : x # y => x < y \/ y < x
        /\ \A x, y, z \in S : x < y /\ y < z => x < z
    OBVIOUS
  <1> HIDE DEF Earlier
  <1> QED
    BY <1>1, <1>2, Zenon DEF Orders

(* SortedBy(S, <) lists the instants of S, each once. *)
LEMMA SortedOnce ==
    ASSUME NEW S \in SUBSET Int, IsFiniteSet(S)
    PROVE  LET list == SortedBy(S, <) IN
           /\ Cardinality(S) \in Nat /\ list \in Seq(S) /\ Len(list) = Cardinality(S)
           /\ DOMAIN list = 1..Cardinality(S)
           /\ \A i \in DOMAIN list : list[i] \in S
           /\ \A x \in S : \E i \in DOMAIN list : list[i] = x
           /\ \A i, j \in DOMAIN list : i # j => list[i] # list[j]
           /\ \A i, j \in DOMAIN list : i < j => list[i] < list[j]
  <1> DEFINE list == SortedBy(S, <)
  <1>1. list = [i \in 1..Cardinality(S) |-> CHOOSE x \in S : Cardinality({y \in S : y < x}) = i - 1]
    BY DEF SortedBy
  <1>2. \A x \in S : Rank(S, Earlier(S), x) = Cardinality({y \in S : y < x})
    <2>1. \A x \in S : {y \in S : <<y, x>> \in Earlier(S)} = {y \in S : y < x}
      BY EarlierOrders
    <2> QED
      BY <2>1 DEF Rank
  <1>3. \A i \in 1..Cardinality(S) :
           (CHOOSE x \in S : Cardinality({y \in S : y < x}) = i - 1)
             = CHOOSE x \in S : Rank(S, Earlier(S), x) = i - 1
    BY <1>2
  <1>4. list = Ordered(S, Earlier(S))
    BY <1>1, <1>3 DEF Ordered
  <1> HIDE DEF list
  <1>5. /\ Cardinality(S) \in Nat
        /\ list \in Seq(S) /\ Len(list) = Cardinality(S) /\ DOMAIN list = 1..Cardinality(S)
        /\ \A i \in DOMAIN list : list[i] \in S
        /\ \A x \in S : \E i \in DOMAIN list : list[i] = x
        /\ \A i, j \in DOMAIN list : i < j <=> <<list[i], list[j]>> \in Earlier(S)
    BY <1>4, EarlierOrders, SortedFacts
  <1>6. \A i, j \in DOMAIN list : i < j => list[i] < list[j]
    BY <1>5, EarlierOrders
  <1>7. ASSUME NEW i \in DOMAIN list, NEW j \in DOMAIN list, i # j PROVE list[i] # list[j]
    <2>1. i < j \/ j < i
      BY <1>5, <1>7
    <2>2. list[i] \in Int /\ list[j] \in Int
      BY <1>5
    <2> QED
      BY <2>1, <2>2, <1>6
  <1> QED
    BY <1>5, <1>6, <1>7 DEF list

LEMMA SortedInstants ==
    ASSUME NEW S \in SUBSET Int, IsFiniteSet(S)
    PROVE  Range(SortedBy(S, <)) = S
  <1> DEFINE list == SortedBy(S, <)
  <1>1. /\ \A i \in DOMAIN list : list[i] \in S
        /\ \A x \in S : \E i \in DOMAIN list : list[i] = x
    BY SortedOnce
  <1> HIDE DEF list
  <1>2. Range(list) = S
    BY <1>1 DEF Range
  <1> QED
    BY <1>2 DEF list

LEMMA MaxOfInstants ==
    ASSUME NEW S \in SUBSET Int, IsFiniteSet(S), S # {}
    PROVE  Max(S) \in S /\ \A x \in S : x <= Max(S)
  <1> DEFINE n == Cardinality(S)
  <1>1. n \in Nat /\ n >= 1
    BY FS_CardinalityType, FS_EmptySet
  <1>2. PICK m \in S : Rank(S, Earlier(S), m) = n - 1
    <2>1. n \in 1..n
      BY <1>1
    <2> QED
      BY <2>1, EarlierOrders, RankFacts
  <1>3. ASSUME NEW x \in S PROVE m >= x
    <2>1. ~(Rank(S, Earlier(S), m) < Rank(S, Earlier(S), x))
      <3>1. Rank(S, Earlier(S), x) \in 0..(n - 1)
        BY EarlierOrders, RankFacts
      <3> QED
        BY <3>1, <1>1, <1>2
    <2>2. ~(m < x)
      BY <2>1, EarlierOrders, RankFacts
    <2> QED
      BY <2>2
  <1>4. Max(S) \in S /\ \A y \in S : Max(S) >= y
    <2>1. \E x \in S : \A y \in S : x >= y
      BY <1>3
    <2> QED
      BY <2>1, Zenon DEF Max
  <1> QED
    BY <1>4

-----------------------------------------------------------------------------
(* The failsafe sweeps of a resolved input. *)
OpSweeps(in) == UNION {sweepsOfOp(o) : o \in Range(resolveOps(in))}

SweepSet(in) == OpSweeps(in) \cup preForkSweeps(resolveOps(in), deadlineOf(in))

LEMMA OpsAreFinite ==
    ASSUME NEW in, in.profile \in DOMAIN profiles
    PROVE  /\ IsFiniteSet(DOMAIN resolveOps(in))
           /\ resolveOps(in) = [i \in DOMAIN resolveOps(in) |-> resolveOps(in)[i]]
           /\ IsFiniteSet(Range(resolveOps(in)))
  <1>1. DOMAIN resolveOps(in) = DOMAIN profiles[in.profile]
    BY DEF resolveOps
  <1>2. resolveOps(in) = [i \in DOMAIN resolveOps(in) |-> resolveOps(in)[i]]
    BY DEF resolveOps
  <1>3. IsFiniteSet(DOMAIN resolveOps(in))
    BY <1>1, ProfileShapes DEF Shape, Placed, Apart
  <1> QED
    BY <1>2, <1>3, FiniteRange

LEMMA RangeShapes ==
    ASSUME NEW in, in.gap \in Nat, in.profile \in DOMAIN profiles,
           NEW o \in Range(resolveOps(in))
    PROVE  /\ OpShape(o, in.gap)
           /\ o.name \in DOMAIN resolveOps(in) /\ resolveOps(in)[o.name] = o
  <1>1. DOMAIN resolveOps(in) = DOMAIN profiles[in.profile]
    BY DEF resolveOps
  <1>2. PICK i \in DOMAIN profiles[in.profile] : o = resolveOps(in)[i]
    BY <1>1 DEF Range
  <1> QED
    BY <1>1, <1>2, ResolvedOp

(* The latest end of an admitted op before the fork. *)
PreEnds(in) ==
    {NoTime} \cup {o.end : o \in {p \in preOps(resolveOps(in)) : Admitted(p)}}

Quiets(in) ==
    {deadlineOf(in)} \cup {Latest(o) + quietTail : o \in Range(resolveOps(in)) \ preOps(resolveOps(in))}

LEMMA MaximaExist ==
    ASSUME NEW in, in.gap \in Nat, in.profile \in DOMAIN profiles
    PROVE  /\ lastPre(resolveOps(in)) \in PreEnds(in) /\ lastPre(resolveOps(in)) \in Int
           /\ quietOf(resolveOps(in), deadlineOf(in)) \in Int
           /\ \A q \in Quiets(in) : q <= quietOf(resolveOps(in), deadlineOf(in))
  <1> DEFINE ops == resolveOps(in)
             S == {p \in preOps(ops) : Admitted(p)}
             T == Range(ops) \ preOps(ops)
             e == [o \in S |-> o.end]
             l == [o \in T |-> Latest(o) + quietTail]
  <1>1. S \in SUBSET Range(ops) /\ T \in SUBSET Range(ops)
    BY DEF preOps
  <1>2. IsFiniteSet(S) /\ IsFiniteSet(T)
    BY <1>1, OpsAreFinite, FS_Subset
  <1>3. IsFiniteSet(Range(e)) /\ Range(e) = {o.end : o \in S}
    <2>1. DOMAIN e = S /\ e = [x \in DOMAIN e |-> e[x]]
      OBVIOUS
    <2>2. IsFiniteSet(Range(e))
      <3> HIDE DEF e
      <3> QED
        BY <2>1, <1>2, FiniteRange
    <2> QED
      BY <2>2 DEF Range
  <1>4. IsFiniteSet(Range(l)) /\ Range(l) = {Latest(o) + quietTail : o \in T}
    <2>1. DOMAIN l = T /\ l = [x \in DOMAIN l |-> l[x]]
      OBVIOUS
    <2>2. IsFiniteSet(Range(l))
      <3> HIDE DEF l
      <3> QED
        BY <2>1, <1>2, FiniteRange
    <2> QED
      BY <2>2 DEF Range
  <1>5. PreEnds(in) = Range(e) \cup {NoTime} /\ Quiets(in) = Range(l) \cup {deadlineOf(in)}
    BY <1>3, <1>4 DEF PreEnds, Quiets
  <1>6. IsFiniteSet(PreEnds(in)) /\ IsFiniteSet(Quiets(in))
    <2>1. IsFiniteSet(Range(e) \cup {NoTime}) /\ IsFiniteSet(Range(l) \cup {deadlineOf(in)})
      <3> HIDE DEF e, l
      <3> QED
        BY <1>3, <1>4, FS_AddElement
    <2> QED
      BY <2>1, <1>5
  <1>7. \A o \in Range(ops) : o.end \in Int /\ Latest(o) \in Int
    BY RangeShapes DEF OpShape
  <1>8. NoTime \in Int /\ deadlineOf(in) \in Int /\ quietTail \in Int
    BY DEF NoTime, deadlineOf, preForkMargin, quietTail
  <1>9. PreEnds(in) \in SUBSET Int /\ Quiets(in) \in SUBSET Int
    BY <1>1, <1>7, <1>8 DEF PreEnds, Quiets
  <1>10. PreEnds(in) # {} /\ Quiets(in) # {}
    BY DEF PreEnds, Quiets
  <1>11. lastPre(ops) = Max(PreEnds(in)) /\ quietOf(ops, deadlineOf(in)) = Max(Quiets(in))
    BY DEF lastPre, quietOf, PreEnds, Quiets
  <1>12. Max(PreEnds(in)) \in PreEnds(in)
    BY <1>6, <1>9, <1>10, MaxOfInstants
  <1>13. Max(Quiets(in)) \in Quiets(in) /\ \A q \in Quiets(in) : q <= Max(Quiets(in))
    BY <1>6, <1>9, <1>10, MaxOfInstants
  <1> QED
    BY <1>9, <1>11, <1>12, <1>13

LEMMA SweepsOfOps ==
    ASSUME NEW in, in.gap \in Nat, in.profile \in DOMAIN profiles,
           NEW o \in Range(resolveOps(in))
    PROVE  /\ IsFiniteSet(sweepsOfOp(o)) /\ sweepsOfOp(o) \in SUBSET Int
           /\ o.class \in PreFork => sweepsOfOp(o) = {}
           /\ o.class \notin PreFork => \E f \in sweepsOfOp(o) : f >= Latest(o)
           /\ \A f \in sweepsOfOp(o) : f <= Latest(o) + quietTail
  <1>1. OpShape(o, in.gap)
    BY RangeShapes
  <1>2. CASE o.class \in PreFork
    <2>1. o.class # "straddle" /\ o.class # "window"
      BY <1>2 DEF PreFork
    <2>2. sweepsOfOp(o) = {}
      BY <2>1 DEF sweepsOfOp
    <2> QED
      BY <2>2, <1>2, FS_EmptySet
  <1>3. CASE o.class = "straddle"
    <2>1. sweepsOfOp(o) = {Latest(o)} \cup {Latest(o) + 60}
      BY <1>3 DEF sweepsOfOp, failsafeRepeat
    <2>2. IsFiniteSet(sweepsOfOp(o))
      <3>1. IsFiniteSet({Latest(o)})
        BY FS_Singleton
      <3>2. IsFiniteSet({Latest(o)} \cup {Latest(o) + 60})
        BY <3>1, FS_AddElement
      <3> QED
        BY <3>2, <2>1
    <2>3. Latest(o) \in Int
      BY <1>1 DEF OpShape
    <2> QED
      BY <2>1, <2>2, <2>3, <1>3 DEF PreFork, quietTail
  <1>4. CASE o.class = "window"
    <2>0. Latest(o) = o.end /\ o.end \in Int
      BY <1>1, <1>4 DEF OpShape, PreFork
    <2>1. sweepsOfOp(o) = {Latest(o) + 60}
      BY <2>0, <1>4 DEF sweepsOfOp, failsafeRepeat
    <2>2. IsFiniteSet(sweepsOfOp(o))
      BY <2>1, FS_Singleton
    <2> QED
      BY <2>0, <2>1, <2>2, <1>4 DEF PreFork, quietTail
  <1> QED
    BY <1>1, <1>2, <1>3, <1>4 DEF OpShape

LEMMA SweepSetFacts ==
    ASSUME NEW in, in.gap \in Nat, in.profile \in DOMAIN profiles
    PROVE  /\ IsFiniteSet(SweepSet(in)) /\ SweepSet(in) \in SUBSET Int
           /\ failsafes(resolveOps(in), deadlineOf(in)) = SortedBy(SweepSet(in), <)
           /\ Range(failsafes(resolveOps(in), deadlineOf(in))) = SweepSet(in)
  <1> DEFINE ops == resolveOps(in)
             d == deadlineOf(in)
             g == [o \in Range(ops) |-> sweepsOfOp(o)]
  <1>0. d \in Int
    BY DEF deadlineOf, preForkMargin
  <1>1. Range(g) = {sweepsOfOp(o) : o \in Range(ops)}
    BY DEF Range
  <1>2. IsFiniteSet(Range(g))
    <2>1. DOMAIN g = Range(ops) /\ g = [x \in DOMAIN g |-> g[x]]
      OBVIOUS
    <2> HIDE DEF g
    <2> QED
      BY <2>1, OpsAreFinite, FiniteRange
  <1>3. IsFiniteSet(OpSweeps(in))
    <2>1. \A T \in {sweepsOfOp(o) : o \in Range(ops)} : IsFiniteSet(T)
      BY SweepsOfOps
    <2> QED
      BY <2>1, <1>1, <1>2, FS_UNION DEF OpSweeps
  <1>4. OpSweeps(in) \in SUBSET Int
    BY SweepsOfOps DEF OpSweeps
  <1>5. IsFiniteSet(preForkSweeps(ops, d)) /\ preForkSweeps(ops, d) \in SUBSET Int
    <2>1. preForkSweeps(ops, d) = {d} \/ preForkSweeps(ops, d) = {d} \cup {lastPre(ops)}
      BY DEF preForkSweeps
    <2>2. IsFiniteSet({d}) /\ IsFiniteSet({d} \cup {lastPre(ops)})
      BY FS_Singleton, FS_AddElement
    <2> QED
      BY <2>1, <2>2, <1>0, MaximaExist
  <1>6. SweepSet(in) = OpSweeps(in) \cup preForkSweeps(ops, d)
    BY DEF SweepSet
  <1>7. IsFiniteSet(SweepSet(in)) /\ SweepSet(in) \in SUBSET Int
    <2> HIDE DEF ops, d
    <2>1. IsFiniteSet(SweepSet(in))
      BY <1>3, <1>5, <1>6, FS_Union
    <2> QED
      BY <2>1, <1>4, <1>5, <1>6
  <1>8. failsafes(ops, d) = SortedBy(SweepSet(in), <)
    BY DEF failsafes, SweepSet, OpSweeps
  <1>9. Range(failsafes(ops, d)) = SweepSet(in)
    BY <1>7, <1>8, SortedInstants
  <1> QED
    BY <1>7, <1>8, <1>9

(* Every admitted op is swept, and nothing is swept past quiet. *)
LEMMA OpsHaveSweeps ==
    ASSUME NEW in, in.gap \in Nat, in.profile \in DOMAIN profiles
    PROVE  LET q == quietOf(resolveOps(in), deadlineOf(in)) IN
           /\ \A o \in Range(resolveOps(in)) : Admitted(o) =>
                /\ \E f \in SweepSet(in) : /\ f >= Latest(o)
                                           /\ o.class \in PreFork => f <= in.gap - preForkMargin
                /\ Latest(o) <= q
           /\ \A f \in SweepSet(in) : f <= q
  <1> DEFINE ops == resolveOps(in)
             d == deadlineOf(in)
             q == quietOf(ops, d)
  <1>0. d \in Int /\ d = in.gap - preForkMargin /\ quietTail = 120
    BY DEF deadlineOf, preForkMargin, quietTail
  <1>1. d \in SweepSet(in) /\ d \in Quiets(in) /\ d <= q /\ q \in Int
    <2>1. d \in SweepSet(in) /\ d \in Quiets(in)
      <3>1. d \in preForkSweeps(ops, d)
        BY DEF preForkSweeps
      <3>2. d \in Quiets(in)
        BY DEF Quiets
      <3> QED
        BY <3>1, <3>2 DEF SweepSet
    <2> QED
      BY <2>1, MaximaExist
  <1>2. ASSUME NEW o \in Range(ops), o.class \notin PreFork
        PROVE  Latest(o) + quietTail <= q
    <2>1. o \notin preOps(ops)
      BY <1>2 DEF preOps, PreFork
    <2>2. Latest(o) + quietTail \in Quiets(in)
      BY <2>1 DEF Quiets
    <2> QED
      BY <2>2, MaximaExist
  <1>3. ASSUME NEW o \in Range(ops), Admitted(o)
        PROVE  /\ \E f \in SweepSet(in) : /\ f >= Latest(o)
                                          /\ o.class \in PreFork => f <= in.gap - preForkMargin
               /\ Latest(o) <= q
    <2>1. OpShape(o, in.gap)
      BY RangeShapes
    <2>2. CASE o.class \in PreFork
      <3>1. Latest(o) <= d /\ Latest(o) \in Int
        BY <2>1, <2>2, <1>0, <1>3 DEF OpShape, PreFork
      <3> QED
        BY <3>1, <1>0, <1>1
    <2>3. CASE o.class \notin PreFork
      <3>1. PICK f \in sweepsOfOp(o) : f >= Latest(o)
        BY <2>3, SweepsOfOps
      <3>2. f \in SweepSet(in)
        BY <3>1 DEF SweepSet, OpSweeps
      <3>3. Latest(o) <= q
        <4>1. Latest(o) \in Int
          BY <2>1 DEF OpShape
        <4> QED
          BY <4>1, <2>3, <1>0, <1>1, <1>2
      <3> QED
        BY <3>1, <3>2, <3>3, <2>3
    <2> QED
      BY <2>2, <2>3
  <1>4. ASSUME NEW f \in SweepSet(in) PROVE f <= q
    <2>1. CASE f \in preForkSweeps(ops, d)
      <3>1. f <= d /\ f \in Int
        BY <2>1, <1>0, MaximaExist DEF preForkSweeps
      <3> QED
        BY <3>1, <1>0, <1>1
    <2>2. CASE f \in OpSweeps(in)
      <3>1. PICK o \in Range(ops) : f \in sweepsOfOp(o)
        BY <2>2 DEF OpSweeps
      <3>2. o.class \notin PreFork /\ f <= Latest(o) + quietTail /\ f \in Int
        BY <3>1, SweepsOfOps
      <3>3. Latest(o) + quietTail <= q /\ Latest(o) \in Int
        BY <3>2, <1>2, RangeShapes DEF OpShape
      <3> QED
        BY <3>2, <3>3, <1>0, <1>1
    <2>3. f \in OpSweeps(in) \/ f \in preForkSweeps(ops, d)
      BY <1>4 DEF SweepSet
    <2> QED
      BY <2>1, <2>2, <2>3
  <1> QED
    BY <1>3, <1>4

-----------------------------------------------------------------------------
(* The actions of a resolved input. *)
Start(o) == [kind |-> ActOpStart, at |-> o.start, op |-> o.name]
End(o)   == [kind |-> ActOpEnd,   at |-> o.end,   op |-> o.name]
Sweep(f) == [kind |-> ActSweep,   at |-> f,       op |-> SweepOp]

Chosen(in) == admittedOps(Resolve(in))

ActionSet(in) ==
    (UNION {{Start(o), End(o)} : o \in Chosen(in)}) \cup {Sweep(f) : f \in SweepSet(in)}

LEMMA ChosenFacts ==
    ASSUME NEW in
    PROVE  Chosen(in) = {o \in Range(resolveOps(in)) : Admitted(o)}
  BY DEF Chosen, admittedOps, Resolve

LEMMA ActionForms ==
    ASSUME NEW in, NEW a
    PROVE  a \in ActionSet(in) <=> \/ (\E o \in Chosen(in) : a = Start(o))
                                   \/ (\E o \in Chosen(in) : a = End(o))
                                   \/ (\E f \in SweepSet(in) : a = Sweep(f))
  <1> DEFINE B == UNION {{Start(o), End(o)} : o \in Chosen(in)}
             C == {Sweep(f) : f \in SweepSet(in)}
  <1>1. a \in ActionSet(in) <=> a \in B \/ a \in C
    BY DEF ActionSet
  <1>2. a \in B <=> \E o \in Chosen(in) : a = Start(o) \/ a = End(o)
    OBVIOUS
  <1>3. a \in C <=> \E f \in SweepSet(in) : a = Sweep(f)
    OBVIOUS
  <1>4. a \in B <=> (\E o \in Chosen(in) : a = Start(o)) \/ (\E o \in Chosen(in) : a = End(o))
    BY <1>2, Zenon
  <1> QED
    <2> DEFINE S == \E o \in Chosen(in) : a = Start(o)
               E == \E o \in Chosen(in) : a = End(o)
               F == \E f \in SweepSet(in) : a = Sweep(f)
    <2>1. (a \in B <=> S \/ E) /\ (a \in C <=> F)
      BY <1>3, <1>4
    <2> HIDE DEF S, E, F, B, C
    <2>2. a \in ActionSet(in) <=> S \/ E \/ F
      BY <2>1, <1>1
    <2> QED
      BY <2>2 DEF S, E, F

LEMMA ActionsFinite ==
    ASSUME NEW in, in.gap \in Nat, in.profile \in DOMAIN profiles
    PROVE  IsFiniteSet(ActionSet(in))
  <1> DEFINE b == [o \in Chosen(in) |-> {Start(o), End(o)}]
             c == [f \in SweepSet(in) |-> Sweep(f)]
  <1>1. IsFiniteSet(Chosen(in))
    <2>1. Chosen(in) \in SUBSET Range(resolveOps(in))
      BY ChosenFacts
    <2> QED
      BY <2>1, OpsAreFinite, FS_Subset
  <1>2. IsFiniteSet(Range(b))
    <2>1. DOMAIN b = Chosen(in) /\ b = [x \in DOMAIN b |-> b[x]]
      OBVIOUS
    <2> HIDE DEF b
    <2> QED
      BY <2>1, <1>1, FiniteRange
  <1>3. IsFiniteSet(Range(c))
    <2>1. DOMAIN c = SweepSet(in) /\ c = [x \in DOMAIN c |-> c[x]]
      OBVIOUS
    <2> HIDE DEF c
    <2> QED
      BY <2>1, SweepSetFacts, FiniteRange
  <1>4. \A T \in Range(b) : IsFiniteSet(T)
    <2>1. \A o \in Chosen(in) : IsFiniteSet({Start(o), End(o)})
      <3>1. ASSUME NEW x, NEW y PROVE IsFiniteSet({x, y})
        <4>1. IsFiniteSet({x} \cup {y})
          BY FS_Singleton, FS_AddElement
        <4>2. {x, y} = {x} \cup {y}
          OBVIOUS
        <4> QED
          BY <4>1, <4>2
      <3> QED
        BY <3>1, Zenon
    <2> QED
      BY <2>1 DEF Range
  <1>5. IsFiniteSet(UNION Range(b))
    <2> HIDE DEF b
    <2> QED
      BY <1>2, <1>4, FS_UNION
  <1>6. Range(b) = {{Start(o), End(o)} : o \in Chosen(in)} /\ Range(c) = {Sweep(f) : f \in SweepSet(in)}
    BY DEF Range
  <1>7. ActionSet(in) = (UNION Range(b)) \cup Range(c)
    BY <1>6, Zenon DEF ActionSet
  <1> HIDE DEF b, c
  <1>8. IsFiniteSet((UNION Range(b)) \cup Range(c))
    BY <1>3, <1>5, FS_Union
  <1> QED
    BY <1>7, <1>8

(* Resolve did not fail: its input is one the shipped profiles are for,    *)
(* and no sweep falls inside an admitted op's window.                      *)
LEMMA ResolvesFacts ==
    ASSUME NEW in, in.gap \in Nat, resolves(in)
    PROVE  /\ in.profile \in DOMAIN profiles
           /\ \A o \in Chosen(in) : /\ OpShape(o, in.gap) /\ Admitted(o)
                                    /\ o \in Range(resolveOps(in))
                                    /\ o.name \in DOMAIN resolveOps(in) /\ resolveOps(in)[o.name] = o
           /\ \A o, p \in Chosen(in) : o # p => Latest(o) < p.start \/ Latest(p) < o.start
           /\ SweepSet(in) \in SUBSET Int
           /\ \A f \in SweepSet(in), o \in Chosen(in) : f < o.start \/ Latest(o) <= f
  <1>1. in.profile \in DOMAIN profiles
    BY DEF resolves, topologyOK
  <1>2. checkFailsafes(resolveOps(in), failsafes(resolveOps(in), deadlineOf(in)))
    BY DEF resolves
  <1>3. \A o \in Chosen(in) : o \in Range(resolveOps(in)) /\ Admitted(o)
    BY ChosenFacts
  <1>4. \A o \in Chosen(in) : /\ OpShape(o, in.gap)
                              /\ o.name \in DOMAIN resolveOps(in) /\ resolveOps(in)[o.name] = o
    BY <1>1, <1>3, RangeShapes
  <1>5. \A o, p \in Chosen(in) : o # p => Latest(o) < p.start \/ Latest(p) < o.start
    BY <1>1, <1>3, OpsLieApart
  <1>6. SweepSet(in) \in SUBSET Int /\ Range(failsafes(resolveOps(in), deadlineOf(in))) = SweepSet(in)
    BY <1>1, SweepSetFacts
  <1>7. ASSUME NEW f \in SweepSet(in), NEW o \in Chosen(in) PROVE f < o.start \/ Latest(o) <= f
    <2>1. ~(o.start <= f /\ f < Latest(o))
      BY <1>2, <1>3, <1>6 DEF checkFailsafes
    <2>2. f \in Int /\ o.start \in Int /\ Latest(o) \in Int
      BY <1>4, <1>6 DEF OpShape
    <2> QED
      BY <2>1, <2>2
  <1> QED
    BY <1>1, <1>3, <1>4, <1>5, <1>6, <1>7

LEMMA ActionFields ==
    ASSUME NEW in, in.gap \in Nat, resolves(in), NEW a \in ActionSet(in)
    PROVE  /\ a.at \in Int /\ a.kind \in {ActOpEnd, ActSweep, ActOpStart}
           /\ a.kind = ActOpStart => \E o \in Chosen(in) : a = Start(o) /\ a.at = o.start /\ a.op = o.name
           /\ a.kind = ActOpEnd => \E o \in Chosen(in) : a = End(o) /\ a.at = o.end /\ a.op = o.name
           /\ a.kind = ActSweep => a.at \in SweepSet(in) /\ a = Sweep(a.at) /\ a.op = SweepOp
  <1>0. ActOpEnd = 0 /\ ActSweep = 1 /\ ActOpStart = 2
    BY DEF ActOpEnd, ActSweep, ActOpStart
  <1>1. CASE \E o \in Chosen(in) : a = Start(o)
    <2>1. PICK o \in Chosen(in) : a = Start(o)
      BY <1>1
    <2>2. a.kind = 2 /\ a.at = o.start /\ a.op = o.name
      BY <2>1, <1>0 DEF Start
    <2>3. o.start \in Int
      BY ResolvesFacts DEF OpShape
    <2> QED
      BY <2>1, <2>2, <2>3, <1>0
  <1>2. CASE \E o \in Chosen(in) : a = End(o)
    <2>1. PICK o \in Chosen(in) : a = End(o)
      BY <1>2
    <2>2. a.kind = 0 /\ a.at = o.end /\ a.op = o.name
      BY <2>1, <1>0 DEF End
    <2>3. o.end \in Int
      BY ResolvesFacts DEF OpShape
    <2> QED
      BY <2>1, <2>2, <2>3, <1>0
  <1>3. CASE \E f \in SweepSet(in) : a = Sweep(f)
    <2>1. PICK f \in SweepSet(in) : a = Sweep(f)
      BY <1>3
    <2>2. a.kind = 1 /\ a.at = f /\ a.op = SweepOp
      BY <2>1, <1>0 DEF Sweep
    <2>3. f \in Int
      BY ResolvesFacts
    <2> QED
      BY <2>1, <2>2, <2>3, <1>0
  <1> QED
    BY <1>1, <1>2, <1>3, ActionForms

(* No two actions are at the same place of the list. *)
LEMMA ActionsDiffer ==
    ASSUME NEW in, in.gap \in Nat, resolves(in),
           NEW a \in ActionSet(in), NEW b \in ActionSet(in), a.at = b.at, a.kind = b.kind
    PROVE  a = b
  <1>1. CASE a.kind = ActOpStart
    <2>1. PICK o \in Chosen(in) : a = Start(o) /\ a.at = o.start
      BY <1>1, ActionFields
    <2>2. PICK p \in Chosen(in) : b = Start(p) /\ b.at = p.start
      BY <1>1, ActionFields
    <2>3. o.start = p.start /\ OpShape(o, in.gap) /\ OpShape(p, in.gap)
      BY <2>1, <2>2, ResolvesFacts
    <2>4. o # p => Latest(o) < p.start \/ Latest(p) < o.start
      BY ResolvesFacts
    <2>5. o = p
      BY <2>3, <2>4 DEF OpShape
    <2> QED
      BY <2>1, <2>2, <2>5
  <1>2. CASE a.kind = ActOpEnd
    <2>1. PICK o \in Chosen(in) : a = End(o) /\ a.at = o.end
      BY <1>2, ActionFields
    <2>2. PICK p \in Chosen(in) : b = End(p) /\ b.at = p.end
      BY <1>2, ActionFields
    <2>3. o.end = p.end /\ OpShape(o, in.gap) /\ OpShape(p, in.gap)
      BY <2>1, <2>2, ResolvesFacts
    <2>4. o # p => Latest(o) < p.start \/ Latest(p) < o.start
      BY ResolvesFacts
    <2>5. o = p
      BY <2>3, <2>4 DEF OpShape
    <2> QED
      BY <2>1, <2>2, <2>5
  <1>3. CASE a.kind = ActSweep
    <2>1. a = Sweep(a.at) /\ b = Sweep(b.at)
      BY <1>3, ActionFields
    <2> QED
      BY <2>1
  <1> QED
    BY <1>1, <1>2, <1>3, ActionFields

ActionOrder(in) == {q \in ActionSet(in) \X ActionSet(in) : actionBefore(q[1], q[2])}

LEMMA ActionsAreOrdered ==
    ASSUME NEW in, in.gap \in Nat, resolves(in)
    PROVE  /\ \A a, b \in ActionSet(in) : <<a, b>> \in ActionOrder(in) <=> actionBefore(a, b)
           /\ Orders(ActionOrder(in), ActionSet(in))
  <1> DEFINE A == ActionSet(in)
  <1>1. \A a, b \in A : <<a, b>> \in ActionOrder(in) <=> actionBefore(a, b)
    BY DEF ActionOrder
  <1>2. \A a \in A : a.at \in Int /\ a.kind \in Int
    BY ActionFields DEF ActOpEnd, ActSweep, ActOpStart
  <1> HIDE DEF A
  <1>3. \A a \in A : ~actionBefore(a, a)
    BY <1>2 DEF actionBefore
  <1>4. ASSUME NEW a \in A, NEW b \in A, a # b PROVE actionBefore(a, b) \/ actionBefore(b, a)
    <2>1. ~(a.at = b.at /\ a.kind = b.kind)
      BY <1>4, ActionsDiffer DEF A
    <2> QED
      BY <2>1, <1>2 DEF actionBefore
  <1>5. ASSUME NEW a \in A, NEW b \in A, NEW c \in A, actionBefore(a, b), actionBefore(b, c)
        PROVE  actionBefore(a, c)
    BY <1>2, <1>5 DEF actionBefore
  <1>6. Orders(ActionOrder(in), A)
    BY <1>1, <1>3, <1>4, <1>5, Zenon DEF Orders
  <1> QED
    BY <1>1, <1>6 DEF A

(* The action list holds every action once, in the order of actionBefore. *)
LEMMA ListFacts ==
    ASSUME NEW in, in.gap \in Nat, resolves(in)
    PROVE  LET list == Actions(Resolve(in)) IN
           /\ list \in Seq(ActionSet(in)) /\ Len(list) \in Nat /\ DOMAIN list = 1..Len(list)
           /\ \A i \in 1..Len(list) : list[i] \in ActionSet(in)
           /\ \A a \in ActionSet(in) : \E i \in 1..Len(list) : list[i] = a
           /\ \A i, j \in 1..Len(list) : i < j <=> actionBefore(list[i], list[j])
  <1> DEFINE s == Resolve(in)
             S == ActionSet(in)
             R == ActionOrder(in)
             list == Actions(s)
  <1>0. in.profile \in DOMAIN profiles
    BY ResolvesFacts
  <1>1. Range(s.failsafes) = SweepSet(in)
    BY <1>0, SweepSetFacts DEF Resolve
  <1>2. list = SortedBy(S, actionBefore)
    BY <1>1, Zenon DEF Actions, ActionSet, Chosen, Start, End, Sweep
  <1>3. list = [i \in 1..Cardinality(S) |-> CHOOSE x \in S : Cardinality({y \in S : actionBefore(y, x)}) = i - 1]
    <2> HIDE DEF list, S
    <2> QED
      BY <1>2 DEF SortedBy
  <1>4. \A x \in S : Rank(S, R, x) = Cardinality({y \in S : actionBefore(y, x)})
    <2>1. \A x \in S : {y \in S : <<y, x>> \in R} = {y \in S : actionBefore(y, x)}
      BY ActionsAreOrdered
    <2> QED
      BY <2>1 DEF Rank
  <1> HIDE DEF list, S, R
  <1>5. \A i \in 1..Cardinality(S) :
           (CHOOSE x \in S : Cardinality({y \in S : actionBefore(y, x)}) = i - 1)
             = CHOOSE x \in S : Rank(S, R, x) = i - 1
    BY <1>4
  <1>6. list = Ordered(S, R)
    <2>1. Ordered(S, R) = [i \in 1..Cardinality(S) |-> CHOOSE x \in S : Rank(S, R, x) = i - 1]
      BY DEF Ordered
    <2> QED
      BY <1>3, <1>5, <2>1
  <1>7. IsFiniteSet(S) /\ Orders(R, S)
    BY <1>0, ActionsFinite, ActionsAreOrdered DEF S, R
  <1>8. /\ Cardinality(S) \in Nat
        /\ list \in Seq(S) /\ Len(list) = Cardinality(S) /\ DOMAIN list = 1..Cardinality(S)
        /\ \A i \in DOMAIN list : list[i] \in S
        /\ \A x \in S : \E i \in DOMAIN list : list[i] = x
        /\ \A i, j \in DOMAIN list : i < j <=> <<list[i], list[j]>> \in R
    BY <1>6, <1>7, SortedFacts
  <1>9. \A a, b \in S : <<a, b>> \in R <=> actionBefore(a, b)
    BY ActionsAreOrdered DEF S, R
  <1> QED
    BY <1>8, <1>9 DEF list, S

LEMMA NothingBetween ==
    ASSUME NEW in, in.gap \in Nat, resolves(in), NEW o \in Chosen(in), NEW c \in ActionSet(in),
           actionBefore(Start(o), c), actionBefore(c, End(o))
    PROVE  FALSE
  <1>0. ActOpEnd = 0 /\ ActSweep = 1 /\ ActOpStart = 2
    BY DEF ActOpEnd, ActSweep, ActOpStart
  <1>1. /\ Start(o).at = o.start /\ Start(o).kind = 2
        /\ End(o).at = o.end /\ End(o).kind = 0
    BY <1>0 DEF Start, End
  <1>2. c.at \in Int /\ c.kind \in {0, 1, 2}
    BY <1>0, ActionFields
  <1>3. /\ o.start \in Int /\ o.end \in Int /\ Latest(o) \in Int
        /\ o.start < o.end /\ o.end <= Latest(o)
    BY ResolvesFacts DEF OpShape
  <1>4. o.start < c.at /\ c.at < o.end
    BY <1>1, <1>2, <1>3 DEF actionBefore
  <1>5. CASE c.kind = ActSweep
    <2>1. c.at \in SweepSet(in)
      BY <1>5, ActionFields
    <2>2. c.at < o.start \/ Latest(o) <= c.at
      BY <2>1, ResolvesFacts
    <2> QED
      BY <2>2, <1>2, <1>3, <1>4
  <1>6. CASE c.kind # ActSweep
    <2>1. PICK p \in Chosen(in) : c.at = p.start \/ (c.at = p.end /\ c.kind = 0 /\ c = End(p))
      BY <1>6, <1>0, <1>2, ActionFields
    <2>2. /\ p.start \in Int /\ p.end \in Int /\ Latest(p) \in Int
          /\ p.start < p.end /\ p.end <= Latest(p)
      BY ResolvesFacts DEF OpShape
    <2>3. o # p => Latest(o) < p.start \/ Latest(p) < o.start
      BY ResolvesFacts
    <2> QED
      BY <2>1, <2>2, <2>3, <1>3, <1>4
  <1> QED
    BY <1>5, <1>6

(* In the list, an op's start is followed by its end. *)
LEMMA StartsThenEnds ==
    ASSUME NEW in, in.gap \in Nat, resolves(in), NEW list, list = Actions(Resolve(in)),
           NEW i \in 1..Len(list), list[i].kind = ActOpStart
    PROVE  /\ i + 1 \in 1..Len(list)
           /\ \E o \in Chosen(in) : list[i] = Start(o) /\ list[i+1] = End(o)
  <1>0. Len(list) \in Nat /\ \A j \in 1..Len(list) : list[j] \in ActionSet(in)
    BY ListFacts
  <1>1. PICK o \in Chosen(in) : list[i] = Start(o)
    BY <1>0, ActionFields
  <1>2. End(o) \in ActionSet(in)
    BY ActionForms
  <1>3. PICK j \in 1..Len(list) : list[j] = End(o)
    BY <1>2, ListFacts
  <1>4. actionBefore(Start(o), End(o))
    <2>1. o.start \in Int /\ o.end \in Int /\ o.start < o.end
      BY ResolvesFacts DEF OpShape
    <2>2. Start(o).at = o.start /\ End(o).at = o.end
      BY DEF Start, End
    <2> QED
      BY <2>1, <2>2 DEF actionBefore
  <1>5. i < j
    BY <1>1, <1>3, <1>4, ListFacts
  <1>6. i + 1 \in 1..Len(list)
    BY <1>0, <1>5
  <1>7. ~(i + 1 < j)
    <2>1. SUFFICES ASSUME i + 1 < j PROVE FALSE
      OBVIOUS
    <2>2. actionBefore(list[i], list[i+1])
      <3>1. i < i + 1
        OBVIOUS
      <3> QED
        BY <3>1, <1>6, ListFacts
    <2>3. actionBefore(list[i+1], list[j])
      BY <2>1, <1>6, ListFacts
    <2> QED
      BY <2>2, <2>3, <1>0, <1>1, <1>3, <1>6, NothingBetween
  <1>8. j = i + 1
    BY <1>0, <1>5, <1>7
  <1> QED
    BY <1>1, <1>3, <1>6, <1>8

LEMMA SweepsAreLast ==
    ASSUME NEW in, in.gap \in Nat, resolves(in), NEW list, list = Actions(Resolve(in))
    PROVE  Len(list) >= 1 /\ list[Len(list)].kind = ActSweep
  <1>0. /\ Len(list) \in Nat /\ \A j \in 1..Len(list) : list[j] \in ActionSet(in)
        /\ in.profile \in DOMAIN profiles
    BY ListFacts, ResolvesFacts
  <1>1. Len(list) >= 1
    <2>1. deadlineOf(in) \in SweepSet(in)
      BY DEF SweepSet, preForkSweeps
    <2>2. Sweep(deadlineOf(in)) \in ActionSet(in)
      BY <2>1, ActionForms
    <2>3. \E i \in 1..Len(list) : list[i] = Sweep(deadlineOf(in))
      BY <2>2, ListFacts
    <2> QED
      BY <2>3, <1>0
  <1>2. Len(list) \in 1..Len(list)
    BY <1>0, <1>1
  <1>3. list[Len(list)].kind # ActOpStart
    <2>1. ~(Len(list) + 1 \in 1..Len(list))
      BY <1>0
    <2> QED
      BY <2>1, <1>2, StartsThenEnds
  <1>4. list[Len(list)].kind # ActOpEnd
    <2>1. SUFFICES ASSUME list[Len(list)].kind = ActOpEnd PROVE FALSE
      OBVIOUS
    <2>2. PICK o \in Chosen(in) : list[Len(list)] = End(o)
      BY <2>1, <1>0, <1>2, ActionFields
    <2>3. o \in Range(resolveOps(in)) /\ Admitted(o) /\ o.end \in Int /\ Latest(o) \in Int /\ o.end <= Latest(o)
      BY ResolvesFacts DEF OpShape
    <2>4. PICK f \in SweepSet(in) : f >= Latest(o)
      BY <2>3, <1>0, OpsHaveSweeps
    <2>5. Sweep(f) \in ActionSet(in)
      BY ActionForms
    <2>6. PICK j \in 1..Len(list) : list[j] = Sweep(f)
      BY <2>5, ListFacts
    <2>7. actionBefore(End(o), Sweep(f))
      <3>1. /\ End(o).at = o.end /\ End(o).kind = 0
            /\ Sweep(f).at = f /\ Sweep(f).kind = 1
        BY DEF End, Sweep, ActOpEnd, ActSweep
      <3>2. f \in Int
        BY ResolvesFacts
      <3> QED
        BY <3>1, <3>2, <2>3, <2>4 DEF actionBefore
    <2>8. Len(list) < j
      BY <2>2, <2>6, <2>7, <1>2, ListFacts
    <2> QED
      BY <2>8, <1>0
  <1> QED
    BY <1>0, <1>1, <1>2, <1>3, <1>4, ActionFields

(* What the driver knows of the ops of a schedule. *)
InfoOf(s) ==
    [n \in {o.name : o \in admittedOps(s)} |->
        [start |-> s.ops[n].start, end |-> s.ops[n].end,
         hold |-> s.ops[n].hold, victims |-> s.ops[n].victims]]

LEMMA InfoFacts ==
    ASSUME NEW in, in.gap \in Nat, resolves(in)
    PROVE  LET info == InfoOf(Resolve(in)) IN
           /\ \A o \in Chosen(in) : o.name \in DOMAIN info /\ info[o.name].start = o.start
           /\ SweepOp \notin DOMAIN info
           /\ \A n \in DOMAIN info :
                 info[n].start \in Int /\ info[n].end \in Int /\ info[n].hold \in Int
  <1> DEFINE info == InfoOf(Resolve(in))
             ops == resolveOps(in)
  <1>1. DOMAIN info = {o.name : o \in Chosen(in)}
    BY DEF InfoOf, Chosen
  <1>2. \A n \in DOMAIN info :
           info[n].start = ops[n].start /\ info[n].end = ops[n].end /\ info[n].hold = ops[n].hold
    BY DEF InfoOf, Resolve
  <1> HIDE DEF info
  <1>3. ASSUME NEW o \in Chosen(in)
        PROVE  /\ o.name \in DOMAIN info /\ ops[o.name] = o /\ o.name # SweepOp
               /\ o.start \in Int /\ o.end \in Int /\ o.hold \in Int
    <2>1. ops[o.name] = o /\ o.name \in DOMAIN ops /\ OpShape(o, in.gap)
      BY ResolvesFacts
    <2>2. DOMAIN ops = DOMAIN profiles[in.profile]
      BY DEF resolveOps
    <2>3. DOMAIN ops \in SUBSET (Nat \ {0})
      BY <2>2, ResolvesFacts, ProfileShapes DEF Shape, Placed, Apart
    <2>4. o.name # SweepOp
      BY <2>1, <2>3 DEF SweepOp
    <2>5. o.start \in Int /\ o.end \in Int /\ o.hold \in Int
      BY <2>1 DEF OpShape
    <2> QED
      BY <2>1, <2>4, <2>5, <1>1
  <1>4. \A o \in Chosen(in) : info[o.name].start = o.start
    BY <1>2, <1>3
  <1>5. ASSUME NEW n \in DOMAIN info
        PROVE  /\ n # SweepOp
               /\ info[n].start \in Int /\ info[n].end \in Int /\ info[n].hold \in Int
    <2>1. PICK o \in Chosen(in) : n = o.name
      BY <1>1
    <2> QED
      BY <2>1, <1>2, <1>3
  <1> QED
    BY <1>3, <1>4, <1>5 DEF info

LEMMA KindsAgree ==
    KindEnd = ActOpEnd /\ KindSweep = ActSweep /\ KindStart = ActOpStart
  BY DEF KindEnd, KindSweep, KindStart, ActOpEnd, ActSweep, ActOpStart

LEMMA ListIsTyped ==
    ASSUME NEW in, in.gap \in Nat, resolves(in)
    PROVE  Actions(Resolve(in)) \in
              Seq([kind : {KindEnd, KindSweep, KindStart}, at : Int,
                   op : DOMAIN InfoOf(Resolve(in)) \cup {SweepOp}])
  <1> DEFINE Type == [kind : {KindEnd, KindSweep, KindStart}, at : Int,
                      op : DOMAIN InfoOf(Resolve(in)) \cup {SweepOp}]
  <1>1. ASSUME NEW a \in ActionSet(in) PROVE a \in Type
    <2>1. CASE a.kind = ActOpStart
      <3>1. PICK o \in Chosen(in) : a = Start(o)
        BY <2>1, ActionFields
      <3>2. o.name \in DOMAIN InfoOf(Resolve(in)) /\ o.start \in Int
        BY InfoFacts, ResolvesFacts DEF OpShape
      <3> QED
        BY <3>1, <3>2, KindsAgree DEF Start
    <2>2. CASE a.kind = ActOpEnd
      <3>1. PICK o \in Chosen(in) : a = End(o)
        BY <2>2, ActionFields
      <3>2. o.name \in DOMAIN InfoOf(Resolve(in)) /\ o.end \in Int
        BY InfoFacts, ResolvesFacts DEF OpShape
      <3> QED
        BY <3>1, <3>2, KindsAgree DEF End
    <2>3. CASE a.kind = ActSweep
      <3>1. a = Sweep(a.at) /\ a.at \in Int
        BY <2>3, ActionFields
      <3>2. [kind |-> ActSweep, at |-> a.at, op |-> SweepOp] \in Type
        BY <3>1, KindsAgree
      <3> QED
        BY <3>1, <3>2, Zenon DEF Sweep
    <2> QED
      BY <2>1, <2>2, <2>3, ActionFields
  <1>2. Actions(Resolve(in)) \in Seq(ActionSet(in))
    BY ListFacts
  <1>3. ActionSet(in) \subseteq Type
    BY <1>1
  <1> HIDE DEF Type
  <1>4. Actions(Resolve(in)) \in Seq(Type)
    BY <1>2, <1>3, SeqMonotonic
  <1> QED
    BY <1>4 DEF Type

(* migsched.Resolve and Schedule.Actions: every schedule that resolves     *)
(* gives the driver what it relies on (ScheduleAssumption,                 *)
(* SerialAssumption), whatever the fork's time, the participants and their *)
(* stake: a start is followed at once by its own end, no sweep and no      *)
(* other op sorts between them, and admitted windows lie apart.            *)
THEOREM ResolvedIsSerial ==
    ASSUME NEW in, in.gap \in Nat, resolves(in)
    PROVE  LET s == Resolve(in) IN
           /\ Actions(s) \in Seq([kind : {KindEnd, KindSweep, KindStart}, at : Int,
                                   op : DOMAIN InfoOf(s) \cup {SweepOp}])
           /\ SweepOp \notin DOMAIN InfoOf(s)
           /\ \A n \in DOMAIN InfoOf(s) : /\ InfoOf(s)[n].start \in Int
                                          /\ InfoOf(s)[n].end \in Int
                                          /\ InfoOf(s)[n].hold \in Int
           /\ Serial(Actions(s), InfoOf(s))
           /\ StartsMeetEnds(Actions(s))
           /\ OpsAreApart(s)
  <1> DEFINE s == Resolve(in)
             list == Actions(s)
             info == InfoOf(s)
  <1>0. /\ Len(list) \in Nat /\ DOMAIN list = 1..Len(list)
        /\ \A i \in 1..Len(list) : list[i] \in ActionSet(in)
    BY ListFacts
  <1>1. \A i \in 1..Len(list) : list[i].kind = ActOpStart =>
           /\ i + 1 \in 1..Len(list)
           /\ \E o \in Chosen(in) : list[i] = Start(o) /\ list[i+1] = End(o)
    BY StartsThenEnds
  <1>2. Len(list) >= 1 /\ list[Len(list)].kind = ActSweep
    BY SweepsAreLast
  <1>3. ASSUME NEW i \in 1..Len(list), list[i].kind # ActSweep PROVE list[i].op \in DOMAIN info
    <2>1. PICK o \in Chosen(in) : list[i].op = o.name
      BY <1>0, <1>3, ActionFields
    <2> QED
      BY <2>1, InfoFacts
  <1>4. ASSUME NEW i \in 1..Len(list), list[i].kind = ActOpStart
        PROVE  /\ i + 1 \in 1..Len(list)
               /\ list[i+1].kind = ActOpEnd
               /\ list[i+1].op = list[i].op
               /\ list[i].at = info[list[i].op].start
    <2>1. PICK o \in Chosen(in) : list[i] = Start(o) /\ list[i+1] = End(o)
      BY <1>1, <1>4
    <2>2. /\ list[i].op = o.name /\ list[i].at = o.start
          /\ list[i+1].op = o.name /\ list[i+1].kind = ActOpEnd
      BY <2>1 DEF Start, End
    <2>3. info[o.name].start = o.start
      BY InfoFacts
    <2> QED
      BY <2>2, <2>3, <1>1, <1>4
  <1>5. ASSUME NEW i \in 1..Len(list), NEW j \in 1..Len(list),
               list[i].kind = ActOpStart, list[j].kind = ActOpStart, list[i].op = list[j].op
        PROVE  i = j
    <2>1. PICK o \in Chosen(in) : list[i] = Start(o) /\ list[i].op = o.name
      BY <1>0, <1>5, ActionFields
    <2>2. PICK p \in Chosen(in) : list[j] = Start(p) /\ list[j].op = p.name
      BY <1>0, <1>5, ActionFields
    <2>3. o = p
      BY <2>1, <2>2, <1>5, ResolvesFacts
    <2>4. list[i] = list[j] /\ list[i].at \in Int /\ list[i].kind \in Int
      BY <2>1, <2>2, <2>3, <1>0, ActionFields DEF ActOpEnd, ActSweep, ActOpStart
    <2>5. ~actionBefore(list[i], list[j]) /\ ~actionBefore(list[j], list[i])
      BY <2>4 DEF actionBefore
    <2>6. ~(i < j) /\ ~(j < i)
      BY <2>5, ListFacts
    <2> QED
      BY <2>6, <1>0
  <1>6. list \in Seq([kind : {KindEnd, KindSweep, KindStart}, at : Int, op : DOMAIN info \cup {SweepOp}])
    BY ListIsTyped
  <1>7. OpsAreApart(s)
    BY ResolvesFacts DEF OpsAreApart, Chosen
  <1>8. /\ SweepOp \notin DOMAIN info
        /\ \A n \in DOMAIN info : info[n].start \in Int /\ info[n].end \in Int /\ info[n].hold \in Int
    BY InfoFacts
  <1> HIDE DEF list, info
  <1>9. StartsMeetEnds(list)
    BY <1>0, <1>4 DEF StartsMeetEnds
  <1>10. list # <<>>
    BY <1>2
  <1>11. Serial(list, info)
    BY <1>2, <1>3, <1>4, <1>5, <1>10, KindsAgree DEF Serial
  <1> QED
    BY <1>6, <1>7, <1>8, <1>9, <1>11 DEF list, info

(* The failsafe sweeps and Quiet (Resolve): every admitted op is followed  *)
(* by a sweep, a pre-fork op by one preForkMargin before the fork; the     *)
(* driver's last action is a sweep, and it has nothing to do past Quiet.   *)
LEMMA ResolvedIsSwept ==
    ASSUME NEW in, in.gap \in Nat, resolves(in)
    PROVE  OpsAreSwept(Resolve(in))
  <1> DEFINE s == Resolve(in)
             list == Actions(s)
             q == quietOf(resolveOps(in), deadlineOf(in))
             sweeps == {list[i].at : i \in {n \in DOMAIN list : list[n].kind = ActSweep}}
  <1>0. /\ Len(list) \in Nat /\ DOMAIN list = 1..Len(list)
        /\ \A i \in 1..Len(list) : list[i] \in ActionSet(in)
        /\ \A a \in ActionSet(in) : \E i \in 1..Len(list) : list[i] = a
        /\ in.profile \in DOMAIN profiles
    BY ListFacts, ResolvesFacts
  <1>1. s.quiet = q /\ s.fork = in.gap
    BY DEF Resolve
  <1>2. list[Len(list)].kind = ActSweep
    BY SweepsAreLast
  <1>3. ASSUME NEW f \in SweepSet(in) PROVE f \in sweeps
    <2>1. Sweep(f) \in ActionSet(in)
      BY ActionForms
    <2>2. PICK i \in 1..Len(list) : list[i] = Sweep(f)
      BY <2>1, <1>0
    <2>3. list[i].kind = ActSweep /\ list[i].at = f
      BY <2>2 DEF Sweep
    <2> QED
      BY <2>3, <1>0
  <1>4. ASSUME NEW o \in Chosen(in)
        PROVE  \E f \in sweeps : /\ f >= Latest(o)
                                 /\ o.class \in {"deep", "short"} => f <= s.fork - preForkMargin
    <2>1. o \in Range(resolveOps(in)) /\ Admitted(o)
      BY ChosenFacts
    <2>2. PICK f \in SweepSet(in) : /\ f >= Latest(o)
                                    /\ o.class \in PreFork => f <= in.gap - preForkMargin
      BY <2>1, <1>0, OpsHaveSweeps
    <2>3. f \in sweeps
      BY <1>3
    <2>4. o.class \in {"deep", "short"} => f <= s.fork - preForkMargin
      BY <2>2, <1>1 DEF PreFork
    <2> HIDE DEF sweeps
    <2> QED
      BY <2>2, <2>3, <2>4
  <1>5. ASSUME NEW i \in 1..Len(list) PROVE list[i].at <= s.quiet
    <2>0. q \in Int
      BY <1>0, MaximaExist
    <2>1. CASE list[i].kind = ActSweep
      <3>1. list[i].at \in SweepSet(in)
        BY <2>1, <1>0, ActionFields
      <3> QED
        BY <3>1, <1>0, <1>1, OpsHaveSweeps
    <2>2. CASE list[i].kind # ActSweep
      <3>1. PICK o \in Chosen(in) : list[i].at = o.start \/ list[i].at = o.end
        BY <2>2, <1>0, ActionFields
      <3>2. o \in Range(resolveOps(in)) /\ Admitted(o)
        BY ChosenFacts
      <3>3. Latest(o) <= q
        BY <3>2, <1>0, OpsHaveSweeps
      <3>4. /\ o.start \in Int /\ o.end \in Int /\ Latest(o) \in Int
            /\ o.start < o.end /\ o.end <= Latest(o)
        BY ResolvesFacts DEF OpShape
      <3> QED
        BY <3>1, <3>3, <3>4, <2>0, <1>1
    <2> QED
      BY <2>1, <2>2
  <1>6. admittedOps(s) = Chosen(in)
    BY DEF Chosen
  <1> HIDE DEF s, list
  <1> QED
    BY <1>0, <1>2, <1>4, <1>5, <1>6, Zenon DEF OpsAreSwept, s, list

(* LegalWindows: divergence is legal for as long as a window is open or    *)
(* its heal is converging, and it is not once the tail is over in a calm.  *)
LEMMA ResolvedIsLegal ==
    ASSUME NEW in, in.gap \in Nat, resolves(in)
    PROVE  LegalWhileOpen(Resolve(in))
  <1> DEFINE s == Resolve(in)
  <1>0. legalDivergenceTail = 120 /\ healConvergeAllowance = 120
    BY DEF legalDivergenceTail, healConvergeAllowance
  <1>1. admittedOps(s) = Chosen(in)
    BY DEF Chosen
  <1>2. \A t : Covers(s, t) <=> \E o \in Chosen(in) : o.start <= t /\ t <= Latest(o) + legalDivergenceTail
    <2>1. LegalWindows(s) = {<<o.start, Latest(o) + legalDivergenceTail>> : o \in Chosen(in)}
      BY <1>1, Zenon DEF LegalWindows
    <2>2. \A t : Covers(s, t) <=> \E w \in LegalWindows(s) : w[1] <= t /\ t <= w[2]
      BY DEF Covers
    <2> HIDE DEF s
    <2>3. ASSUME NEW t, Covers(s, t)
          PROVE  \E o \in Chosen(in) : o.start <= t /\ t <= Latest(o) + legalDivergenceTail
      BY <2>1, <2>2, <2>3
    <2>4. ASSUME NEW t, NEW o \in Chosen(in), o.start <= t, t <= Latest(o) + legalDivergenceTail
          PROVE  Covers(s, t)
      <3>1. <<o.start, Latest(o) + legalDivergenceTail>> \in LegalWindows(s)
        BY <2>1
      <3> QED
        BY <3>1, <2>2, <2>4
    <2> QED
      BY <2>3, <2>4
  <1>3. \A o \in Chosen(in) : /\ o.start \in Int /\ o.end \in Int /\ Latest(o) \in Int
                              /\ o.start < o.end /\ o.end <= Latest(o)
    BY ResolvesFacts DEF OpShape
  <1>4. ASSUME NEW o \in Chosen(in),
               NEW t \in {o.start, o.end, Latest(o), Latest(o) + healConvergeAllowance}
        PROVE  Covers(s, t)
    <2>1. o.start <= t /\ t <= Latest(o) + legalDivergenceTail
      BY <1>0, <1>3
    <2> QED
      BY <2>1, <1>2
  <1>5. ASSUME NEW o \in Chosen(in),
               \A p \in Chosen(in) : p.start \notin Latest(o) .. (Latest(o) + legalDivergenceTail + 1),
               Covers(s, Latest(o) + legalDivergenceTail + 1)
        PROVE  FALSE
    <2>1. PICK p \in Chosen(in) : /\ p.start <= Latest(o) + legalDivergenceTail + 1
                                  /\ Latest(o) + legalDivergenceTail + 1 <= Latest(p) + legalDivergenceTail
      BY <1>2, <1>5
    <2>2. Latest(p) > Latest(o)
      BY <2>1, <1>0, <1>3
    <2>3. Latest(o) < p.start
      BY <2>2, <1>3, ResolvesFacts
    <2>4. p.start \in Latest(o) .. (Latest(o) + legalDivergenceTail + 1)
      BY <2>1, <2>3, <1>0, <1>3
    <2> QED
      BY <2>4, <1>5
  <1> HIDE DEF s
  <1> QED
    BY <1>1, <1>4, <1>5, Zenon DEF LegalWhileOpen, s

-----------------------------------------------------------------------------
(* The lights: neither the anchor nor protected. *)
LightSet(in) == (1..in.participants) \ ({in.anchor} \cup in.protect)

LEMMA LightsFacts ==
    ASSUME NEW in, in.participants \in Nat
    PROVE  /\ IsFiniteSet(LightSet(in)) /\ LightSet(in) \in SUBSET Int
           /\ Len(Lights(in)) \in Nat /\ DOMAIN Lights(in) = 1..Len(Lights(in))
           /\ \A i \in 1..Len(Lights(in)) : Lights(in)[i] \in LightSet(in)
  <1>1. IsFiniteSet(1..in.participants)
    BY FS_Interval, 1 \in Int, in.participants \in Int
  <1>2. LightSet(in) \in SUBSET (1..in.participants)
    BY DEF LightSet
  <1>3. IsFiniteSet(LightSet(in))
    BY <1>1, <1>2, FS_Subset
  <1>4. LightSet(in) \in SUBSET Int
    BY <1>2
  <1>5. Lights(in) = SortedBy(LightSet(in), <)
    BY DEF Lights, LightSet
  <1> DEFINE list == SortedBy(LightSet(in), <)
             n == Cardinality(LightSet(in))
  <1>6. /\ n \in Nat /\ Len(list) = n /\ DOMAIN list = 1..n
        /\ \A i \in DOMAIN list : list[i] \in LightSet(in)
    BY <1>3, <1>4, SortedOnce
  <1>7. Lights(in) = list
    BY <1>5
  <1> HIDE DEF list, n
  <1> QED
    BY <1>3, <1>4, <1>6, <1>7

LEMMA VictimsFacts ==
    ASSUME NEW in, in.participants \in Nat, resolves(in), NEW o \in Range(resolveOps(in))
    PROVE  o.victims \in SUBSET LightSet(in)
  <1> DEFINE ws == profiles[in.profile]
             lights == Lights(in)
             n == Len(lights)
  <1>1. PICK i \in DOMAIN ws : o.victims = victimsOf(ws, i, lights)
    <2>1. PICK i \in DOMAIN resolveOps(in) : o = resolveOps(in)[i]
      BY DEF Range
    <2>2. i \in DOMAIN ws /\ o = resolveOp(in, i)
      BY <2>1 DEF resolveOps
    <2>3. o.victims = victimsOf(ws, i, lights)
      BY <2>2 DEF resolveOp
    <2> QED
      BY <2>2, <2>3
  <1>2. n \in Nat /\ n > 0 /\ DOMAIN lights = 1..n /\ \A m \in 1..n : lights[m] \in LightSet(in)
    BY LightsFacts DEF resolves, topologyOK
  <1>3. i \in Nat
    BY ProfileShapes DEF Shape, Placed, Apart, resolves, topologyOK
  <1>4. \A m \in Nat : lights[(m % n) + 1] \in LightSet(in)
    <2>1. ASSUME NEW m \in Nat PROVE (m % n) + 1 \in 1..n
      BY <1>2
    <2> QED
      BY <2>1, <1>2
  <1>5. \A C : earlier(ws, i, C) \in Nat
    <2>1. ASSUME NEW C PROVE earlier(ws, i, C) \in Nat
      <3>1. IsFiniteSet(1..(i - 1))
        BY <1>3, FS_Interval
      <3>2. {j \in 1..(i - 1) : ws[j].class \in C} \in SUBSET (1..(i - 1))
        OBVIOUS
      <3>3. IsFiniteSet({j \in 1..(i - 1) : ws[j].class \in C})
        BY <3>1, <3>2, FS_Subset
      <3> QED
        BY <3>3, FS_CardinalityType DEF earlier
    <2> QED
      BY <2>1
  <1>6. ToSet(lights) \in SUBSET LightSet(in)
    BY <1>2 DEF ToSet
  <1> DEFINE pairs == earlier(ws, i, {"deep"})
             rotation == earlier(ws, i, {"short", "window"})
  <1>7. pairs \in Nat /\ pairs + 1 \in Nat /\ rotation \in Nat
    BY <1>5
  <1>8. victimsOf(ws, i, lights) \in
          {{lights[(pairs % n) + 1], lights[((pairs + 1) % n) + 1]}, ToSet(lights), {lights[(rotation % n) + 1]}}
    BY DEF victimsOf
  <1> HIDE DEF pairs, rotation, n, lights
  <1>9. {lights[(pairs % n) + 1], lights[((pairs + 1) % n) + 1]} \in SUBSET LightSet(in)
    BY <1>4, <1>7
  <1>10. {lights[(rotation % n) + 1]} \in SUBSET LightSet(in)
    BY <1>4, <1>7
  <1> QED
    BY <1>1, <1>6, <1>8, <1>9, <1>10

LEMMA Single ==
    ASSUME NEW S, NEW x \in S
    PROVE  <<x>> \in Seq(S) /\ Len(<<x>>) = 1 /\ <<x>>[1] = x
  OBVIOUS

(* V listed without repetition, split into single participants or left     *)
(* whole: every member is in exactly one group. *)
EachOnce(list, n, V) ==
    /\ n \in Nat
    /\ \A i \in 1..n : list[i] \in V
    /\ \A x \in V : \E i \in 1..n : list[i] = x
    /\ \A i, j \in 1..n : i # j => list[i] # list[j]

Splits(rest, list, n, V) ==
    rest = <<V>> \/ (DOMAIN rest = 1..n /\ rest = [i \in DOMAIN rest |-> rest[i]]
                         /\ \A i \in 1..n : rest[i] = {list[i]})

Parts(rest, V) ==
    /\ rest \in Seq(SUBSET V) /\ Len(rest) \in Nat
    /\ \A x \in V : \E i \in 1..Len(rest) : x \in rest[i]
    /\ \A i, j \in 1..Len(rest) : i # j => rest[i] \cap rest[j] = {}

LEMMA VictimGroups ==
    ASSUME NEW V, NEW n, NEW list, NEW rest, EachOnce(list, n, V), Splits(rest, list, n, V)
    PROVE  Parts(rest, V)
  <1> USE DEF EachOnce
  <1>0. n \in Nat
    OBVIOUS
  <1>1. CASE /\ DOMAIN rest = 1..n /\ rest = [i \in DOMAIN rest |-> rest[i]]
             /\ \A i \in 1..n : rest[i] = {list[i]}
    <2>2. \A i \in 1..n : {list[i]} \in SUBSET V
      OBVIOUS
    <2>3. rest \in [1..n -> SUBSET V]
      BY <1>1, <2>2
    <2>4. rest \in Seq(SUBSET V)
      BY <2>3, SeqDef
    <2>5. Len(rest) \in Nat /\ DOMAIN rest = 1..Len(rest)
      BY <2>4, LenProperties
    <2>6. Len(rest) = n
      BY <2>3, <2>5, SameLength
    <2>7. \A i \in 1..n : rest[i] = {list[i]}
      BY <1>1
    <2>8. ASSUME NEW x \in V PROVE \E i \in 1..Len(rest) : x \in rest[i]
      <3>1. PICK i \in 1..n : list[i] = x
        OBVIOUS
      <3> QED
        BY <3>1, <2>6, <2>7
    <2>9. ASSUME NEW i \in 1..Len(rest), NEW j \in 1..Len(rest), i # j
          PROVE  rest[i] \cap rest[j] = {}
      <3>1. list[i] # list[j]
        BY <2>6, <2>9
      <3>2. rest[i] = {list[i]} /\ rest[j] = {list[j]}
        BY <2>6, <2>7
      <3> QED
        BY <3>1, <3>2
    <2> QED
      BY <2>4, <2>5, <2>8, <2>9 DEF Parts
  <1>2. CASE rest = <<V>>
    <2>2. rest \in Seq(SUBSET V) /\ Len(rest) = 1 /\ rest[1] = V
      <3>1. V \in SUBSET V
        OBVIOUS
      <3> QED
        BY <1>2, <3>1, Single
    <2>3. 1..Len(rest) = {1}
      BY <2>2
    <2> QED
      BY <2>2, <2>3 DEF Parts
  <1> QED
    BY <1>1, <1>2 DEF Splits

(* Op.islands: whatever op is admitted, the groups sent to disruptoor hold *)
(* every participant exactly once, the anchor in the first, so that every  *)
(* heal has one chain to converge on. *)
LEMMA ResolvedIsPartition ==
    ASSUME NEW in, in.gap \in Nat, in.participants \in Nat, in.anchor \in 1..in.participants,
           resolves(in)
    PROVE  GroupsPartition(in, Resolve(in))
  <1>1. ASSUME NEW o \in Chosen(in)
        PROVE  LET groups == islands(in.participants, o) IN
               /\ in.anchor \in groups[1]
               /\ UNION Range(groups) = 1..in.participants
               /\ \A i, j \in DOMAIN groups : i # j => groups[i] \cap groups[j] = {}
    <2> DEFINE P == 1..in.participants
               V == o.victims
               O == Others(in.participants, o.victims)
               rest == IF o.mutual THEN [i \in 1..Cardinality(o.victims) |-> {SortedBy(o.victims, <)[i]}]
                                   ELSE <<o.victims>>
               groups == islands(in.participants, o)
    <2>1. V \in SUBSET LightSet(in) /\ o.mutual \in BOOLEAN
      <3>1. o \in Range(resolveOps(in))
        BY ChosenFacts
      <3>2. PICK i \in DOMAIN resolveOps(in) : o = resolveOps(in)[i]
        <4> DEFINE ops == resolveOps(in)
        <4>1. o \in Range(ops)
          BY <3>1, Zenon
        <4> HIDE DEF ops, P, V, O, rest, groups
        <4>2. \E i \in DOMAIN ops : o = ops[i]
          BY <4>1, InRange
        <4> QED
          BY <4>2, Zenon DEF ops
      <3>3. o.mutual \in BOOLEAN
        BY <3>2 DEF resolveOps, resolveOp
      <3> QED
        BY <3>1, <3>3, VictimsFacts
    <2>2. IsFiniteSet(V) /\ V \in SUBSET Int
      BY <2>1, LightsFacts, FS_Subset
    <2>3. V \in SUBSET P /\ in.anchor \notin V
      BY <2>1 DEF LightSet
    <2>4. O = P \ V
      BY DEF Others
    <2>5. groups = <<O>> \o rest
      BY DEF islands
    <2>6. /\ rest \in Seq(SUBSET V) /\ Len(rest) \in Nat
          /\ \A x \in V : \E i \in 1..Len(rest) : x \in rest[i]
          /\ \A i, j \in 1..Len(rest) : i # j => rest[i] \cap rest[j] = {}
      <3> DEFINE list == SortedBy(V, <)
                 n == Cardinality(V)
      <3>1. EachOnce(list, n, V)
        <4> HIDE DEF V
        <4> QED
          BY <2>2, SortedOnce DEF EachOnce
      <3>2. rest = [i \in 1..n |-> {list[i]}] \/ rest = <<V>>
        OBVIOUS
      <3> HIDE DEF list, n, V, rest
      <3>3. Splits(rest, list, n, V)
        BY <3>2 DEF Splits
      <3>4. Parts(rest, V)
        BY <3>1, <3>3, VictimGroups
      <3> QED
        BY <3>4 DEF Parts
    <2>7. in.anchor \in P
      OBVIOUS
    <2> HIDE DEF P, V, O, rest, groups
    <2>8. rest \in Seq(SUBSET P) /\ <<O>> \in Seq(SUBSET P) /\ Len(<<O>>) = 1 /\ <<O>>[1] = O
      <3>1. SUBSET V \subseteq SUBSET P /\ O \in SUBSET P
        BY <2>3, <2>4
      <3>2. rest \in Seq(SUBSET P)
        BY <3>1, <2>6, SeqMonotonic
      <3> QED
        BY <3>1, <3>2
    <2>9. /\ groups \in Seq(SUBSET P) /\ Len(groups) = 1 + Len(rest)
          /\ \A i \in 1..(1 + Len(rest)) : groups[i] = IF i <= 1 THEN O ELSE rest[i - 1]
      <3> DEFINE first == <<O>>
      <3>1. first \in Seq(SUBSET P) /\ Len(first) = 1 /\ first[1] = O /\ groups = first \o rest
        BY <2>5, <2>8
      <3> HIDE DEF first
      <3>2. /\ first \o rest \in Seq(SUBSET P) /\ Len(first \o rest) = Len(first) + Len(rest)
            /\ \A i \in 1..(Len(first) + Len(rest)) : (first \o rest)[i] =
                  IF i <= Len(first) THEN first[i] ELSE rest[i - Len(first)]
        BY <3>1, <2>8, ConcatProperties
      <3>3. \A i \in 1..(1 + Len(rest)) : i <= 1 => i = 1
        OBVIOUS
      <3> QED
        BY <3>1, <3>2, <3>3
    <2>10. DOMAIN groups = 1..(1 + Len(rest))
      BY <2>9, LenProperties
    <2>11. /\ groups[1] = O
           /\ \A i \in 1..Len(rest) : i + 1 \in DOMAIN groups /\ groups[i + 1] = rest[i]
           /\ \A i \in DOMAIN groups : i # 1 => i - 1 \in 1..Len(rest) /\ groups[i] = rest[i - 1]
      BY <2>6, <2>9, <2>10
    <2>12. in.anchor \in groups[1]
      BY <2>3, <2>4, <2>7, <2>11
    <2>13. UNION Range(groups) = P
      <3>1. ASSUME NEW x \in P PROVE \E i \in DOMAIN groups : x \in groups[i]
        <4>1. CASE x \in V
          BY <4>1, <2>6, <2>11
        <4>2. CASE x \notin V
          <5>1. 1 \in DOMAIN groups
            BY <2>6, <2>10
          <5> QED
            BY <4>2, <5>1, <2>4, <2>11
        <4> QED
          BY <4>1, <4>2
      <3>2. \A i \in DOMAIN groups : groups[i] \in SUBSET P
        BY <2>9, <2>10, <2>11, <2>3, <2>4, <2>6
      <3> QED
        BY <3>1, <3>2 DEF Range
    <2>14. ASSUME NEW i \in DOMAIN groups, NEW j \in DOMAIN groups, i # j
           PROVE  groups[i] \cap groups[j] = {}
      <3>1. \A l \in 1..Len(rest) : rest[l] \in SUBSET V
        BY <2>6
      <3>2. CASE i = 1
        BY <3>1, <3>2, <2>4, <2>11, <2>14
      <3>3. CASE j = 1
        BY <3>1, <3>3, <2>4, <2>11, <2>14
      <3>4. CASE i # 1 /\ j # 1
        <4>1. i - 1 \in 1..Len(rest) /\ j - 1 \in 1..Len(rest) /\ i - 1 # j - 1
          BY <3>4, <2>10, <2>11, <2>14, <2>6
        <4> QED
          BY <4>1, <3>4, <2>6, <2>11
      <3> QED
        BY <3>2, <3>3, <3>4
    <2> QED
      BY <2>12, <2>13, <2>14 DEF groups, P
  <1> QED
    BY <1>1, Zenon DEF GroupsPartition, Chosen

-----------------------------------------------------------------------------
(* The loops of the schedule.  Induction over data is by the least         *)
(* counterexample; the folds of the library are unfolded element by        *)
(* element (FoldExists).  First HealDeadline's loop: it returns the latest *)
(* sweep at or before the fork. *)

LEMMA LeastNatural ==
    ASSUME NEW T, T \subseteq Nat, T # {}
    PROVE  \E d \in T : \A e \in T : d <= e
  <1> DEFINE below == {0..e : e \in T}
  <1>1. below \subseteq FiniteSubsetsOf(Nat) /\ below # {}
    <2>1. \A e \in T : 0..e \in SUBSET Nat /\ IsFiniteSet(0..e)
      BY FS_Interval
    <2> QED
      BY <2>1, Zenon DEF FiniteSubsetsOf
  <1>2. PICK x \in below : \A y \in below : ~(<<y, x>> \in StrictSubsetOrdering(Nat))
    BY <1>1, WFMin, FS_StrictSubsetOrderingWellFounded
  <1>3. PICK d \in T : x = 0..d
    OBVIOUS
  <1>4. ASSUME NEW e \in T, e < d PROVE FALSE
    <2>1. 0..e \in below /\ 0..e \subseteq 0..d /\ 0..e # 0..d /\ 0..d \subseteq Nat
      BY <1>4
    <2> QED
      BY <1>2, <1>3, <2>1 DEF StrictSubsetOrdering
  <1> QED
    BY <1>4

(* Induction up to n, by the least counterexample. *)
LEMMA UpTo ==
    ASSUME NEW n \in Nat, NEW T, 0 \in T,
           \A i \in 0..(n - 1) : i \in T => i + 1 \in T
    PROVE  \A i \in 0..n : i \in T
  <1> DEFINE Out == {i \in 0..n : i \notin T}
  <1>1. SUFFICES ASSUME Out # {} PROVE FALSE
    OBVIOUS
  <1>2. PICK m \in Out : \A i \in Out : m <= i
    <2>1. IsFiniteSet(0..n)
      BY FS_Interval
    <2>2. Out \in SUBSET Nat
      OBVIOUS
    <2> HIDE DEF Out
    <2> QED
      BY <1>1, <2>2, LeastNatural
  <1>3. m # 0 /\ m - 1 \in 0..(n - 1) /\ m - 1 \notin Out
    BY <1>2
  <1> QED
    BY <1>2, <1>3

(* What a fold over a finite set computes: values for all subsets, each    *)
(* from a smaller one's. *)
Unfolds(g, V, base, pick, step) ==
    \A s \in SUBSET V :
        g[s] = IF s = {} THEN base ELSE step[pick[s]][g[s \ {pick[s]}]]

Foldable(V, A, base, pick, step) ==
    /\ IsFiniteSet(V) /\ base \in A
    /\ \A s \in SUBSET V : s # {} => pick[s] \in s
    /\ \A x \in V, a \in A : step[x][a] \in A

LEMMA FoldExists ==
    ASSUME NEW V, NEW A, NEW base, NEW pick, NEW step, Foldable(V, A, base, pick, step)
    PROVE  \E g \in [SUBSET V -> A] : Unfolds(g, V, base, pick, step)
  <1> DEFINE Up(c) == {s \in SUBSET V : Cardinality(s) <= c}
             Body(g, s) == IF s = {} THEN base ELSE step[pick[s]][g[s \ {pick[s]}]]
             Good(g, c) == g \in [Up(c) -> A] /\ \A s \in Up(c) : g[s] = Body(g, s)
             T == {c \in Nat : \E g : Good(g, c)}
             n == Cardinality(V)
  <1>1. /\ IsFiniteSet(V) /\ base \in A
        /\ \A s \in SUBSET V : s # {} => pick[s] \in s
        /\ \A x \in V, a \in A : step[x][a] \in A
    BY DEF Foldable
  <1>2. \A s \in SUBSET V : IsFiniteSet(s) /\ Cardinality(s) \in Nat /\ Cardinality(s) <= n
    BY <1>1, FS_Subset, FS_CardinalityType
  <1>3. n \in Nat
    BY <1>1, FS_CardinalityType
  <1>4. 0 \in T
    <2> DEFINE g == [s \in Up(0) |-> base]
    <2>1. \A s \in Up(0) : s = {}
      BY <1>2, FS_EmptySet
    <2>2. Good(g, 0)
      BY <2>1, <1>1
    <2> QED
      BY <2>2
  <1>5. ASSUME NEW c \in Nat, c \in T PROVE c + 1 \in T
    <2>1. PICK g : Good(g, c)
      BY <1>5
    <2> DEFINE h == [s \in Up(c + 1) |-> Body(g, s)]
    <2>2. ASSUME NEW s \in Up(c + 1), s # {}
          PROVE  /\ pick[s] \in V /\ s \ {pick[s]} \in Up(c)
                 /\ s \ {pick[s]} \in Up(c + 1) /\ g[s \ {pick[s]}] \in A
      <3>1. s \in SUBSET V /\ pick[s] \in s
        BY <1>1, <2>2
      <3>2. Cardinality(s \ {pick[s]}) = Cardinality(s) - 1
        BY <1>2, <3>1, FS_RemoveElement
      <3>3. s \ {pick[s]} \in Up(c)
        BY <1>2, <3>1, <3>2
      <3> HIDE DEF Up
      <3>4. g[s \ {pick[s]}] \in A
        BY <2>1, <3>3
      <3> QED
        BY <3>1, <3>3, <3>4, <1>2 DEF Up
    <2>3. h \in [Up(c + 1) -> A]
      BY <1>1, <2>2
    <2>4. \A s \in Up(c) : s \in Up(c + 1) /\ h[s] = g[s]
      <3>1. \A s \in Up(c) : s \in Up(c + 1)
        BY <1>2
      <3> QED
        BY <3>1, <2>1
    <2>5. \A s \in Up(c + 1) : h[s] = Body(h, s)
      BY <2>2, <2>4
    <2>6. Good(h, c + 1)
      BY <2>3, <2>5
    <2> HIDE DEF Good, h
    <2> QED
      BY <2>6
  <1>6. n \in T
    <2> HIDE DEF T, n
    <2> QED
      BY <1>3, <1>4, <1>5, UpTo
  <1>7. PICK g : Good(g, n)
    BY <1>6
  <1>8. Up(n) = SUBSET V
    BY <1>2
  <1> QED
    BY <1>7, <1>8 DEF Unfolds

(* The prefixes over which FoldLeft goes. *)
LEMMA FoldOrder ==
    ASSUME NEW n \in Nat
    PROVE  /\ IsFiniteSet(1..n)
           /\ \A s \in SUBSET (1..n) : s # {} => Max(s) \in s
           /\ 1..0 = {} /\ 1..0 \in SUBSET (1..n)
           /\ \A i \in 1..n : /\ 1..i \in SUBSET (1..n) /\ 1..i # {}
                              /\ Max(1..i) = i /\ (1..i) \ {i} = 1..(i - 1)
  <1>1. IsFiniteSet(1..n)
    BY FS_Interval
  <1>2. ASSUME NEW s \in SUBSET (1..n), s # {} PROVE Max(s) \in s /\ \A x \in s : x <= Max(s)
    <2>1. IsFiniteSet(s)
      BY <1>1, FS_Subset
    <2>2. s \in SUBSET Int
      OBVIOUS
    <2> QED
      BY <1>2, <2>1, <2>2, MaxOfInstants
  <1>3. ASSUME NEW i \in 1..n
        PROVE  /\ 1..i \in SUBSET (1..n) /\ 1..i # {}
               /\ Max(1..i) = i /\ (1..i) \ {i} = 1..(i - 1)
    <2>1. 1..i \in SUBSET (1..n) /\ i \in 1..i
      OBVIOUS
    <2>2. Max(1..i) \in 1..i /\ i <= Max(1..i)
      BY <2>1, <1>2
    <2>3. (1..i) \ {i} = 1..(i - 1)
      OBVIOUS
    <2> QED
      BY <2>1, <2>2, <2>3
  <1>4. 1..0 = {}
    OBVIOUS
  <1> QED
    BY <1>1, <1>2, <1>3, <1>4

(* HealDeadline's loop, sweep by sweep. *)
DeadlineBody(g, s, fork, list) ==
    IF s = {} THEN fork ELSE deadlineStep(fork, g[s \ {Max(s)}], list[Max(s)])

LastDeadline(fork, list) ==
    FoldLeft(LAMBDA d, f : deadlineStep(fork, d, f), fork, list)

Loops(after, n, fork, list) ==
    /\ after[0] = fork
    /\ \A i \in 1..n : after[i] = deadlineStep(fork, after[i - 1], list[i])
    /\ after[n] = LastDeadline(fork, list)

LEMMA DeadlineLoop ==
    ASSUME NEW fork \in Int, NEW n \in Nat, NEW list, DOMAIN list = 1..n,
           \A i \in 1..n : list[i] \in Int
    PROVE  \E after : Loops(after, n, fork, list)
  <1> DEFINE D == DOMAIN list
             P(g) == g = [s \in SUBSET D |-> DeadlineBody(g, s, fork, list)]
             F == CHOOSE g : P(g)
             pick == [s \in SUBSET D |-> Max(s)]
             step == [i \in D |-> [a \in Int |-> deadlineStep(fork, a, list[i])]]
             after == [i \in 0..n |-> F[1..i]]
  <1>1. LastDeadline(fork, list) = F[D]
    BY Zenon DEF LastDeadline, FoldLeft, MapThenFoldSet, DeadlineBody
  <1>2. Foldable(D, Int, fork, pick, step)
    <2>1. \A i \in D, a \in Int : step[i][a] \in Int
      BY DEF deadlineStep
    <2>2. \A s \in SUBSET D : s # {} => pick[s] \in s
      BY FoldOrder
    <2>3. D = 1..n /\ IsFiniteSet(1..n)
      <3>1. IsFiniteSet(1..n)
        BY FS_Interval, 1 \in Int, n \in Int, Zenon
      <3> QED
        BY <3>1
    <2> HIDE DEF D, pick, step
    <2> QED
      BY <2>1, <2>2, <2>3, Zenon DEF Foldable
  <1>3. \E g : P(g)
    <2>1. PICK g \in [SUBSET D -> Int] : Unfolds(g, D, fork, pick, step)
      <3> HIDE DEF D, pick, step
      <3> QED
        BY <1>2, FoldExists
    <2>2. ASSUME NEW s \in SUBSET D PROVE g[s] = DeadlineBody(g, s, fork, list)
      <3>1. CASE s = {}
        BY <3>1, <2>1 DEF Unfolds, DeadlineBody
      <3>2. CASE s # {}
        <4>1. Max(s) \in s /\ Max(s) \in D /\ s \ {Max(s)} \in SUBSET D
          BY <3>2, FoldOrder
        <4>2. g[s] = step[pick[s]][g[s \ {pick[s]}]] /\ pick[s] = Max(s)
          BY <3>2, <2>1 DEF Unfolds
        <4>3. g[s \ {Max(s)}] \in Int
          BY <4>1, <2>1
        <4> QED
          BY <3>2, <4>1, <4>2, <4>3 DEF DeadlineBody
      <3> QED
        BY <3>1, <3>2
    <2>3. P(g)
      BY <2>1, <2>2
    <2> QED
      BY <2>3
  <1>4. P(F)
    <2> HIDE DEF P
    <2> QED
      BY <1>3
  <1>5. \A s \in SUBSET D : F[s] = DeadlineBody(F, s, fork, list)
    <2> HIDE DEF F
    <2> QED
      BY <1>4
  <1> HIDE DEF F, P, pick, step
  <1>6. after[0] = fork
    <2>1. 1..0 \in SUBSET D /\ 1..0 = {}
      BY FoldOrder
    <2>2. F[1..0] = fork
      BY <2>1, <1>5 DEF DeadlineBody
    <2> QED
      BY <2>2
  <1>7. ASSUME NEW i \in 1..n PROVE after[i] = deadlineStep(fork, after[i - 1], list[i])
    <2>1. 1..i \in SUBSET D /\ 1..i # {} /\ Max(1..i) = i /\ (1..i) \ {i} = 1..(i - 1)
      BY FoldOrder
    <2>2. F[1..i] = DeadlineBody(F, 1..i, fork, list)
      BY <2>1, <1>5
    <2>3. F[1..i] = deadlineStep(fork, F[1..(i - 1)], list[i])
      BY <2>1, <2>2, Zenon DEF DeadlineBody
    <2> QED
      BY <2>3
  <1>8. after[n] = F[D]
    OBVIOUS
  <1> QED
    BY <1>1, <1>6, <1>7, <1>8 DEF Loops

(* Over ascending sweeps the loop ends at the last one up to the fork. *)
LEMMA DeadlineIsLast ==
    ASSUME NEW fork \in Int, NEW n \in Nat, NEW list, DOMAIN list = 1..n,
           \A i \in 1..n : list[i] \in Int,
           \A i, j \in 1..n : i < j => list[i] < list[j],
           NEW first \in 1..n, list[first] <= fork,
           NEW d, d = LastDeadline(fork, list)
    PROVE  /\ d \in Range(list) /\ d <= fork
           /\ \A f \in Range(list) : f <= fork => f <= d
  <1>0. PICK after : Loops(after, n, fork, list)
    BY DeadlineLoop
  <1>1. /\ after[0] = fork
        /\ \A i \in 1..n : after[i] = deadlineStep(fork, after[i - 1], list[i])
        /\ after[n] = d
    BY <1>0 DEF Loops
  <1> DEFINE None(i) == after[i] = fork /\ \A j \in 1..i : list[j] > fork
             Held(i) == \E m \in 1..i : /\ after[i] = list[m] /\ list[m] <= fork
                                        /\ \A j \in 1..i : list[j] <= fork => j <= m
             T == {i \in 0..n : None(i) \/ Held(i)}
  <1>2. 0 \in T
    BY <1>1
  <1>3. ASSUME NEW i \in 0..(n - 1), i \in T PROVE i + 1 \in T
    <2>0. /\ i + 1 \in 1..n /\ (i + 1) - 1 = i
          /\ \A j \in 1..(i + 1) : j = i + 1 \/ j \in 1..i
          /\ \A j \in 1..i : j \in 1..(i + 1) /\ j \in 1..n
      OBVIOUS
    <2>1. after[i + 1] = deadlineStep(fork, after[i], list[i + 1])
      BY <1>1, <2>0
    <2>2. list[i + 1] \in Int
      BY <2>0
    <2>3. CASE list[i + 1] > fork
      <3>1. after[i] \in Int
        BY <1>3, <2>0
      <3>2. after[i + 1] = after[i]
        BY <2>1, <2>2, <2>3, <3>1 DEF deadlineStep
      <3>3. CASE None(i)
        <4>1. None(i + 1)
          BY <3>2, <3>3, <2>0, <2>3
        <4> QED
          BY <4>1, <2>0
      <3>4. CASE Held(i)
        <4>1. PICK m \in 1..i : /\ after[i] = list[m] /\ list[m] <= fork
                                /\ \A j \in 1..i : list[j] <= fork => j <= m
          BY <3>4
        <4>2. m \in 1..(i + 1) /\ \A j \in 1..(i + 1) : list[j] <= fork => j <= m
          <5>1. m \in 1..(i + 1)
            BY <4>1, <2>0, Zenon
          <5>2. ASSUME NEW j \in 1..(i + 1), list[j] <= fork PROVE j <= m
            <6>1. j # i + 1
              <7>1. ~(list[i + 1] <= fork)
                BY <2>2, <2>3
              <7> QED
                BY <5>2, <7>1, Zenon
            <6> QED
              BY <4>1, <2>0, <5>2, <6>1, Zenon
          <5> QED
            BY <5>1, <5>2, Zenon
        <4>3. Held(i + 1)
          BY <4>1, <4>2, <3>2
        <4> QED
          BY <4>3, <2>0
      <3> QED
        BY <3>3, <3>4, <1>3
    <2>4. CASE list[i + 1] <= fork
      <3>1. after[i] = fork \/ after[i] < list[i + 1]
        <4>1. CASE Held(i)
          <5>1. PICK m \in 1..i : after[i] = list[m]
            BY <4>1
          <5>2. list[m] < list[i + 1]
            BY <5>1, <2>0
          <5> QED
            BY <5>1, <5>2
        <4> QED
          BY <4>1, <1>3
      <3>2. after[i + 1] = list[i + 1]
        BY <2>1, <2>2, <2>4, <3>1 DEF deadlineStep
      <3>3. Held(i + 1)
        <4>1. i + 1 \in 1..(i + 1) /\ \A j \in 1..(i + 1) : j <= i + 1
          OBVIOUS
        <4> QED
          BY <4>1, <3>2, <2>4
      <3> QED
        BY <3>3, <2>0
    <2> QED
      BY <2>2, <2>3, <2>4
  <1>4. n \in T
    <2>1. n \in 0..n
      OBVIOUS
    <2> HIDE DEF T
    <2> QED
      BY <2>1, <1>2, <1>3, UpTo
  <1>5. Held(n)
    <2>1. list[first] \in Int
      OBVIOUS
    <2>2. ~None(n)
      BY <2>1
    <2> QED
      BY <2>2, <1>4
  <1>6. PICK m \in 1..n : /\ d = list[m] /\ list[m] <= fork
                          /\ \A j \in 1..n : list[j] <= fork => j <= m
    BY <1>5, <1>1
  <1>7. ASSUME NEW f \in Range(list), f <= fork PROVE f <= d
    <2>1. PICK j \in 1..n : f = list[j]
      BY DEF Range
    <2>2. j < m \/ j = m
      BY <2>1, <1>6, <1>7
    <2> QED
      BY <2>1, <2>2, <1>6
  <1>8. d \in Range(list)
    BY <1>6 DEF Range
  <1> QED
    BY <1>6, <1>7, <1>8

(* HealDeadline returns the latest sweep at or before the fork for a pre-fork op. *)
LEMMA DeadlineFacts ==
    ASSUME NEW in, in.gap \in Nat, resolves(in), NEW o \in Chosen(in)
    PROVE  LET s == Resolve(in) IN
           /\ HealDeadline(s, o) >= Latest(o)
           /\ o.class \in {"deep", "short"} =>
                 HealDeadline(s, o) = Max({f \in Range(s.failsafes) : f <= in.gap})
  <1> DEFINE s == Resolve(in)
             list == s.failsafes
             S == SweepSet(in)
             n == Cardinality(S)
             upTo == {f \in Range(list) : f <= in.gap}
             d == LastDeadline(s.fork, list)
  <1>0. in.profile \in DOMAIN profiles /\ OpShape(o, in.gap)
    BY ResolvesFacts
  <1>1. /\ s.fork = in.gap /\ Range(list) = S
        /\ S \in SUBSET Int /\ IsFiniteSet(S)
    BY <1>0, SweepSetFacts DEF Resolve
  <1>2. /\ n \in Nat /\ DOMAIN list = 1..n
        /\ \A i \in 1..n : list[i] \in Int
        /\ \A i, j \in 1..n : i < j => list[i] < list[j]
        /\ \A x \in S : \E i \in 1..n : list[i] = x
    <2> DEFINE sorted == SortedBy(S, <)
    <2>1. list = sorted
      BY <1>0, SweepSetFacts DEF Resolve
    <2>2. /\ Cardinality(S) \in Nat /\ DOMAIN sorted = 1..Cardinality(S)
          /\ \A i \in DOMAIN sorted : sorted[i] \in S
          /\ \A x \in S : \E i \in DOMAIN sorted : sorted[i] = x
          /\ \A i, j \in DOMAIN sorted : i < j => sorted[i] < sorted[j]
      <3> HIDE DEF S
      <3> QED
        BY <1>1, SortedOnce
    <2> HIDE DEF sorted, list, S
    <2> QED
      BY <2>1, <2>2, <1>1
  <1>3. deadlineOf(in) \in S /\ deadlineOf(in) = in.gap - preForkMargin /\ preForkMargin = 390
    BY DEF SweepSet, preForkSweeps, deadlineOf, preForkMargin
  <1>4. PICK first \in 1..n : list[first] = deadlineOf(in)
    BY <1>2, <1>3
  <1>5. list[first] <= in.gap
    BY <1>3, <1>4
  <1>6. /\ d \in Range(list) /\ d <= in.gap
        /\ \A f \in Range(list) : f <= in.gap => f <= d
    <2> HIDE DEF list, n
    <2> HIDE DEF s
    <2>1. s.fork \in Int /\ list[first] <= s.fork
      BY <1>1, <1>5
    <2>2. /\ d \in Range(list) /\ d <= s.fork
          /\ \A f \in Range(list) : f <= s.fork => f <= d
      BY <2>1, <1>2, <1>4, DeadlineIsLast
    <2> QED
      BY <2>2, <1>1
  <1>7. d = Max(upTo)
    <2>1. upTo \in SUBSET Int /\ IsFiniteSet(upTo)
      <3>1. upTo \in SUBSET S
        BY <1>1
      <3> QED
        BY <3>1, <1>1, FS_Subset
    <2>2. d \in upTo /\ \A f \in upTo : f <= d
      BY <1>6
    <2>4. d \in Int
      BY <2>1, <2>2
    <2> HIDE DEF upTo, d
    <2>3. Max(upTo) \in upTo /\ \A f \in upTo : f <= Max(upTo)
      BY <2>1, <2>2, MaxOfInstants
    <2>5. Max(upTo) <= d /\ d <= Max(upTo) /\ Max(upTo) \in Int
      BY <2>1, <2>2, <2>3
    <2> QED
      BY <2>4, <2>5
  <1>8. CASE o.class \in PreFork
    <2>1. HealDeadline(s, o) = d
      BY <1>8, Zenon DEF HealDeadline, PreFork, LastDeadline
    <2>2. Latest(o) <= in.gap - preForkMargin /\ Latest(o) \in Int
      BY <1>0, <1>8, ChosenFacts DEF OpShape, PreFork
    <2>3. in.gap - preForkMargin <= d /\ d \in Int
      <3> HIDE DEF s, list, S, d
      <3>1. d \in S /\ \A f \in S : f \in Int
        BY <1>1, <1>6
      <3>2. deadlineOf(in) <= d
        BY <1>1, <1>3, <1>6
      <3> QED
        BY <3>1, <3>2, <1>3
    <2>4. HealDeadline(s, o) >= Latest(o)
      <3> HIDE DEF d, s
      <3> QED
        BY <2>1, <2>2, <2>3, <1>3
    <2> HIDE DEF d
    <2> QED
      BY <2>1, <2>4, <1>7, Zenon
  <1>9. CASE o.class \notin PreFork
    <2>1. o.class \in {"straddle", "window"} /\ Latest(o) \in Int
      BY <1>0, <1>9 DEF OpShape
    <2>2. HealDeadline(s, o) = Latest(o) + healConvergeAllowance
      BY <2>1 DEF HealDeadline
    <2> QED
      BY <2>1, <2>2, <1>9 DEF healConvergeAllowance, PreFork
  <1> QED
    BY <1>8, <1>9

-----------------------------------------------------------------------------
(* The islands' stake: the sum over a group is what its anchor and its     *)
(* lights weigh (StakeIsWeight), and admission compares just that.         *)

StakeOf(in, S) == MapThenSumSet(LAMBDA p : Stake(in, p), S)

(* What a group weighs: the anchor's stake, if it is in it, and the same  *)
(* for each of the others. *)
Weight(in, S) ==
    (IF in.anchor \in S THEN AnchorStake(in) ELSE 0)
      + Cardinality(S \ {in.anchor}) * LightStake(in)

SumBody(in, g, s) ==
    IF s = {} THEN 0
    ELSE Stake(in, CHOOSE x \in s : TRUE) + g[s \ {CHOOSE x \in s : TRUE}]

LEMMA OneLess ==
    ASSUME NEW c \in Nat, c >= 1, NEW l \in Int
    PROVE  c * l = l + (c - 1) * l
  OBVIOUS

LEMMA WeightStep ==
    ASSUME NEW in, in.participants \in Nat, in.permille \in Int,
           NEW S, IsFiniteSet(S), NEW x \in S
    PROVE  /\ Weight(in, S) \in Int /\ Weight(in, S \ {x}) \in Int
           /\ Weight(in, S) = Stake(in, x) + Weight(in, S \ {x})
  <1> DEFINE a == in.anchor
             l == LightStake(in)
             R == S \ {a}
  <1>1. AnchorStake(in) \in Int /\ l \in Int
    BY DEF AnchorStake, LightStake
  <1>2. IsFiniteSet(R) /\ Cardinality(R) \in Nat
    BY FS_Subset, FS_CardinalityType
  <1>3. CASE x = a
    <2>1. (S \ {x}) \ {a} = R /\ a \notin S \ {x} /\ a \in S
      BY <1>3
    <2>2. Stake(in, x) = AnchorStake(in)
      BY <1>3 DEF Stake
    <2> HIDE DEF l, R
    <2>3. Weight(in, S) = AnchorStake(in) + Cardinality(R) * l
      BY <2>1 DEF Weight, R, l
    <2>4. Weight(in, S \ {x}) = 0 + Cardinality(R) * l
      BY <2>1 DEF Weight, l
    <2> QED
      BY <1>1, <1>2, <2>2, <2>3, <2>4
  <1>4. CASE x # a
    <2>1. (S \ {x}) \ {a} = R \ {x} /\ x \in R /\ (a \in S \ {x} <=> a \in S)
      BY <1>4
    <2>2. Cardinality(R \ {x}) = Cardinality(R) - 1 /\ Cardinality(R) >= 1
      <3>1. Cardinality(R \ {x}) = Cardinality(R) - 1
        BY <1>2, <2>1, FS_RemoveElement
      <3>2. Cardinality(R \ {x}) \in Nat
        BY <1>2, FS_Subset, FS_CardinalityType
      <3> QED
        BY <3>1, <3>2, <1>2
    <2>3. Stake(in, x) = l
      BY <1>4 DEF Stake
    <2> DEFINE w == IF a \in S THEN AnchorStake(in) ELSE 0
    <2>4. w \in Int
      BY <1>1
    <2>5. Weight(in, S) = w + Cardinality(R) * l
      BY DEF Weight
    <2>6. Weight(in, S \ {x}) = w + (Cardinality(R) - 1) * l
      BY <2>1, <2>2 DEF Weight
    <2> HIDE DEF l, R, w
    <2>7. Cardinality(R) * l = l + (Cardinality(R) - 1) * l
      BY <1>1, <1>2, <2>2, OneLess
    <2>8. (Cardinality(R) - 1) * l \in Int
      BY <1>1, <1>2
    <2> QED
      BY <1>1, <2>3, <2>4, <2>5, <2>6, <2>7, <2>8
  <1> QED
    BY <1>3, <1>4

LEMMA StakeIsWeight ==
    ASSUME NEW in, in.participants \in Nat, in.permille \in Int, NEW S, IsFiniteSet(S)
    PROVE  StakeOf(in, S) = Weight(in, S)
  <1> DEFINE P(g) == g = [s \in SUBSET S |-> SumBody(in, g, s)]
             F == CHOOSE g : P(g)
             h == [s \in SUBSET S |-> Weight(in, s)]
             n == Cardinality(S)
             T == {c \in 0..n : \A s \in SUBSET S : Cardinality(s) <= c => F[s] = Weight(in, s)}
  <1>1. StakeOf(in, S) = F[S]
    BY Zenon DEF StakeOf, MapThenSumSet, MapThenFoldSet, SumBody
  <1>2. \A s \in SUBSET S : IsFiniteSet(s) /\ Cardinality(s) \in Nat /\ Cardinality(s) <= n
    BY FS_Subset, FS_CardinalityType
  <1>3. Weight(in, {}) = 0
    <2>1. Cardinality({} \ {in.anchor}) = 0
      BY FS_EmptySet
    <2>2. LightStake(in) \in Int
      BY DEF LightStake
    <2> QED
      BY <2>1, <2>2 DEF Weight
  <1>4. ASSUME NEW s \in SUBSET S, s # {}
        PROVE  /\ (CHOOSE x \in s : TRUE) \in s
               /\ Weight(in, s) = Stake(in, CHOOSE x \in s : TRUE) + Weight(in, s \ {CHOOSE x \in s : TRUE})
    <2> DEFINE x == CHOOSE y \in s : TRUE
    <2>1. x \in s
      BY <1>4
    <2>2. IsFiniteSet(s)
      BY <1>2
    <2> HIDE DEF x
    <2>3. Weight(in, s) = Stake(in, x) + Weight(in, s \ {x})
      BY <2>1, <2>2, WeightStep
    <2> QED
      BY <2>1, <2>3 DEF x
  <1>5. P(h)
    <2>1. ASSUME NEW s \in SUBSET S PROVE h[s] = SumBody(in, h, s)
      <3>1. CASE s = {}
        BY <3>1, <1>3 DEF SumBody
      <3>2. CASE s # {}
        <4> DEFINE x == CHOOSE y \in s : TRUE
        <4>1. x \in s /\ Weight(in, s) = Stake(in, x) + Weight(in, s \ {x})
          BY <3>2, <1>4
        <4>2. SumBody(in, h, s) = Stake(in, x) + h[s \ {x}]
          BY <3>2 DEF SumBody
        <4> HIDE DEF x
        <4> QED
          BY <4>1, <4>2
      <3> QED
        BY <3>1, <3>2
    <2> QED
      BY <2>1
  <1>6. P(F)
    <2> HIDE DEF P, h
    <2> QED
      BY <1>5
  <1>7. \A s \in SUBSET S : F[s] = SumBody(in, F, s)
    <2> HIDE DEF F
    <2> QED
      BY <1>6
  <1> HIDE DEF F, P
  <1>8. n \in Nat
    BY FS_CardinalityType
  <1>9. 0 \in T
    <2>1. ASSUME NEW s \in SUBSET S, Cardinality(s) <= 0 PROVE F[s] = Weight(in, s)
      <3>1. s = {}
        BY <2>1, <1>2, FS_EmptySet
      <3> QED
        BY <3>1, <1>3, <1>7 DEF SumBody
    <2> QED
      BY <2>1, <1>8
  <1>10. ASSUME NEW c \in 0..(n - 1), c \in T PROVE c + 1 \in T
    <2>1. ASSUME NEW s \in SUBSET S, Cardinality(s) <= c + 1, s # {} PROVE F[s] = Weight(in, s)
      <3> DEFINE x == CHOOSE y \in s : TRUE
      <3>1. x \in s /\ Weight(in, s) = Stake(in, x) + Weight(in, s \ {x})
        BY <2>1, <1>4
      <3>2. F[s] = Stake(in, x) + F[s \ {x}]
        BY <2>1, <1>7 DEF SumBody
      <3> HIDE DEF x
      <3>3. s \ {x} \in SUBSET S /\ Cardinality(s \ {x}) <= c
        <4>1. Cardinality(s \ {x}) = Cardinality(s) - 1
          BY <1>2, <3>1, FS_RemoveElement
        <4> QED
          BY <4>1, <1>2, <2>1
      <3> QED
        BY <3>1, <3>2, <3>3, <1>10
    <2>2. \A s \in SUBSET S : s = {} => F[s] = Weight(in, s)
      BY <1>3, <1>7 DEF SumBody
    <2>3. c + 1 \in 0..n
      BY <1>8
    <2> QED
      BY <2>1, <2>2, <2>3
  <1>11. n \in T
    <2>1. n \in 0..n
      BY <1>8
    <2> HIDE DEF T, n
    <2> QED
      BY <2>1, <1>8, <1>9, <1>10, UpTo
  <1>12. S \in SUBSET S /\ Cardinality(S) <= n
    BY <1>8
  <1>13. F[S] = Weight(in, S)
    BY <1>11, <1>12
  <1> QED
    BY <1>1, <1>13

(* The groups sent to disruptoor: the anchor's side, then all victims      *)
(* together, or each of a mutual op's alone.                               *)
GroupForms(groups, o, participants) ==
    /\ Len(groups) \in Nat
    /\ groups[1] = Others(participants, o.victims)
    /\ \A i \in 2..Len(groups) : \/ ~o.mutual /\ groups[i] = o.victims
                                 \/ o.mutual /\ \E v \in o.victims : groups[i] = {v}

LEMMA GroupsHaveForms ==
    ASSUME NEW o, NEW participants \in Nat, IsFiniteSet(o.victims), o.victims \in SUBSET Int
    PROVE  GroupForms(islands(participants, o), o, participants)
  <1> DEFINE V == o.victims
             O == Others(participants, o.victims)
             n == Cardinality(V)
             list == SortedBy(o.victims, <)
             rest == IF o.mutual THEN [i \in 1..Cardinality(o.victims) |-> {SortedBy(o.victims, <)[i]}]
                                 ELSE <<o.victims>>
             groups == islands(participants, o)
  <1>1. groups = <<O>> \o rest
    BY DEF islands
  <1>2. n \in Nat /\ \A i \in 1..n : list[i] \in V
    BY SortedOnce
  <1>3. /\ o.mutual => rest = [i \in 1..n |-> {list[i]}]
        /\ ~o.mutual => rest = <<V>>
    OBVIOUS
  <1> HIDE DEF V, list, n, rest, O, groups
  <1>4. /\ rest \in Seq(SUBSET V) /\ Len(rest) \in Nat
        /\ \A i \in 1..Len(rest) : \/ ~o.mutual /\ rest[i] = V
                                   \/ o.mutual /\ \E v \in V : rest[i] = {v}
    <2>1. CASE o.mutual
      <3>1. rest = [i \in 1..n |-> {list[i]}] /\ \A i \in 1..n : {list[i]} \in SUBSET V
        BY <2>1, <1>2, <1>3
      <3>2. rest \in Seq(SUBSET V) /\ Len(rest) = n
        BY <3>1, <1>2
      <3> QED
        BY <2>1, <3>1, <3>2, <1>2
    <2>2. CASE ~o.mutual
      <3>1. rest = <<V>> /\ V \in SUBSET V
        BY <2>2, <1>3
      <3>2. rest \in Seq(SUBSET V) /\ Len(rest) = 1 /\ rest[1] = V
        BY <3>1, Single
      <3> QED
        BY <2>2, <3>2
    <2> QED
      BY <2>1, <2>2
  <1> DEFINE B == SUBSET (V \cup O)
             first == <<O>>
  <1>5. first \in Seq(B) /\ Len(first) = 1 /\ first[1] = O /\ groups = first \o rest
    BY <1>1
  <1>6. rest \in Seq(B)
    <2>1. SUBSET V \subseteq B
      OBVIOUS
    <2> HIDE DEF B
    <2> QED
      BY <2>1, <1>4, SeqMonotonic
  <1> HIDE DEF B, first
  <1>7. /\ Len(groups) = Len(first) + Len(rest)
        /\ \A i \in 1..(Len(first) + Len(rest)) : groups[i] =
              IF i <= Len(first) THEN first[i] ELSE rest[i - Len(first)]
    BY <1>5, <1>6, ConcatProperties
  <1>8. Len(groups) = 1 + Len(rest) /\ groups[1] = O
    BY <1>4, <1>5, <1>7
  <1>9. \A i \in 2..Len(groups) : i - 1 \in 1..Len(rest) /\ groups[i] = rest[i - 1]
    BY <1>4, <1>5, <1>7, <1>8
  <1>10. Len(groups) \in Nat
    BY <1>4, <1>8
  <1>11. \A i \in 2..Len(groups) : \/ ~o.mutual /\ groups[i] = V
                                   \/ o.mutual /\ \E v \in V : groups[i] = {v}
    BY <1>4, <1>9
  <1>12. GroupForms(groups, o, participants)
    BY <1>8, <1>10, <1>11, Zenon DEF GroupForms, V, O
  <1> QED
    BY <1>12 DEF groups

Weighed(in) ==
    /\ in.participants \in Nat /\ in.anchor \in 1..in.participants
    /\ in.permille \in 0..1000

LEMMA WeighedFacts ==
    ASSUME NEW in, Weighed(in)
    PROVE  /\ in.participants \in Nat /\ in.anchor \in 1..in.participants
           /\ in.permille \in 0..1000 /\ in.permille \in Nat /\ in.permille <= 1000
  <1> DEFINE p == in.permille
             n == in.participants
             a == in.anchor
  <1>1. n \in Nat /\ a \in 1..n /\ p \in 0..1000
    BY DEF Weighed
  <1>2. p \in Nat /\ p <= 1000
    <2> HIDE DEF p, n, a
    <2> QED
      BY <1>1
  <1> QED
    BY <1>1, <1>2

LEMMA Products ==
    ASSUME NEW c \in Nat, NEW l \in Nat
    PROVE  c * l \in Nat
  OBVIOUS

LEMMA AllStake ==
    ASSUME NEW a \in Int, NEW m \in Int, NEW c \in Int, NEW d \in Int, c + d = m
    PROVE  (a * m + d * (1000 - a)) + c * (1000 - a) = 1000 * m
  <1>1. d * (1000 - a) + c * (1000 - a) = (c + d) * (1000 - a)
    OBVIOUS
  <1>2. a * m + m * (1000 - a) = 1000 * m
    OBVIOUS
  <1>3. /\ a * m \in Int /\ d * (1000 - a) \in Int /\ c * (1000 - a) \in Int
        /\ m * (1000 - a) \in Int /\ (c + d) * (1000 - a) = m * (1000 - a)
    OBVIOUS
  <1> QED
    BY <1>1, <1>2, <1>3

(* Both sides of a partition together hold all stake; the anchor's side    *)
(* holds the anchor's at least, and a light its share.                     *)
LEMMA Sides ==
    ASSUME NEW in, Weighed(in), NEW V \in SUBSET LightSet(in)
    PROVE  LET O == Others(in.participants, V) IN
           /\ StakeOf(in, V) \in Int /\ StakeOf(in, O) \in Int
           /\ StakeOf(in, O) + StakeOf(in, V) = StakeUnit(in)
           /\ StakeOf(in, O) >= AnchorStake(in) /\ AnchorStake(in) \in Int
           /\ LightStake(in) \in Nat
           /\ \A v \in V : StakeOf(in, {v}) = LightStake(in) /\ Stake(in, v) = LightStake(in)
  <1> DEFINE P == 1..in.participants
             O == Others(in.participants, V)
             a == in.anchor
             l == LightStake(in)
             c == Cardinality(V)
             d == Cardinality(O \ {a})
             m == in.participants - 1
  <1>0. /\ in.participants \in Nat /\ a \in P /\ in.permille \in 0..1000
        /\ in.permille \in Int /\ l \in Nat /\ AnchorStake(in) = in.permille * m
        /\ AnchorStake(in) \in Int /\ l = 1000 - in.permille /\ StakeUnit(in) = 1000 * m
        /\ m \in Nat
    <2>1. /\ in.participants \in Nat /\ a \in P /\ in.permille \in 0..1000
          /\ in.permille \in Nat /\ in.permille <= 1000
      <3> HIDE DEF O, l, c, d, m
      <3> QED
        BY WeighedFacts
    <2>2. m \in Nat
      BY <2>1
    <2>3. l = 1000 - in.permille /\ AnchorStake(in) = in.permille * m /\ StakeUnit(in) = 1000 * m
      BY Zenon DEF LightStake, AnchorStake, StakeUnit
    <2>4. l \in Nat
      <3> HIDE DEF l
      <3> QED
        BY <2>1, <2>3
    <2>5. in.permille * m \in Nat
      <3> HIDE DEF m
      <3> QED
        BY <2>1, <2>2, Products
    <2> HIDE DEF m, l, a, P
    <2> QED
      BY <2>1, <2>2, <2>3, <2>4, <2>5
  <1>13. in.participants \in Nat /\ a \in P
    BY DEF Weighed
  <1>1. O = P \ V /\ V \subseteq P /\ a \notin V /\ a \in O /\ V \ {a} = V
    BY <1>13 DEF Others, LightSet
  <1>2. IsFiniteSet(P) /\ Cardinality(P) = in.participants
    BY <1>13, FS_Interval
  <1>3. IsFiniteSet(V) /\ IsFiniteSet(O) /\ IsFiniteSet(O \ {a}) /\ c \in Nat /\ d \in Nat
    BY <1>1, <1>2, FS_Subset, FS_CardinalityType
  <1> DEFINE parts == in.participants
  <1>12. parts \in Nat /\ c \in Nat /\ d \in Nat /\ l \in Nat
    BY <1>0, <1>3
  <1>4. c + d = m
    <2>1. Cardinality(P \ {a}) = Cardinality(P) - 1
      <3> HIDE DEF P, a
      <3> QED
        BY <1>13, <1>2, FS_RemoveElement, Zenon
    <2>2. P \ {a} = V \cup (O \ {a}) /\ V \cap (O \ {a}) = {}
      BY <1>1
    <2>3. Cardinality(V \cup (O \ {a})) = c + d - Cardinality(V \cap (O \ {a}))
      BY <1>3, FS_Union
    <2>4. Cardinality(V \cap (O \ {a})) = 0
      BY <2>2, FS_EmptySet
    <2>5. Cardinality(P) = parts /\ m = parts - 1
      BY <1>2
    <2>6. c + d - 0 = parts - 1
      <3> HIDE DEF P, O, c, d, parts, m
      <3> QED
        BY <2>1, <2>2, <2>3, <2>4, <2>5
    <2> HIDE DEF c, d, parts, m
    <2> QED
      BY <2>5, <2>6, <1>12
  <1>5. StakeOf(in, V) = c * l
    <2>1. StakeOf(in, V) = Weight(in, V)
      BY <1>0, <1>3, StakeIsWeight
    <2>2. Weight(in, V) = 0 + c * l
      BY <1>1 DEF Weight
    <2>3. c * l \in Nat
      <3> HIDE DEF c, l
      <3> QED
        BY <1>12, Products
    <2> HIDE DEF c, l
    <2> QED
      BY <2>1, <2>2, <2>3
  <1>6. StakeOf(in, O) = AnchorStake(in) + d * l
    <2>1. StakeOf(in, O) = Weight(in, O)
      BY <1>0, <1>3, StakeIsWeight
    <2>2. Weight(in, O) = AnchorStake(in) + d * l
      BY <1>1 DEF Weight
    <2> QED
      BY <2>1, <2>2
  <1>7. c * l \in Nat /\ d * l \in Nat
    <2> HIDE DEF c, d, l
    <2>1. c * l \in Nat
      BY <1>12, Products
    <2>2. d * l \in Nat
      BY <1>12, Products
    <2> QED
      BY <2>1, <2>2
  <1>8. (in.permille * m + d * (1000 - in.permille)) + c * (1000 - in.permille) = 1000 * m
    BY <1>0, <1>3, <1>4, AllStake
  <1>9. ASSUME NEW v \in V PROVE StakeOf(in, {v}) = l /\ Stake(in, v) = l
    <2>1. v # a /\ {v} \ {a} = {v} /\ a \notin {v}
      BY <1>1
    <2>2. IsFiniteSet({v}) /\ Cardinality({v}) = 1
      BY FS_Singleton
    <2>3. StakeOf(in, {v}) = Weight(in, {v})
      BY <2>2, <1>0, StakeIsWeight
    <2>4. Weight(in, {v}) = 0 + 1 * l
      BY <2>1, <2>2 DEF Weight
    <2>5. Stake(in, v) = l
      BY <2>1 DEF Stake
    <2> HIDE DEF l
    <2> QED
      BY <2>3, <2>4, <2>5, <1>0
  <1>10. StakeOf(in, O) + StakeOf(in, V) = StakeUnit(in)
    <2> HIDE DEF c, d, m, l, O
    <2> QED
      BY <1>0, <1>5, <1>6, <1>8
  <1>11. StakeOf(in, O) >= AnchorStake(in) /\ StakeOf(in, O) \in Int /\ StakeOf(in, V) \in Int
    <2> HIDE DEF c, d, m, l, O
    <2> QED
      BY <1>0, <1>5, <1>6, <1>7
  <1>14. AnchorStake(in) \in Int /\ l \in Nat
    <2> HIDE DEF P, O, a, l, c, d, m
    <2> QED
      BY <1>0
  <1> QED
    BY <1>9, <1>10, <1>11, <1>14, Zenon

(* Both profiles have a straddle, and the code refuses one whose islands   *)
(* the anchor does not outweigh with room for proposer boost.              *)
LEMMA AnchorOutweighs ==
    ASSUME NEW in, Weighed(in), in.gap \in Nat, resolves(in)
    PROVE  AnchorStake(in) > LightStake(in)
  <1> DEFINE ops == resolveOps(in)
  <1>1. /\ in.profile \in DOMAIN profiles /\ in.participants \in Nat
        /\ \A o \in Range(ops) : admit(o, in)
    BY DEF resolves, topologyOK, Weighed
  <1>2. \E i \in DOMAIN profiles[in.profile] : profiles[in.profile][i].class = "straddle"
    <2>1. in.profile \in {"composite", "compositeSmoke"}
      BY <1>1 DEF profiles
    <2>2. 4 \in DOMAIN profiles.composite /\ profiles.composite[4].class = "straddle"
      BY DEF profiles, Window
    <2>3. 2 \in DOMAIN profiles.compositeSmoke /\ profiles.compositeSmoke[2].class = "straddle"
      BY DEF profiles, Window
    <2> QED
      BY <2>1, <2>2, <2>3
  <1>3. PICK i \in DOMAIN profiles[in.profile] : profiles[in.profile][i].class = "straddle"
    BY <1>2
  <1> DEFINE o == ops[i]
             V == o.victims
             stakes == {Stake(in, v) : v \in V} \cup {0}
             worst == Max(stakes)
  <1>4. o.class = "straddle" /\ DOMAIN ops = DOMAIN profiles[in.profile]
    BY <1>3, OpFields
  <1>5. o \in Range(ops)
    BY <1>4 DEF Range
  <1>6. admitStraddle(o, in)
    <2> HIDE DEF o, ops
    <2> QED
      BY <1>1, <1>4, <1>5, Zenon DEF admit
  <1>7. V # {} /\ 20 * AnchorStake(in) >= 20 * worst + StakeUnit(in)
    BY <1>6 DEF admitStraddle
  <1>8. V \in SUBSET LightSet(in)
    BY <1>1, <1>5, VictimsFacts
  <1> HIDE DEF ops, o, V
  <1>9. PICK v \in V : TRUE
    BY <1>7
  <1>10. /\ \A u \in V : Stake(in, u) = LightStake(in)
         /\ AnchorStake(in) \in Int /\ LightStake(in) \in Nat
    BY <1>8, Sides
  <1>11. stakes = {LightStake(in), 0}
    BY <1>9, <1>10
  <1>12. worst >= LightStake(in) /\ worst \in Int
    <2>1. IsFiniteSet({LightStake(in), 0})
      <3>1. IsFiniteSet({0}) /\ {LightStake(in), 0} = {0} \cup {LightStake(in)}
        BY FS_Singleton
      <3> QED
        BY <3>1, FS_AddElement
    <2>2. stakes \in SUBSET Int /\ stakes # {} /\ IsFiniteSet(stakes)
      BY <1>10, <1>11, <2>1
    <2> HIDE DEF stakes
    <2>3. Max(stakes) \in stakes /\ \A x \in stakes : x <= Max(stakes)
      BY <2>2, MaxOfInstants
    <2> QED
      BY <2>2, <2>3, <1>10, <1>11
  <1>13. StakeUnit(in) > 0 /\ StakeUnit(in) \in Int
    <2>1. v \in 1..in.participants /\ v # in.anchor /\ in.anchor \in 1..in.participants
      BY <1>8, <1>9 DEF LightSet, Weighed
    <2>2. in.participants >= 2
      BY <2>1, <1>1
    <2> QED
      BY <2>2, <1>1 DEF StakeUnit
  <1> HIDE DEF worst
  <1> QED
    BY <1>7, <1>10, <1>12, <1>13

(* Whatever group is cut off, the anchor's outweighs it. *)
AnchorWins(in, groups) ==
    \A i \in 2..Len(groups) : StakeOf(in, groups[i]) < StakeOf(in, groups[1])

LEMMA AnchorsSideWins ==
    ASSUME NEW in, Weighed(in), in.gap \in Nat, resolves(in), NEW o \in Chosen(in)
    PROVE  AnchorWins(in, islands(in.participants, o))
  <1> DEFINE V == o.victims
             O == Others(in.participants, o.victims)
             groups == islands(in.participants, o)
             l == LightStake(in)
             a == AnchorStake(in)
  <1>1. o \in Range(resolveOps(in)) /\ in.participants \in Nat /\ in.profile \in DOMAIN profiles
    BY ResolvesFacts DEF Weighed
  <1>2. V \in SUBSET LightSet(in)
    BY <1>1, VictimsFacts
  <1>3. IsFiniteSet(V) /\ V \in SUBSET Int
    BY <1>1, <1>2, LightsFacts, FS_Subset
  <1>4. GroupForms(groups, o, in.participants)
    BY <1>1, <1>3, GroupsHaveForms
  <1>5. /\ StakeOf(in, V) \in Int /\ StakeOf(in, O) \in Int
        /\ StakeOf(in, O) + StakeOf(in, V) = StakeUnit(in)
        /\ StakeOf(in, O) >= a /\ a \in Int /\ l \in Nat
        /\ \A v \in V : StakeOf(in, {v}) = l
    BY <1>2, Sides
  <1>6. a > l
    BY AnchorOutweighs
  <1>7. PICK i \in DOMAIN resolveOps(in) : o = resolveOps(in)[i]
    <2> DEFINE ops == resolveOps(in)
    <2>1. o \in Range(ops)
      BY <1>1, Zenon
    <2> HIDE DEF ops, V, O, groups, l, a
    <2>2. \E i \in DOMAIN ops : o = ops[i]
      BY <2>1, InRange, Zenon
    <2> QED
      BY <2>2, Zenon DEF ops
  <1>8. o.mutual <=> o.class = "straddle"
    BY <1>7, Zenon DEF resolveOps, resolveOp
  <1>9. o.class \in {"deep", "short", "straddle", "window"}
    <2>1. OpShape(o, in.gap)
      BY ResolvesFacts
    <2> QED
      BY <2>1 DEF OpShape, PreFork
  <1>10. admit(o, in)
    BY <1>1 DEF resolves
  <1>11. ASSUME ~o.mutual PROVE StakeOf(in, V) < StakeOf(in, O)
    <2>1. CASE o.class = "deep"
      <3>1. 2 * StakeOf(in, V) < StakeUnit(in)
        <4>1. admitDeep(o, in)
          BY <2>1, <1>10, Zenon DEF admit
        <4> QED
          BY <4>1, Zenon DEF admitDeep, StakeOf
      <3> HIDE DEF V, O
      <3> QED
        BY <3>1, <1>5
    <2>2. CASE o.class \in {"short", "window"}
      <3>1. \E v \in V : V = {v}
        <4>1. \E v : victimsOf(profiles[in.profile], i, Lights(in)) = {v}
          <5>1. resolveOps(in)[i].class = profiles[in.profile][i].class
            BY <1>7 DEF resolveOps, resolveOp
          <5>2. profiles[in.profile][i].class \in {"short", "window"}
            <6>1. o.class = resolveOps(in)[i].class
              BY <1>7, Zenon
            <6> QED
              BY <5>1, <6>1, <2>2
          <5> QED
            BY <5>2 DEF victimsOf
        <4>2. V = victimsOf(profiles[in.profile], i, Lights(in))
          BY <1>7 DEF resolveOps, resolveOp
        <4> QED
          BY <4>1, <4>2
      <3>2. StakeOf(in, V) = l
        BY <3>1, <1>5
      <3> HIDE DEF V, O, l, a
      <3> QED
        BY <3>2, <1>5, <1>6
    <2> QED
      BY <2>1, <2>2, <1>8, <1>9, <1>11
  <1> HIDE DEF V, O, groups, l, a
  <1>12. ASSUME NEW n \in 2..Len(groups) PROVE StakeOf(in, groups[n]) < StakeOf(in, groups[1])
    <2>1. groups[1] = O
      BY <1>4 DEF GroupForms, O
    <2>2. CASE ~o.mutual /\ groups[n] = V
      BY <2>1, <2>2, <1>11
    <2>3. CASE o.mutual /\ \E v \in V : groups[n] = {v}
      <3>1. StakeOf(in, groups[n]) = l
        BY <2>3, <1>5
      <3> QED
        BY <3>1, <2>1, <1>5, <1>6
    <2> QED
      BY <2>2, <2>3, <1>4 DEF GroupForms, V
  <1> QED
    BY <1>12 DEF AnchorWins, groups

-----------------------------------------------------------------------------
(* Gaps: what its loop keeps true from interval to interval (Sorted).      *)

(* Gaps' loop, interval by interval. *)
GapType == [out : Seq(Int \X Int), cursor : Int, done : BOOLEAN]

GapStart(from) == [out |-> <<>>, cursor |-> from, done |-> FALSE]

GapBody(g, s, from, to, busy) ==
    IF s = {} THEN GapStart(from) ELSE gapStep(g[s \ {Max(s)}], busy[Max(s)], to)

GapEnd(from, to, busy) ==
    FoldLeft(LAMBDA acc, b : gapStep(acc, b, to), [out |-> <<>>, cursor |-> from, done |-> FALSE], busy)

LEMMA MinOfTwo ==
    ASSUME NEW a \in Int, NEW b \in Int
    PROVE  Min({a, b}) = IF a <= b THEN a ELSE b
  <1>1. \E x \in {a, b} : \A y \in {a, b} : x <= y
    OBVIOUS
  <1>2. Min({a, b}) \in {a, b} /\ \A y \in {a, b} : Min({a, b}) <= y
    BY <1>1, Zenon DEF Min
  <1> QED
    BY <1>2

LEMMA GapStepType ==
    ASSUME NEW acc \in GapType, NEW b \in Int \X Int, NEW to \in Int
    PROVE  gapStep(acc, b, to) \in GapType
  <1>1. b[1] \in Int /\ b[2] \in Int /\ acc.cursor \in Int /\ acc.out \in Seq(Int \X Int)
    BY DEF GapType
  <1> DEFINE end == Min({b[1], to})
  <1>2. end \in Int
    BY <1>1, MinOfTwo
  <1>3. <<acc.cursor, end>> \in Int \X Int
    BY <1>1, <1>2
  <1>4. Append(acc.out, <<acc.cursor, end>>) \in Seq(Int \X Int)
    BY <1>1, <1>3, AppendProperties
  <1> DEFINE new == [out |-> IF b[1] > acc.cursor /\ end > acc.cursor
                             THEN Append(acc.out, <<acc.cursor, end>>) ELSE acc.out,
                     cursor |-> b[2], done |-> b[2] >= to]
  <1>5. gapStep(acc, b, to) = IF acc.done \/ b[2] <= acc.cursor THEN acc ELSE new
    BY Zenon DEF gapStep
  <1>6. new \in GapType
    <2> HIDE DEF end
    <2> QED
      BY <1>1, <1>4 DEF GapType
  <1> QED
    BY <1>5, <1>6

GapLoops(after, n, from, to, busy) ==
    /\ after[0] = GapStart(from)
    /\ \A i \in 1..n : after[i] = gapStep(after[i - 1], busy[i], to)
    /\ after[n] = GapEnd(from, to, busy)

LEMMA GapLoop ==
    ASSUME NEW from \in Int, NEW to \in Int, NEW n \in Nat, NEW busy, DOMAIN busy = 1..n,
           \A i \in 1..n : busy[i] \in Int \X Int
    PROVE  \E after : GapLoops(after, n, from, to, busy)
  <1> DEFINE D == DOMAIN busy
             P(g) == g = [s \in SUBSET D |-> GapBody(g, s, from, to, busy)]
             F == CHOOSE g : P(g)
             pick == [s \in SUBSET D |-> Max(s)]
             step == [i \in D |-> [a \in GapType |-> gapStep(a, busy[i], to)]]
             after == [i \in 0..n |-> F[1..i]]
  <1>1. GapEnd(from, to, busy) = F[D]
    BY Zenon DEF GapEnd, FoldLeft, MapThenFoldSet, GapBody, GapStart
  <1>2. Foldable(D, GapType, GapStart(from), pick, step)
    <2>1. \A i \in D, a \in GapType : step[i][a] \in GapType
      BY GapStepType
    <2>2. \A s \in SUBSET D : s # {} => pick[s] \in s
      BY FoldOrder
    <2>3. GapStart(from) \in GapType
      BY DEF GapStart, GapType
    <2>4. D = 1..n /\ IsFiniteSet(1..n)
      <3>1. IsFiniteSet(1..n)
        BY FS_Interval, 1 \in Int, n \in Int, Zenon
      <3> QED
        BY <3>1
    <2> HIDE DEF D, pick, step
    <2> QED
      BY <2>1, <2>2, <2>3, <2>4, Zenon DEF Foldable
  <1>3. \E g : P(g)
    <2>1. PICK g \in [SUBSET D -> GapType] : Unfolds(g, D, GapStart(from), pick, step)
      <3> HIDE DEF D, pick, step
      <3> QED
        BY <1>2, FoldExists
    <2>2. ASSUME NEW s \in SUBSET D PROVE g[s] = GapBody(g, s, from, to, busy)
      <3>1. CASE s = {}
        BY <3>1, <2>1 DEF Unfolds, GapBody
      <3>2. CASE s # {}
        <4>1. Max(s) \in s /\ Max(s) \in D /\ s \ {Max(s)} \in SUBSET D
          BY <3>2, FoldOrder
        <4>2. g[s] = step[pick[s]][g[s \ {pick[s]}]] /\ pick[s] = Max(s)
          BY <3>2, <2>1 DEF Unfolds
        <4>3. g[s \ {Max(s)}] \in GapType
          BY <4>1, <2>1
        <4> QED
          BY <3>2, <4>1, <4>2, <4>3 DEF GapBody
      <3> QED
        BY <3>1, <3>2
    <2>3. P(g)
      BY <2>1, <2>2
    <2> QED
      BY <2>3
  <1>4. P(F)
    <2> HIDE DEF P
    <2> QED
      BY <1>3
  <1>5. \A s \in SUBSET D : F[s] = GapBody(F, s, from, to, busy)
    <2> HIDE DEF F
    <2> QED
      BY <1>4
  <1> HIDE DEF F, P, pick, step
  <1>6. after[0] = GapStart(from)
    <2>1. 1..0 \in SUBSET D /\ 1..0 = {}
      BY FoldOrder
    <2>2. F[1..0] = GapStart(from)
      BY <2>1, <1>5 DEF GapBody
    <2> QED
      BY <2>2
  <1>7. ASSUME NEW i \in 1..n PROVE after[i] = gapStep(after[i - 1], busy[i], to)
    <2>1. 1..i \in SUBSET D /\ 1..i # {} /\ Max(1..i) = i /\ (1..i) \ {i} = 1..(i - 1)
      BY FoldOrder
    <2>2. F[1..i] = GapBody(F, 1..i, from, to, busy)
      BY <2>1, <1>5
    <2>3. F[1..i] = gapStep(F[1..(i - 1)], busy[i], to)
      BY <2>1, <2>2, Zenon DEF GapBody
    <2> QED
      BY <2>3
  <1>8. after[n] = F[D]
    OBVIOUS
  <1> QED
    BY <1>1, <1>6, <1>7, <1>8 DEF GapLoops

(* t lies in one of the half-open intervals of I. *)
Within(I, t) == \E g \in I : g[1] <= t /\ t < g[2]

(* What Gaps' loop has found out of the intervals U it has seen, with the  *)
(* intervals L still ahead: its gaps G lie inside the span and before L,   *)
(* and up to the cursor an instant is in one exactly when U leaves it free.*)
Sorted(G, cursor, done, from, to, U, L) ==
    /\ from <= cursor /\ (done => cursor >= to)
    /\ \A g \in G : /\ g \in Int \X Int
                    /\ from <= g[1] /\ g[1] < g[2] /\ g[2] <= to
                    /\ \A b \in L : g[2] <= b[1]
    /\ ~done => \A b \in U : b[2] <= cursor
    /\ \A t \in Int : from <= t /\ t < to /\ t < cursor => (Within(G, t) <=> ~Within(U, t))

(* One more interval that the gaps so far do not reach. *)
LEMMA SeeLater ==
    ASSUME NEW G, NEW U, NEW b, NEW t \in Int, b \in Int \X Int,
           \A g \in G : g \in Int \X Int /\ g[2] <= b[1],
           Within(G, t) <=> ~Within(U, t)
    PROVE  Within(G, t) <=> ~Within(U \cup {b}, t)
  <1>1. Within(G, t) => t < b[1]
    BY DEF Within
  <1> QED
    BY <1>1 DEF Within

Sortable(G, cursor, done, from, to, U, L, b, M) ==
    /\ cursor \in Int /\ done \in BOOLEAN /\ from \in Int /\ to \in Int
    /\ U \in SUBSET (Int \X Int) /\ b \in L /\ M \in SUBSET L /\ L \in SUBSET (Int \X Int)
    /\ b[1] < b[2] /\ \A c \in M : b[1] <= c[1]
    /\ Sorted(G, cursor, done, from, to, U, L)

SortsOne(G, cursor, done, from, to, U, b, M) ==
    /\ (done \/ b[2] <= cursor) => Sorted(G, cursor, done, from, to, U \cup {b}, M)
    /\ ~(done \/ b[2] <= cursor) =>
          LET end == IF b[1] <= to THEN b[1] ELSE to
              H   == IF b[1] > cursor /\ end > cursor THEN G \cup {<<cursor, end>>} ELSE G
          IN  Sorted(H, b[2], b[2] >= to, from, to, U \cup {b}, M)

LEMMA SortOne ==
    ASSUME NEW G, NEW cursor, NEW done, NEW from, NEW to, NEW U, NEW L, NEW b, NEW M,
           Sortable(G, cursor, done, from, to, U, L, b, M)
    PROVE  SortsOne(G, cursor, done, from, to, U, b, M)
  <1> SUFFICES
        ASSUME cursor \in Int, done \in BOOLEAN, from \in Int, to \in Int,
               U \in SUBSET (Int \X Int), b \in L, M \in SUBSET L,
               L \in SUBSET (Int \X Int), b[1] < b[2], \A c \in M : b[1] <= c[1],
               Sorted(G, cursor, done, from, to, U, L)
        PROVE  /\ (done \/ b[2] <= cursor) => Sorted(G, cursor, done, from, to, U \cup {b}, M)
               /\ ~(done \/ b[2] <= cursor) =>
                    LET end == IF b[1] <= to THEN b[1] ELSE to
                        H   == IF b[1] > cursor /\ end > cursor THEN G \cup {<<cursor, end>>} ELSE G
                    IN  Sorted(H, b[2], b[2] >= to, from, to, U \cup {b}, M)
    BY Zenon DEF Sortable, SortsOne
  <1> DEFINE V == U \cup {b}
  <1>0. b \in Int \X Int /\ b[1] \in Int /\ b[2] \in Int /\ \A c \in M : c[1] \in Int
    OBVIOUS
  <1>1. /\ from <= cursor /\ (done => cursor >= to)
        /\ \A g \in G : /\ g \in Int \X Int
                        /\ from <= g[1] /\ g[1] < g[2] /\ g[2] <= to
                        /\ \A c \in L : g[2] <= c[1]
        /\ ~done => \A c \in U : c[2] <= cursor
        /\ \A t \in Int : from <= t /\ t < to /\ t < cursor => (Within(G, t) <=> ~Within(U, t))
    BY DEF Sorted
  <1>2. \A g \in G : /\ g \in Int \X Int /\ g[1] \in Int /\ g[2] \in Int
                     /\ from <= g[1] /\ g[1] < g[2] /\ g[2] <= to
                     /\ g[2] <= b[1] /\ \A c \in M : g[2] <= c[1]
    BY <1>1
  <1>3. ASSUME NEW t \in Int, from <= t, t < to, t < cursor
        PROVE  Within(G, t) <=> ~Within(V, t)
    <2>1. Within(G, t) <=> ~Within(U, t)
      BY <1>1, <1>3
    <2> QED
      BY <2>1, <1>0, <1>2, SeeLater
  <1>4. ASSUME done \/ b[2] <= cursor PROVE Sorted(G, cursor, done, from, to, V, M)
    <2>1. ~done => \A c \in V : c[2] <= cursor
      BY <1>1, <1>4
    <2> HIDE DEF V
    <2> QED
      BY <2>1, <1>1, <1>2, <1>3 DEF Sorted
  <1>5. ASSUME ~(done \/ b[2] <= cursor)
        PROVE  LET end == IF b[1] <= to THEN b[1] ELSE to
                   H   == IF b[1] > cursor /\ end > cursor THEN G \cup {<<cursor, end>>} ELSE G
               IN  Sorted(H, b[2], b[2] >= to, from, to, V, M)
    <2> DEFINE end == IF b[1] <= to THEN b[1] ELSE to
               new == <<cursor, end>>
               H   == IF b[1] > cursor /\ end > cursor THEN G \cup {<<cursor, end>>} ELSE G
    <2>0. /\ cursor < b[2] /\ ~done /\ \A c \in U : c[2] <= cursor
          /\ end \in Int /\ end <= b[1] /\ end <= to
          /\ new \in Int \X Int /\ new[1] = cursor /\ new[2] = end
      BY <1>0, <1>1, <1>5
    <2>1. from <= b[2] /\ (b[2] >= to => b[2] >= to)
      BY <1>0, <1>1, <2>0
    <2>2. \A c \in V : c[2] <= b[2]
      BY <1>0, <2>0
    <2>3. ASSUME NEW g \in H
          PROVE  /\ g \in Int \X Int
                 /\ from <= g[1] /\ g[1] < g[2] /\ g[2] <= to
                 /\ \A c \in M : g[2] <= c[1]
      <3>1. CASE g \in G
        BY <3>1, <1>2
      <3>2. CASE g \notin G
        <4>1. g = new /\ end > cursor
          BY <3>2, <2>3
        <4>2. \A c \in M : end <= c[1]
          BY <1>0, <2>0
        <4> HIDE DEF end, new
        <4> QED
          BY <4>1, <4>2, <2>0, <1>1
      <3> QED
        BY <3>1, <3>2
    <2>4. \A t \in Int : t >= cursor => ~Within(U, t)
      BY <2>0 DEF Within
    <2>5. ASSUME NEW t \in Int, from <= t, t < to, t < b[2]
          PROVE  Within(H, t) <=> ~Within(V, t)
      <3>1. CASE t < cursor
        <4>1. Within(H, t) <=> Within(G, t)
          <5>1. ~(new[1] <= t)
            BY <3>1, <2>0
          <5> QED
            BY <5>1 DEF Within
        <4> QED
          BY <4>1, <3>1, <1>3, <2>5
      <3>2. CASE t >= cursor /\ t < b[1]
        <4>1. end > cursor /\ b[1] > cursor /\ t < end
          BY <3>2, <2>5, <1>0
        <4>2. Within(H, t)
          <5>1. new \in H /\ new[1] <= t /\ t < new[2]
            BY <4>1, <3>2, <2>0
          <5> QED
            BY <5>1 DEF Within
        <4>3. ~Within(V, t)
          BY <2>4, <3>2, <1>0 DEF Within
        <4> QED
          BY <4>2, <4>3
      <3>3. CASE t >= cursor /\ b[1] <= t
        <4>1. Within(V, t)
          BY <3>3, <2>5 DEF Within
        <4>2. \A g \in H : ~(t < g[2])
          BY <3>3, <1>0, <1>2, <2>0
        <4>3. ~Within(H, t)
          BY <4>2 DEF Within
        <4> QED
          BY <4>1, <4>3
      <3> QED
        BY <3>1, <3>2, <3>3, <1>0
    <2> HIDE DEF end, new, H, V
    <2>6. Sorted(H, b[2], b[2] >= to, from, to, V, M)
      BY <2>1, <2>2, <2>3, <2>5 DEF Sorted
    <2> QED
      BY <2>6 DEF H, end
  <1> QED
    BY <1>4, <1>5

LEMMA AppendRange ==
    ASSUME NEW S, NEW s \in Seq(S), NEW x \in S
    PROVE  Range(Append(s, x)) = Range(s) \cup {x}
  <1> DEFINE a == Append(s, x)
  <1>1. /\ a \in Seq(S) /\ Len(a) = Len(s) + 1 /\ Len(s) \in Nat
        /\ \A i \in 1..Len(s) : a[i] = s[i]
        /\ a[Len(s) + 1] = x
    BY AppendProperties, LenProperties
  <1>2. DOMAIN a = 1..(Len(s) + 1) /\ DOMAIN s = 1..Len(s)
    BY <1>1, LenProperties
  <1> HIDE DEF a
  <1>3. ASSUME NEW y \in Range(a) PROVE y \in Range(s) \cup {x}
    <2>1. PICK i \in 1..(Len(s) + 1) : y = a[i]
      BY <1>2 DEF Range
    <2>2. i \in 1..Len(s) \/ i = Len(s) + 1
      BY <1>1
    <2> QED
      BY <2>1, <2>2, <1>1, <1>2 DEF Range
  <1>4. ASSUME NEW y \in Range(s) PROVE y \in Range(a)
    <2>1. PICK i \in 1..Len(s) : y = s[i]
      BY <1>2 DEF Range
    <2>2. i \in DOMAIN a /\ a[i] = y
      BY <2>1, <1>1, <1>2
    <2> QED
      BY <2>2 DEF Range
  <1>5. x \in Range(a)
    <2>1. Len(s) + 1 \in DOMAIN a
      BY <1>1, <1>2
    <2> QED
      BY <2>1, <1>1 DEF Range
  <1>6. Range(a) = Range(s) \cup {x}
    BY <1>3, <1>4, <1>5
  <1> QED
    BY <1>6 DEF a

(* gapStep is the step of SortOne. *)
LEMMA GapStepSorts ==
    ASSUME NEW acc \in GapType, NEW from \in Int, NEW to \in Int,
           NEW U \in SUBSET (Int \X Int), NEW L, NEW b \in L, NEW M \in SUBSET L,
           L \in SUBSET (Int \X Int), b[1] < b[2], \A c \in M : b[1] <= c[1],
           Sorted(Range(acc.out), acc.cursor, acc.done, from, to, U, L),
           NEW new, new = gapStep(acc, b, to)
    PROVE  Sorted(Range(new.out), new.cursor, new.done, from, to, U \cup {b}, M)
  <1> DEFINE end == IF b[1] <= to THEN b[1] ELSE to
             G   == Range(acc.out)
             H   == IF b[1] > acc.cursor /\ end > acc.cursor THEN G \cup {<<acc.cursor, end>>} ELSE G
             longer == Append(acc.out, <<acc.cursor, end>>)
  <1>1. /\ acc.cursor \in Int /\ acc.done \in BOOLEAN /\ acc.out \in Seq(Int \X Int)
        /\ b[1] \in Int /\ b[2] \in Int
    BY DEF GapType
  <1>2. Min({b[1], to}) = end
    BY <1>1, MinOfTwo
  <1>3. gapStep(acc, b, to) =
           IF acc.done \/ b[2] <= acc.cursor THEN acc
           ELSE [out |-> IF b[1] > acc.cursor /\ end > acc.cursor THEN longer ELSE acc.out,
                 cursor |-> b[2], done |-> b[2] >= to]
    <2> HIDE DEF end
    <2> QED
      BY <1>2, Zenon DEF gapStep
  <1>4. end \in Int
    BY <1>1
  <1>5. Range(longer) = G \cup {<<acc.cursor, end>>}
    <2> HIDE DEF end
    <2> DEFINE T == Int \X Int
               out == acc.out
               gap == <<acc.cursor, end>>
    <2>1. out \in Seq(T) /\ gap \in T
      BY <1>1, <1>4
    <2>2. Range(Append(out, gap)) = Range(out) \cup {gap}
      <3> HIDE DEF T, out, gap
      <3> QED
        BY <2>1, AppendRange
    <2> QED
      BY <2>2, Zenon
  <1> DEFINE cursor == acc.cursor
             done == acc.done
             skips == done \/ b[2] <= cursor
  <1>6. /\ skips => Sorted(G, cursor, done, from, to, U \cup {b}, M)
        /\ ~skips => Sorted(H, b[2], b[2] >= to, from, to, U \cup {b}, M)
    <2>1. cursor \in Int /\ done \in BOOLEAN /\ Sorted(G, cursor, done, from, to, U, L)
      BY <1>1
    <2> HIDE DEF G, cursor, done
    <2>2. Sortable(G, cursor, done, from, to, U, L, b, M)
      BY <2>1, Zenon DEF Sortable
    <2>3. SortsOne(G, cursor, done, from, to, U, b, M)
      BY <2>2, SortOne, Zenon
    <2> QED
      BY <2>3, Zenon DEF SortsOne, cursor, done
  <1> HIDE DEF longer, end, G
  <1>7. CASE skips
    BY <1>3, <1>6, <1>7 DEF G
  <1>8. CASE ~skips
    <2>1. /\ new.cursor = b[2] /\ new.done = (b[2] >= to)
          /\ new.out = IF b[1] > acc.cursor /\ end > acc.cursor THEN longer ELSE acc.out
      BY <1>3, <1>8
    <2>2. Range(new.out) = H
      BY <2>1, <1>5 DEF G
    <2> HIDE DEF H
    <2> QED
      BY <2>1, <2>2, <1>6, <1>8, Zenon
  <1> QED
    BY <1>7, <1>8

(* The intervals of Gaps' loop: sorted by where they begin. *)
Busy(busy, n) ==
    /\ n \in Nat /\ DOMAIN busy = 1..n
    /\ \A i \in 1..n : busy[i] \in Int \X Int /\ busy[i][1] < busy[i][2]
    /\ \A i, j \in 1..n : i < j => busy[i][1] <= busy[j][1]

GapsOf(from, to, busy) ==
    LET end == GapEnd(from, to, busy)
    IN  IF end.done \/ end.cursor >= to THEN end.out
        ELSE Append(end.out, <<end.cursor, to>>)

LEMMA GapsAreFree ==
    ASSUME NEW from \in Int, NEW to \in Int, NEW n, NEW busy, Busy(busy, n)
    PROVE  LET gaps == Range(GapsOf(from, to, busy)) IN
           /\ \A g \in gaps : from <= g[1] /\ g[1] < g[2] /\ g[2] <= to
           /\ \A t \in Int : from <= t /\ t < to => (Within(gaps, t) <=> ~Within(Range(busy), t))
  <1>1. /\ n \in Nat /\ DOMAIN busy = 1..n
        /\ \A i \in 1..n : busy[i] \in Int \X Int /\ busy[i][1] < busy[i][2]
        /\ \A i, j \in 1..n : i < j => busy[i][1] <= busy[j][1]
    BY DEF Busy
  <1>2. PICK after : GapLoops(after, n, from, to, busy)
    BY <1>1, GapLoop
  <1>3. /\ after[0] = GapStart(from)
        /\ \A i \in 1..n : after[i] = gapStep(after[i - 1], busy[i], to)
        /\ after[n] = GapEnd(from, to, busy)
    BY <1>2 DEF GapLoops
  <1> DEFINE Seen(i) == {busy[j] : j \in 1..i}
             Left(i) == {busy[j] : j \in (i + 1)..n}
             Good(i) == /\ after[i] \in GapType
                        /\ Sorted(Range(after[i].out), after[i].cursor, after[i].done, from, to,
                                  Seen(i), Left(i))
             T == {i \in 0..n : Good(i)}
  <1>4. Good(0)
    <2>1. /\ after[0] \in GapType /\ after[0].out = <<>>
          /\ after[0].cursor = from /\ after[0].done = FALSE
      BY <1>3 DEF GapStart, GapType
    <2>2. Range(<<>>) = {}
      BY DEF Range
    <2>3. Seen(0) = {}
      OBVIOUS
    <2>4. Sorted({}, from, FALSE, from, to, {}, Left(0))
      BY DEF Sorted
    <2> QED
      BY <2>1, <2>2, <2>3, <2>4
  <1>5. ASSUME NEW i \in 0..(n - 1), Good(i) PROVE Good(i + 1)
    <2> DEFINE b == busy[i + 1]
    <2>0. i + 1 \in 1..n /\ (i + 1) - 1 = i
      BY <1>1
    <2>1. after[i + 1] = gapStep(after[i], b, to)
      BY <2>0, <1>3
    <2>2. /\ b \in Left(i) /\ b \in Int \X Int /\ b[1] < b[2]
          /\ Seen(i) \in SUBSET (Int \X Int) /\ Left(i) \in SUBSET (Int \X Int)
          /\ Left(i + 1) \in SUBSET Left(i)
      BY <2>0, <1>1
    <2>3. \A c \in Left(i + 1) : b[1] <= c[1]
      BY <2>0, <1>1
    <2>4. Seen(i + 1) = Seen(i) \cup {b}
      <3>1. \A j : j \in 1..(i + 1) <=> j \in 1..i \/ j = i + 1
        BY <2>0
      <3> QED
        BY <3>1
    <2>5. after[i + 1] \in GapType
      BY <2>1, <2>2, <1>5, GapStepType
    <2>6. Sorted(Range(after[i + 1].out), after[i + 1].cursor, after[i + 1].done, from, to,
                 Seen(i) \cup {b}, Left(i + 1))
      <3> DEFINE acc == after[i]
                 U == Seen(i)
                 L == Left(i)
                 M == Left(i + 1)
                 new == after[i + 1]
      <3>1. acc \in GapType /\ Sorted(Range(acc.out), acc.cursor, acc.done, from, to, U, L)
        BY <1>5
      <3> HIDE DEF acc, U, L, M, b, new, Seen, Left
      <3>2. Sorted(Range(new.out), new.cursor, new.done, from, to, U \cup {b}, M)
        <4>1. new = gapStep(acc, b, to)
          BY <2>1 DEF new, acc
        <4>2. /\ b \in L /\ b[1] < b[2] /\ U \in SUBSET (Int \X Int) /\ L \in SUBSET (Int \X Int)
              /\ M \in SUBSET L /\ \A c \in M : b[1] <= c[1]
          BY <2>2, <2>3 DEF U, L, M
        <4> QED
          BY <4>1, <4>2, <3>1, GapStepSorts
      <3> QED
        BY <3>2 DEF U, M, new
    <2> HIDE DEF b, Seen, Left
    <2> QED
      BY <2>4, <2>5, <2>6
  <1>6. Good(n)
    <2> HIDE DEF Good
    <2>1. 0 \in T /\ n \in 0..n
      BY <1>1, <1>4
    <2>2. \A i \in 0..(n - 1) : i \in T => i + 1 \in T
      BY <1>1, <1>5
    <2> HIDE DEF T
    <2>3. n \in T
      BY <2>1, <2>2, <1>1, UpTo
    <2> QED
      BY <2>3 DEF T
  <1> DEFINE end == after[n]
             G == Range(end.out)
             U == Range(busy)
             gaps == GapsOf(from, to, busy)
             last == <<end.cursor, to>>
  <1>7. Seen(n) = U
    BY <1>1 DEF Range
  <1>8. /\ end.out \in Seq(Int \X Int) /\ end.cursor \in Int /\ end.done \in BOOLEAN
        /\ from <= end.cursor
        /\ end.done => end.cursor >= to
        /\ \A g \in G : from <= g[1] /\ g[1] < g[2] /\ g[2] <= to
        /\ ~end.done => \A b \in U : b[2] <= end.cursor
        /\ \A t \in Int : from <= t /\ t < to /\ t < end.cursor => (Within(G, t) <=> ~Within(U, t))
    BY <1>6, <1>7 DEF Sorted, GapType
  <1>9. gaps = IF end.done \/ end.cursor >= to THEN end.out ELSE Append(end.out, last)
    BY <1>3 DEF GapsOf
  <1> HIDE DEF end, U, Seen, Left, Good, T
  <1>10. \A b \in U : b \in Int \X Int
    BY <1>1 DEF U, Range
  <1>11. CASE end.done \/ end.cursor >= to
    <2>1. Range(gaps) = G /\ end.cursor >= to
      BY <1>8, <1>9, <1>11
    <2> HIDE DEF gaps, G
    <2> QED
      BY <2>1, <1>8 DEF gaps, U
  <1>12. CASE ~(end.done \/ end.cursor >= to)
    <2>1. Range(gaps) = G \cup {last}
      <3>1. last \in Int \X Int
        BY <1>8
      <3> QED
        BY <3>1, <1>8, <1>9, <1>12, AppendRange
    <2>2. /\ end.cursor < to /\ last[1] = end.cursor /\ last[2] = to
          /\ \A b \in U : b[2] <= end.cursor
      BY <1>8, <1>12
    <2> HIDE DEF gaps, G, last
    <2>3. \A g \in Range(gaps) : from <= g[1] /\ g[1] < g[2] /\ g[2] <= to
      BY <2>1, <2>2, <1>8
    <2>4. ASSUME NEW t \in Int, from <= t, t < to
          PROVE  Within(Range(gaps), t) <=> ~Within(U, t)
      <3>1. CASE t < end.cursor
        <4>1. Within(G \cup {last}, t) <=> Within(G, t)
          BY <3>1, <2>2, <1>8 DEF Within
        <4> QED
          BY <4>1, <3>1, <2>1, <2>4, <1>8
      <3>2. CASE t >= end.cursor
        <4>1. Within(Range(gaps), t)
          BY <3>2, <2>1, <2>2, <2>4 DEF Within
        <4>2. ~Within(U, t)
          BY <3>2, <2>2, <1>8, <1>10 DEF Within
        <4> QED
          BY <4>1, <4>2
      <3> QED
        BY <3>1, <3>2, <1>8
    <2> QED
      BY <2>3, <2>4 DEF gaps, U
  <1> QED
    BY <1>11, <1>12

(* The order in which Gaps takes the intervals. *)
BusyBefore(a, b) == a[1] < b[1] \/ (a[1] = b[1] /\ a[2] < b[2])

Spans(in) == {<<o.start, Latest(o)>> : o \in Chosen(in)}

SpanOrder(in) == {q \in Spans(in) \X Spans(in) : BusyBefore(q[1], q[2])}

BusyList(in) ==
    SortedBy(Spans(in), LAMBDA a, b : a[1] < b[1] \/ (a[1] = b[1] /\ a[2] < b[2]))

LEMMA SpansFacts ==
    ASSUME NEW in, in.gap \in Nat, resolves(in)
    PROVE  /\ IsFiniteSet(Spans(in))
           /\ \A x \in Spans(in) : x \in Int \X Int /\ x[1] < x[2]
           /\ \A x, y \in Spans(in) : <<x, y>> \in SpanOrder(in) <=> BusyBefore(x, y)
           /\ Orders(SpanOrder(in), Spans(in))
  <1> DEFINE S == Spans(in)
             R == SpanOrder(in)
  <1>1. IsFiniteSet(S)
    <2> DEFINE span == [o \in Chosen(in) |-> <<o.start, Latest(o)>>]
    <2>1. IsFiniteSet(Chosen(in))
      <3>1. Chosen(in) \in SUBSET Range(resolveOps(in))
        BY ChosenFacts
      <3>2. IsFiniteSet(Range(resolveOps(in)))
        BY ResolvesFacts, OpsAreFinite
      <3> QED
        BY <3>1, <3>2, FS_Subset
    <2>2. S = Range(span)
      BY DEF Spans, Range
    <2>3. DOMAIN span = Chosen(in) /\ span = [x \in DOMAIN span |-> span[x]]
      OBVIOUS
    <2> HIDE DEF span, S
    <2> QED
      BY <2>1, <2>2, <2>3, FiniteRange
  <1>2. ASSUME NEW x \in S PROVE x \in Int \X Int /\ x[1] \in Int /\ x[2] \in Int /\ x[1] < x[2]
    <2>1. PICK o \in Chosen(in) : x = <<o.start, Latest(o)>>
      BY DEF Spans
    <2>2. o.start \in Int /\ o.end \in Int /\ Latest(o) \in Int /\ o.start < o.end /\ o.end <= Latest(o)
      BY ResolvesFacts DEF OpShape
    <2> QED
      BY <2>1, <2>2
  <1>3. \A x, y \in S : <<x, y>> \in R <=> BusyBefore(x, y)
    BY DEF SpanOrder
  <1> HIDE DEF S, R
  <1>4. \A x \in S : ~BusyBefore(x, x)
    BY <1>2 DEF BusyBefore
  <1>5. ASSUME NEW x \in S, NEW y \in S, x # y PROVE BusyBefore(x, y) \/ BusyBefore(y, x)
    <2>1. x = <<x[1], x[2]>> /\ y = <<y[1], y[2]>>
      BY <1>2
    <2>2. ~(x[1] = y[1] /\ x[2] = y[2])
      BY <2>1, <1>5
    <2> QED
      BY <2>2, <1>2 DEF BusyBefore
  <1>6. ASSUME NEW x \in S, NEW y \in S, NEW z \in S, BusyBefore(x, y), BusyBefore(y, z)
        PROVE  BusyBefore(x, z)
    <2>1. /\ x[1] \in Int /\ x[2] \in Int /\ y[1] \in Int /\ y[2] \in Int
          /\ z[1] \in Int /\ z[2] \in Int
      BY <1>2
    <2> QED
      BY <2>1, <1>6 DEF BusyBefore
  <1>7. Orders(R, S)
    BY <1>3, <1>4, <1>5, <1>6, Zenon DEF Orders
  <1> QED
    BY <1>1, <1>2, <1>3, <1>7 DEF S, R

LEMMA BusyListFacts ==
    ASSUME NEW in, in.gap \in Nat, resolves(in)
    PROVE  /\ Busy(BusyList(in), Cardinality(Spans(in)))
           /\ Range(BusyList(in)) = Spans(in)
  <1> DEFINE S == Spans(in)
             R == SpanOrder(in)
             list == BusyList(in)
  <1>1. list = [i \in 1..Cardinality(S) |-> CHOOSE x \in S : Cardinality({y \in S : BusyBefore(y, x)}) = i - 1]
    BY Zenon DEF BusyList, SortedBy, BusyBefore
  <1>2. \A x \in S : Rank(S, R, x) = Cardinality({y \in S : BusyBefore(y, x)})
    <2>1. \A x \in S : {y \in S : <<y, x>> \in R} = {y \in S : BusyBefore(y, x)}
      BY SpansFacts
    <2> QED
      BY <2>1 DEF Rank
  <1>3. \A x \in S : x \in Int \X Int /\ x[1] < x[2]
    BY SpansFacts
  <1>4. \A x, y \in S : <<x, y>> \in R <=> BusyBefore(x, y)
    BY SpansFacts
  <1>5. IsFiniteSet(S) /\ Orders(R, S)
    BY SpansFacts
  <1> HIDE DEF list, S, R
  <1>6. \A i \in 1..Cardinality(S) :
           (CHOOSE x \in S : Cardinality({y \in S : BusyBefore(y, x)}) = i - 1)
             = CHOOSE x \in S : Rank(S, R, x) = i - 1
    BY <1>2
  <1>7. list = Ordered(S, R)
    <2>1. Ordered(S, R) = [i \in 1..Cardinality(S) |-> CHOOSE x \in S : Rank(S, R, x) = i - 1]
      BY DEF Ordered
    <2> QED
      BY <1>1, <1>6, <2>1
  <1>8. /\ Cardinality(S) \in Nat /\ DOMAIN list = 1..Cardinality(S)
        /\ \A i \in DOMAIN list : list[i] \in S
        /\ \A x \in S : \E i \in DOMAIN list : list[i] = x
        /\ \A i, j \in DOMAIN list : i < j <=> <<list[i], list[j]>> \in R
    BY <1>5, <1>7, SortedFacts
  <1>9. Range(list) = S
    BY <1>8 DEF Range
  <1>10. \A i, j \in DOMAIN list : i < j => list[i][1] <= list[j][1]
    <2>1. ASSUME NEW i \in DOMAIN list, NEW j \in DOMAIN list, i < j PROVE list[i][1] <= list[j][1]
      <3>1. list[i] \in S /\ list[j] \in S /\ BusyBefore(list[i], list[j])
        BY <2>1, <1>4, <1>8
      <3>2. list[i][1] \in Int /\ list[j][1] \in Int
        BY <3>1, <1>3
      <3> QED
        BY <3>1, <3>2 DEF BusyBefore
    <2> QED
      BY <2>1
  <1>11. Busy(list, Cardinality(S))
    BY <1>3, <1>8, <1>10 DEF Busy
  <1> QED
    BY <1>9, <1>11 DEF list, S

LEMMA GapsFacts ==
    ASSUME NEW in, in.gap \in Nat, resolves(in), NEW from \in Int, NEW to \in Int
    PROVE  LET gaps == Gaps(Resolve(in).ops, from, to) IN
           /\ \A i \in DOMAIN gaps : from <= gaps[i][1] /\ gaps[i][1] < gaps[i][2] /\ gaps[i][2] <= to
           /\ \A t \in Int : from <= t /\ t < to =>
                ((\E o \in Chosen(in) : o.start <= t /\ t < Latest(o))
                   <=> ~ \E i \in DOMAIN gaps : gaps[i][1] <= t /\ t < gaps[i][2])
  <1> DEFINE gaps == Gaps(Resolve(in).ops, from, to)
             busy(t) == \E o \in Chosen(in) : o.start <= t /\ t < Latest(o)
             inGap(t) == \E i \in DOMAIN gaps : gaps[i][1] <= t /\ t < gaps[i][2]
  <1>1. gaps = GapsOf(from, to, BusyList(in))
    <2>1. Spans(in) = {<<o.start, Latest(o)>> : o \in {p \in Range(Resolve(in).ops) : Admitted(p)}}
      BY DEF Spans, Chosen, admittedOps
    <2> QED
      BY <2>1, Zenon DEF Gaps, GapsOf, BusyList, GapEnd
  <1>2. /\ Busy(BusyList(in), Cardinality(Spans(in)))
        /\ Range(BusyList(in)) = Spans(in)
    BY BusyListFacts
  <1> HIDE DEF gaps
  <1>3. /\ \A g \in Range(gaps) : from <= g[1] /\ g[1] < g[2] /\ g[2] <= to
        /\ \A t \in Int : from <= t /\ t < to => (Within(Range(gaps), t) <=> ~Within(Spans(in), t))
    <2> DEFINE list == BusyList(in)
               n == Cardinality(Spans(in))
    <2> HIDE DEF list, n
    <2>1. Busy(list, n)
      BY <1>2 DEF list, n
    <2>2. LET found == Range(GapsOf(from, to, list)) IN
          /\ \A g \in found : from <= g[1] /\ g[1] < g[2] /\ g[2] <= to
          /\ \A t \in Int : from <= t /\ t < to => (Within(found, t) <=> ~Within(Range(list), t))
      BY <2>1, GapsAreFree
    <2> QED
      BY <2>2, <1>1, <1>2, Zenon DEF list
  <1>4. \A i \in DOMAIN gaps : gaps[i] \in Range(gaps)
    BY DEF Range
  <1>5. \A t : Within(Range(gaps), t) <=> inGap(t)
    BY DEF Within, Range
  <1>6. \A t : Within(Spans(in), t) <=> busy(t)
    <2>1. ASSUME NEW t PROVE Within(Spans(in), t) <=> busy(t)
      <3>1. \A o \in Chosen(in) : <<o.start, Latest(o)>>[1] = o.start /\ <<o.start, Latest(o)>>[2] = Latest(o)
        OBVIOUS
      <3> QED
        BY <3>1 DEF Within, Spans
    <2> QED
      BY <2>1
  <1> HIDE DEF busy, inGap
  <1>7. \A t \in Int : from <= t /\ t < to => (busy(t) <=> ~inGap(t))
    BY <1>3, <1>5, <1>6
  <1> QED
    BY <1>3, <1>4, <1>7 DEF gaps, busy, inGap

-----------------------------------------------------------------------------
(* The schedule as the lap has it: an input that Resolve accepted, and     *)
(* what Resolve made of it, from then on.                                  *)
Answered ==
    /\ input \in Inputs
    /\ Resolved => resolves(input) /\ sched = Resolve(input)

LEMMA AnswersInvariant == ResolutionSpec => []Answered
  <1>1. ResolutionInit => Answered
    BY DEF ResolutionInit, Answered, Resolved
  <1>2. Answered /\ [ResolveIt \/ Proceed]_resolution => Answered'
    <2>1. ASSUME Answered, ResolveIt PROVE Answered'
      <3>1. input' = input /\ input' \in Inputs
        BY <2>1, Zenon DEF Answered, ResolveIt
      <3>2. CASE resolves(input)
        BY <2>1, <3>1, <3>2, Zenon DEF Answered, ResolveIt, Resolved
      <3>3. CASE ~resolves(input)
        <4>1. stage' = "failed"
          BY <2>1, <3>3, Zenon DEF ResolveIt
        <4>2. ~Resolved'
          BY <4>1 DEF Resolved
        <4> QED
          BY <3>1, <4>2, Zenon DEF Answered
      <3> QED
        BY <3>2, <3>3
    <2>2. ASSUME Answered, Proceed PROVE Answered'
      <3>1. ~Resolved' /\ input' = input
        BY <2>2 DEF Proceed, Resolved
      <3> QED
        BY <2>2, <3>1, Zenon DEF Answered
    <2>3. ASSUME Answered, UNCHANGED resolution PROVE Answered'
      <3>1. input' = input /\ sched' = sched /\ stage' = stage
        BY <2>3, Zenon DEF resolution
      <3> QED
        BY <2>3, <3>1, Zenon DEF Answered, Resolved
    <2> QED
      BY <2>1, <2>2, <2>3
  <1> QED
    BY <1>1, <1>2, PTL DEF ResolutionSpec

LEMMA InputFacts ==
    ASSUME NEW in \in Inputs
    PROVE  in.gap \in Nat /\ in.participants \in Nat /\ in.anchor \in 1..in.participants /\ Weighed(in)
  BY InputsAssumption DEF Weighed

(* Every schedule that resolves gives the driver what it relies on,        *)
(* whatever the fork's time, the participants and their stake: a start is  *)
(* followed at once by its own end, and admitted windows lie apart         *)
(* (Resolve, Schedule.Actions). *)
THEOREM SchedulesAreSerial == ResolutionSpec => []StartsMeetTheirEnds
  <1>1. ASSUME Answered PROVE StartsMeetTheirEnds
    <2>1. SUFFICES ASSUME Resolved PROVE StartsMeetEnds(Actions(sched)) /\ OpsAreApart(sched)
      BY Zenon DEF StartsMeetTheirEnds
    <2>2. input.gap \in Nat /\ resolves(input) /\ sched = Resolve(input)
      BY <1>1, <2>1, InputFacts, Zenon DEF Answered
    <2> QED
      BY <2>2, ResolvedIsSerial, Zenon
  <1> QED
    BY <1>1, AnswersInvariant, PTL

(* Every admitted op is followed by a sweep, a pre-fork op by one still    *)
(* preForkMargin before the fork; nothing comes after quiet; and the       *)
(* deadline of HealDeadline's loop is the sweep that closes the op.        *)
THEOREM SchedulesAreSwept == ResolutionSpec => []EveryOpIsSwept
  <1>1. ASSUME Answered PROVE EveryOpIsSwept
    <2>1. SUFFICES ASSUME Resolved
                   PROVE  /\ OpsAreSwept(sched)
                          /\ \A o \in admittedOps(sched) :
                                /\ HealDeadline(sched, o) >= Latest(o)
                                /\ o.class \in {"deep", "short"} =>
                                      HealDeadline(sched, o)
                                        = Max({f \in Range(sched.failsafes) : f <= input.gap})
      BY Zenon DEF EveryOpIsSwept
    <2>2. input.gap \in Nat /\ resolves(input) /\ sched = Resolve(input)
      BY <1>1, <2>1, InputFacts, Zenon DEF Answered
    <2>3. admittedOps(sched) = Chosen(input)
      BY <2>2, Zenon DEF Chosen
    <2> QED
      BY <2>2, <2>3, ResolvedIsSwept, DeadlineFacts, Zenon
  <1> QED
    BY <1>1, AnswersInvariant, PTL

LEMMA GapsAreFound ==
    ASSUME NEW in, in.gap \in Nat, resolves(in)
    PROVE  \A from, to \in Int : CalmSpan(Resolve(in), from, to)
  <1> SUFFICES ASSUME NEW from \in Int, NEW to \in Int PROVE CalmSpan(Resolve(in), from, to)
    OBVIOUS
  <1> DEFINE gaps == Gaps(Resolve(in).ops, from, to)
             ends == UNION {{o.start, Latest(o)} : o \in Chosen(in)}
             less == {t - 1 : t \in ends}
             inst == {from, to - 1} \cup ends \cup less
             taken(t) == \E o \in Chosen(in) : o.start <= t /\ t < Latest(o)
             inGap(t) == \E i \in DOMAIN gaps : gaps[i][1] <= t /\ t < gaps[i][2]
             fits(i) == from <= gaps[i][1] /\ gaps[i][1] < gaps[i][2] /\ gaps[i][2] <= to
  <1>1. /\ \A i \in DOMAIN gaps : fits(i)
        /\ \A t \in Int : from <= t /\ t < to => (taken(t) <=> ~inGap(t))
    BY GapsFacts, Zenon
  <1>2. \A o \in Chosen(in) : o.start \in Int /\ Latest(o) \in Int
    BY ResolvesFacts DEF OpShape, Latest
  <1>3. ends \subseteq Int
    BY <1>2
  <1>4. less \subseteq Int
    <2> HIDE DEF ends
    <2>1. \A t \in ends : t - 1 \in Int
      BY <1>3
    <2> QED
      BY <2>1, Zenon
  <1>5. from \in Int /\ to - 1 \in Int
    OBVIOUS
  <1>6. inst \subseteq Int
    <2> HIDE DEF ends, less
    <2> QED
      BY <1>3, <1>4, <1>5, Zenon
  <1>7. \A t \in inst : from <= t /\ t < to => (taken(t) <=> ~inGap(t))
    <2> HIDE DEF inst, taken, inGap
    <2> QED
      BY <1>1, <1>6, Zenon
  <1> QED
    BY <1>1, <1>7, Zenon DEF CalmSpan, Chosen

(* Gaps finds exactly the instants no admitted partition occupies, in any  *)
(* span; and divergence is legal while a window is open or its heal        *)
(* converges, and not beyond the tail (LegalWindows). *)
THEOREM CalmStaysCalm == ResolutionSpec => []CalmIsCalm
  <1>1. ASSUME Answered PROVE CalmIsCalm
    <2>1. SUFFICES ASSUME Resolved
                   PROVE  /\ \A from \in {0, 240, input.gap - 60}, len \in {0, 200, 700, 2500} :
                                CalmSpan(sched, from, from + len)
                          /\ LegalWhileOpen(sched)
      BY Zenon DEF CalmIsCalm
    <2>2. input.gap \in Nat /\ resolves(input) /\ sched = Resolve(input)
      BY <1>1, <2>1, InputFacts, Zenon DEF Answered
    <2>3. LegalWhileOpen(sched)
      BY <2>2, ResolvedIsLegal, Zenon
    <2>4. ASSUME NEW from \in {0, 240, input.gap - 60}, NEW len \in {0, 200, 700, 2500}
          PROVE  CalmSpan(sched, from, from + len)
      <3>1. from \in Int /\ from + len \in Int
        BY <2>2
      <3>2. \A f, t \in Int : CalmSpan(sched, f, t)
        BY <2>2, GapsAreFound
      <3> QED
        BY <3>1, <3>2
    <2> QED
      BY <2>3, <2>4, Zenon
  <1> QED
    BY <1>1, AnswersInvariant, PTL

(* Whatever was admitted, for every stake of the anchor: the groups sent   *)
(* to disruptoor hold every participant once, and the anchor's outweighs   *)
(* each of the others, so a heal converges on the anchor's chain           *)
(* (Op.islands, and the straddle's admission). *)
THEOREM IslandsAlwaysLose == ResolutionSpec => []IslandsLose
  <1>1. ASSUME Answered PROVE IslandsLose
    <2>1. SUFFICES ASSUME Resolved PROVE IslandsLose
      BY Zenon DEF IslandsLose
    <2>2. /\ input.gap \in Nat /\ input.participants \in Nat /\ input.anchor \in 1..input.participants
          /\ Weighed(input) /\ resolves(input) /\ sched = Resolve(input)
      BY <1>1, <2>1, InputFacts, Zenon DEF Answered
    <2>3. GroupsPartition(input, sched)
      BY <2>2, ResolvedIsPartition, Zenon
    <2>4. ASSUME NEW o \in admittedOps(sched) PROVE AnchorWins(input, islands(input.participants, o))
      BY <2>2, <2>4, AnchorsSideWins, Zenon DEF Chosen
    <2> QED
      BY <2>3, <2>4, Zenon DEF IslandsLose, AnchorWins, StakeOf
  <1> QED
    BY <1>1, AnswersInvariant, PTL
=============================================================================
