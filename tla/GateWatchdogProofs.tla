------------------------- MODULE GateWatchdogProofs -------------------------
(***************************************************************************)
(* Proofs about the gate, for every schedule whose windows end before      *)
(* Quiet and whose owner heals inside the legal tail, at every moment the  *)
(* owner may die, and for every pattern of failing calls and signals.      *)
(***************************************************************************)
EXTENDS GateWatchdog, TLAPS

PostSteps   == {"partitioning", "window", "healing", "cancelClear",
                "repeering", "converging", "trend"}
HealedSteps == {"repeering", "converging", "trend", "handed"}
Deciding    == {"stating", "clearing"}

(* A living owner keeps no partition past its heal. *)
OwnerInTime ==
    /\ kept => net \in Ops
    /\ kept /\ lastClear = "ok" /\ ~dead => now <= Driver!Latest(net) + HealLag

(* The gate disrupts only once the schedule is quiet. *)
OwnerOver ==
    /\ mpc = "quietWait" => mdue >= ReleaseBy
    /\ mpc \in PostSteps \/ (RunsPostOp /\ mpc = "handed") => now >= ReleaseBy

Whole ==
    mpc \in HealedSteps /\ RunsPostOp => net = NoOp \/ gateClear = "failed"

(* What the watchdog is about to clear was not covered by the schedule when *)
(* it decided ... *)
DecidedUncovered ==
    /\ wpc = "polling" => wnow <= now
    /\ wpc \in Deciding => wnow <= now /\ ~Covers(wnow)

(* ... and it decided before the gate claimed its own window: the claim    *)
(* outlasts the window. *)
DecidedUnclaimed ==
    /\ mpc = "partitioning" =>
          /\ until >= 0 /\ mdue - CallTimeout <= now /\ now <= mdue
          /\ until = mdue - CallTimeout + Window + ConvergenceGrace
    /\ mpc = "window" =>
          /\ until >= 0 /\ now <= mdue
          /\ mdue - CallTimeout + ConvergenceGrace <= until
          /\ until <= mdue + ConvergenceGrace
    /\ mpc \in {"partitioning", "window"} /\ wpc \in Deciding =>
          wnow <= until - Window - ConvergenceGrace

Flags ==
    /\ kept \in BOOLEAN /\ done \in BOOLEAN /\ dead \in BOOLEAN /\ split \in BOOLEAN
    /\ extended \in BOOLEAN /\ fired \in BOOLEAN /\ ctxDone \in BOOLEAN

Values ==
    /\ now \in 0..MaxTime
    /\ net \in Ops \cup {NoOp, PostOp}
    /\ lastClear \in {"ok", "failed"} /\ gateClear \in {"ok", "failed"}
    /\ mpc \in MainWaits \cup MainCalls \cup Gone
    /\ wpc \in {"sleep", "polling", "stating", "clearing", "repeering", "gone"}
    /\ {mdue, until, doneAt, wdue, wnow, since} \subseteq Int

IInv ==
    /\ Values
    /\ OwnerInTime
    /\ OwnerOver
    /\ Whole
    /\ DecidedUncovered
    /\ DecidedUnclaimed

-----------------------------------------------------------------------------
LEMMA OpFacts ==
    /\ StartLag \in Int /\ HealLag \in Int /\ ReleaseBy \in Int
    /\ HealLag <= legalTail
    /\ \A o \in Ops :
          /\ OpInfo[o].start \in Int /\ OpInfo[o].end \in Int
          /\ Driver!Latest(o) \in Int
          /\ OpInfo[o].end + StartLag <= Driver!Latest(o) + HealLag
          /\ OpInfo[o].end + StartLag < ReleaseBy
BY OwnerAssumption DEF Ops, Driver!Latest

LEMMA InvInit == Init => IInv
BY GateAssumption, OpFacts
   DEF Init, Driver!Init, IInv, Values, OwnerInTime, OwnerOver, Whole, DecidedUncovered,
       DecidedUnclaimed, PostSteps, HealedSteps, Deciding, MainWaits, Ops, watchPoll

LEMMA InvNext == IInv /\ [Next]_vars => IInv'
<1> SUFFICES ASSUME IInv, [Next]_vars PROVE IInv'
  OBVIOUS
<1> USE GateAssumption
    DEF IInv, Values, OwnerInTime, OwnerOver, Whole, DecidedUncovered, DecidedUnclaimed,
        PostSteps, HealedSteps, Deciding, MainWaits, MainCalls, Gone, Covers,
        owner, main, watch, MainSleep, MainCall, WatchSleep, WatchCall,
        CallTimeout, ConvergenceGrace, watchPoll
<1>1. CASE DoneSeen
  BY <1>1 DEF DoneSeen, settle
<1>2. CASE Cancelled
  BY <1>2 DEF Cancelled
<1>3. CASE Settled
  BY <1>3, OpFacts DEF Settled, Quiet
<1>4. CASE Claim
  BY <1>4, OpFacts DEF Claim
<1>5. CASE PostApplied
  BY <1>5 DEF PostApplied
<1>6. CASE PostRefused
  BY <1>6 DEF PostRefused
<1>7. CASE WindowEnds
  BY <1>7 DEF WindowEnds
<1>8. CASE WindowCancelled
  BY <1>8 DEF WindowCancelled
<1>9. CASE CancelCleared
  BY <1>9 DEF CancelCleared, Cleared, Answers
<1>10. CASE PostHealed
  BY <1>10 DEF PostHealed, Cleared, Answers, RepeerTimeout
<1>11. CASE PostRepeered
  BY <1>11 DEF PostRepeered
<1>12. CASE Converged
  BY <1>12 DEF Converged
<1>13. CASE ConvergeLate
  BY <1>13 DEF ConvergeLate, TrendTime
<1>14. CASE TrendSampled
  BY <1>14 DEF TrendSampled
<1>15. CASE TrendCancelled
  BY <1>15 DEF TrendCancelled
<1>16. CASE WatchWakes
  BY <1>16 DEF WatchWakes, PollTime
<1>17. CASE PollFails
  BY <1>17 DEF PollFails
<1>18. CASE Agreed
  BY <1>18 DEF Agreed
<1>19. CASE Expected
  BY <1>19 DEF Expected
<1>20. CASE Waits
  BY <1>20 DEF Waits
<1>21. CASE Fires
  BY <1>21 DEF Fires, Diverging, Held, holding
<1>22. CASE StateRead
  BY <1>22 DEF StateRead
<1>23. CASE WatchClears
  BY <1>23, OpFacts DEF WatchClears, Cleared, Answers, WatchRepeerTime
<1>24. CASE WatchRepeered
  BY <1>24 DEF WatchRepeered
<1>25. CASE WatchEnds
  BY <1>25 DEF WatchEnds
<1>26. CASE DriverStep
  <2>1. CASE \E o \in Ops : Driver!Split(o)
    BY <1>26, <2>1, OpFacts DEF DriverStep, Driver!Split
  <2>2. CASE Driver!Heal
    BY <1>26, <2>2 DEF DriverStep, Driver!Heal
  <2>3. CASE Driver!HealFails
    BY <1>26, <2>3 DEF DriverStep, Driver!HealFails
  <2>4. CASE Driver!Retire
    BY <1>26, <2>4 DEF DriverStep, Driver!Retire
  <2> QED
    BY <1>26, <2>1, <2>2, <2>3, <2>4 DEF DriverStep
<1>27. CASE Die
  BY <1>27 DEF Die
<1>28. CASE Fork
  BY <1>28 DEF Fork
<1>29. CASE Reconverge
  BY <1>29 DEF Reconverge
<1>30. CASE Signal
  BY <1>30 DEF Signal
<1>31. CASE Tick
  BY <1>31, OpFacts DEF Tick, Driver!Due
<1>32. CASE UNCHANGED vars
  BY <1>32 DEF vars
<1> QED
  BY <1>1, <1>2, <1>3, <1>4, <1>5, <1>6, <1>7, <1>8, <1>9, <1>10, <1>11,
     <1>12, <1>13, <1>14, <1>15, <1>16, <1>17, <1>18, <1>19, <1>20, <1>21, <1>22,
     <1>23, <1>24, <1>25, <1>26, <1>27, <1>28, <1>29, <1>30, <1>31, <1>32
     DEF Next, MainStep, WatchStep

LEMMA Invariance == Spec => []IInv
BY InvInit, InvNext, PTL DEF Spec

-----------------------------------------------------------------------------
(* Every variable keeps its type: the values from the inductive invariant, *)
(* the flags on their own. *)
LEMMA FlagsNext == Flags /\ [Next]_vars => Flags'
<1> SUFFICES ASSUME Flags, [Next]_vars PROVE Flags'
  OBVIOUS
<1> USE DEF Flags, owner, main, watch
<1>1. CASE MainStep
  BY <1>1, Zenon DEF MainStep, DoneSeen, Cancelled, Settled, Claim, PostApplied, PostRefused, WindowEnds, WindowCancelled, CancelCleared, PostHealed, PostRepeered, Converged, ConvergeLate, TrendSampled, TrendCancelled, Cleared
<1>2. CASE WatchStep
  BY <1>2, Zenon DEF WatchStep, WatchWakes, PollFails, Agreed, Expected, Waits, Fires, StateRead, WatchClears, WatchRepeered, WatchEnds, Cleared
<1>3. CASE DriverStep
  BY <1>3, Zenon DEF DriverStep, Driver!Split, Driver!Heal, Driver!HealFails, Driver!Retire
<1>4. CASE Die \/ Fork \/ Reconverge \/ Signal \/ Tick \/ UNCHANGED vars
  BY <1>4, Zenon DEF Die, Fork, Reconverge, Signal, Tick, vars
<1> QED
  BY <1>1, <1>2, <1>3, <1>4 DEF Next

(* Every variable of the gate keeps its type, for every schedule that      *)
(* keeps OwnerAssumption. *)
THEOREM GateTypeCorrect == Spec => []TypeOK
<1>1. Init => Flags
  BY Zenon DEF Init, Driver!Init, Flags
<1>2. Values /\ Flags => TypeOK
  BY DEF Values, Flags, TypeOK
<1> QED
  BY <1>1, <1>2, FlagsNext, Invariance, PTL DEF Spec, IInv

(* For every schedule, every moment of death of its owner and every        *)
(* pattern of failing calls: a partition the watchdog's Clear cuts was     *)
(* held by nobody when the watchdog read its clock. *)
THEOREM WatchdogHealsOnlyUnheld == Spec => HealsOnlyUnheld
<1>1. ASSUME IInv, WatchClears, net' # net
      PROVE  /\ net \in Ops => \/ dead \/ ~kept \/ lastClear = "failed"
                               \/ wnow < OpInfo[net].start
             /\ net = PostOp /\ mpc = "window" => wnow <= mdue - Window
  <2> USE <1>1 DEF IInv, Values, WatchClears, Deciding
  <2>1. now \in Int /\ wnow \in Int /\ mdue \in Int /\ until \in Int /\ Window \in Int
    BY GateAssumption
  <2>2. ASSUME net \in Ops, ~dead, kept, lastClear # "failed"
        PROVE  wnow < OpInfo[net].start
    <3>1. now <= Driver!Latest(net) + HealLag
      BY <2>2 DEF OwnerInTime
    <3>2. wnow <= Driver!Latest(net) + legalTail
      BY <2>1, <2>2, <3>1, OpFacts DEF DecidedUncovered, legalTail
    <3> QED
      BY <2>1, <2>2, <3>2, OpFacts DEF DecidedUncovered, Covers
  <2>3. ASSUME mpc = "window" PROVE wnow <= mdue - Window
    BY <2>1, <2>3 DEF DecidedUnclaimed, ConvergenceGrace
  <2> QED
    BY <2>2, <2>3
<1> QED
  BY <1>1, Invariance, PTL DEF HealsOnlyUnheld, Spec

(* A gate that runs its own partition hands a whole network to the wrapped *)
(* service, unless its latest Clear failed. *)
THEOREM HandsWholeOver ==
  ASSUME RunsPostOp PROVE Spec => []HandsOverWhole
<1>1. IInv => HandsOverWhole
  BY DEF IInv, Whole, HealedSteps, HandsOverWhole
<1> QED
  BY <1>1, Invariance, PTL
-----------------------------------------------------------------------------
(* The watchdog's answer is in time where every poll is answered and no    *)
(* signal comes.  Near(t, x): t is at most x past the latest heal of an op *)
(* that has begun. *)
Near(t, x) == \E o \in Ops : OpInfo[o].start <= now /\ t <= Driver!Latest(o) + x

(* The clock waits for the watchdog, and a round takes a sleep and a poll. *)
Rounds ==
    /\ ctxDone = FALSE
    /\ wpc # "gone"
    /\ now <= wdue
    /\ wpc = "sleep" => wdue <= now + watchPoll
    /\ wpc = "polling" => 0 <= wnow /\ wdue <= wnow + PollTime
    /\ wpc \in Deciding \cup {"repeering"} => fired

(* Only a partition that was applied just now can look like agreement. *)
JustApplied == net \in Ops /\ ~split => Near(now, legalTail)

(* The gate's own claim hides nothing of the schedule's but what its PUT   *)
(* replaces. *)
Claimed ==
    /\ Alive /\ mpc \notin PostSteps => until = NoTime
    /\ mpc \in PostSteps \ {"partitioning"} => net \notin Ops
    /\ mpc = "partitioning" /\ net \in Ops /\ ~fired => Near(mdue, Response + CallTimeout)

(* An episode is polled until its grace is over ... *)
Episode ==
    /\ since # NoTime => since <= now
    /\ since # NoTime /\ ~fired =>
         /\ wpc = "sleep"   => wdue <= since + 180
         /\ wpc = "polling" => wnow <= since + 180

(* ... and one that a partition of the schedule's is in began, or begins   *)
(* with the next round, a round after the legal tail. *)
Shown == net \in Ops /\ ~fired /\ Alive /\ mpc # "partitioning"

BeganNear ==
    Shown =>
        /\ since = NoTime /\ wpc = "sleep"   => Near(wdue, 180)
        /\ since = NoTime /\ wpc = "polling" => Near(wnow, 180)
        /\ since # NoTime                    => Near(since, 180)

WatchInv == Rounds /\ JustApplied /\ Claimed /\ Episode /\ BeganNear

(* A step of the clock or of a watchdog on time keeps what is near. *)
LEMMA NearKeeps ==
    ASSUME NEW t \in Int, NEW u \in Int, NEW x \in Int, NEW y \in Int,
           now \in Int, now' \in Int, now <= now', Near(t, x), u <= t + y
    PROVE  (\E o \in Ops : OpInfo[o].start <= now' /\ u <= Driver!Latest(o) + x + y)
BY OpFacts DEF Near

(* What is shown is no older than the bound. *)
LEMMA ShownInTime ==
    ASSUME IInv, WatchInv, Shown
    PROVE  Near(now, Response)
<1> USE DEF IInv, Values
<1>1. CASE since = NoTime /\ wpc = "sleep"
  BY <1>1, OpFacts DEF WatchInv, BeganNear, Near, Rounds, Response
<1>2. CASE since = NoTime /\ wpc = "polling"
  BY <1>2, OpFacts DEF WatchInv, BeganNear, Near, Rounds, Response, PollTime
<1>3. CASE since # NoTime /\ wpc = "sleep"
  BY <1>3, OpFacts DEF WatchInv, BeganNear, Near, Rounds, Episode, Response, Shown
<1>4. CASE since # NoTime /\ wpc = "polling"
  BY <1>4, OpFacts
     DEF WatchInv, BeganNear, Near, Rounds, Episode, Response, PollTime, Shown
<1> QED
  BY <1>1, <1>2, <1>3, <1>4 DEF WatchInv, Rounds, Shown, Deciding

LEMMA WatchInit == Init => WatchInv
BY GateAssumption
   DEF Init, Driver!Init, WatchInv, Rounds, JustApplied, Claimed, Episode, BeganNear, Shown,
       PostSteps, Deciding, watchPoll, Ops

(* Steps of the main goroutine other than its claim show no more of the    *)
(* schedule's partition than before. *)
LEMMA WatchKeptByMain ==
    ASSUME ~Signals, IInv, Flags, WatchInv, MainStep
    PROVE  WatchInv'
<1> USE GateAssumption
    DEF IInv, Values, WatchInv, Rounds, JustApplied, Claimed, Episode, BeganNear, Shown, Near, Driver!Latest,
        PostSteps, Deciding, Alive, Gone, owner, main, watch, MainSleep, MainCall
<1>1. CASE DoneSeen \/ Settled \/ Cancelled
  BY <1>1 DEF Flags, DoneSeen, Settled, Cancelled
<1>2. CASE Claim
  <2>1. net \in Ops /\ ~fired => Near(now, Response)
    BY <1>2, ShownInTime DEF Claim
  <2> QED
    BY <1>2, <2>1, OpFacts DEF Flags, Claim, CallTimeout, Response
<1>3. CASE PostApplied \/ PostRefused
  BY <1>3 DEF PostApplied, PostRefused, Ops
<1>4. CASE WindowEnds \/ WindowCancelled \/ CancelCleared \/ PostHealed \/ PostRepeered
  BY <1>4 DEF WindowEnds, WindowCancelled, CancelCleared, PostHealed, PostRepeered,
              Cleared, Answers, Ops
<1>5. CASE Converged \/ ConvergeLate \/ TrendSampled \/ TrendCancelled
  BY <1>5 DEF Converged, ConvergeLate, TrendSampled, TrendCancelled
<1> QED
  BY <1>1, <1>2, <1>3, <1>4, <1>5 DEF MainStep

(* A round of the watchdog begins an episode, keeps it or ends it. *)
LEMMA WatchKeptByWatch ==
    ASSUME "poll" \notin Fallible, IInv, Flags, WatchInv, WatchStep
    PROVE  WatchInv'
<1> USE GateAssumption
    DEF IInv, Values, WatchInv, Rounds, JustApplied, Claimed, Episode, BeganNear, Shown, Near, Driver!Latest,
        PostSteps, Deciding, Alive, Gone, owner, main, watch, WatchSleep, WatchCall,
        watchPoll, PollTime
<1>1. CASE WatchWakes
  BY <1>1, OpFacts DEF WatchWakes, DecidedUncovered
<1>2. CASE Agreed
  <2>1. net \in Ops => Near(now, legalTail)
    BY <1>2 DEF Agreed
  <2> QED
    BY <1>2, <2>1, OpFacts
       DEF Agreed, legalTail, DecidedUnclaimed, CallTimeout, Response
<1>3. CASE Expected
  <2>1. net \in Ops /\ mpc # "partitioning" => Covers(wnow)
    BY <1>3 DEF Expected, Diverging, Held, holding
  <2>2. Covers(wnow) => Near(wdue, 180)'
    BY <1>3, OpFacts DEF Expected, Diverging, Covers, legalTail, DecidedUncovered
  <2> QED
    BY <1>3, <2>1, <2>2 DEF Expected, Diverging
<1>4. CASE Waits
  BY <1>4, OpFacts DEF Waits, Diverging, ConvergenceGrace, DecidedUncovered
<1>5. CASE Fires
  BY <1>5 DEF Fires, Diverging, CallTimeout
<1>6. CASE StateRead \/ WatchRepeered
  BY <1>6 DEF StateRead, WatchRepeered, CallTimeout
<1>7. CASE WatchClears
  BY <1>7 DEF WatchClears, Cleared, Answers, WatchRepeerTime, Ops
<1>8. CASE PollFails \/ WatchEnds
  BY <1>8 DEF PollFails, WatchEnds
<1> QED
  BY <1>1, <1>2, <1>3, <1>4, <1>5, <1>6, <1>7, <1>8 DEF WatchStep

(* A partition is applied before its legal tail, and the clock waits for   *)
(* the branches to part and for the watchdog. *)
LEMMA WatchKeptByRest ==
    ASSUME ~Signals, IInv, Flags, WatchInv,
           DriverStep \/ Die \/ Fork \/ Reconverge \/ Signal \/ Tick \/ UNCHANGED vars
    PROVE  WatchInv'
<1> USE GateAssumption
    DEF IInv, Values, WatchInv, Rounds, JustApplied, Claimed, Episode, BeganNear, Shown, Near, Driver!Latest,
        PostSteps, Deciding, Alive, Gone, owner, main, watch
<1>1. ASSUME NEW o \in Ops, DriverStep, Driver!Split(o) PROVE WatchInv'
  <2>1. /\ OpInfo[o].start <= now
        /\ now <= Driver!Latest(o) + legalTail
        /\ now < ReleaseBy
    BY <1>1, OpFacts DEF Driver!Split, legalTail
  <2>2. mpc \notin PostSteps
    BY <2>1, OpFacts DEF OwnerOver
  <2> QED
    BY <1>1, <2>1, <2>2, OpFacts
       DEF DriverStep, Driver!Split, legalTail, watchPoll, DecidedUncovered
<1>2. CASE DriverStep /\ (Driver!Heal \/ Driver!HealFails \/ Driver!Retire)
  BY <1>2 DEF DriverStep, Driver!Heal, Driver!HealFails, Driver!Retire, Ops
<1>3. CASE Die
  BY <1>3 DEF Flags, Die
<1>4. CASE Fork \/ Reconverge \/ Signal
  BY <1>4 DEF Flags, Fork, Reconverge, Signal, Ops
<1>5. CASE Tick
  <2>1. now' = now + TickLen /\ now <= now' /\ now' <= wdue /\ (net \in Ops => split)
    BY <1>5 DEF Tick, Ops
  <2> QED
    BY <1>5, <2>1, OpFacts
       DEF Flags, Tick, legalTail, watchPoll, PollTime, Response, CallTimeout
<1>6. CASE UNCHANGED vars
  BY <1>6 DEF Flags, vars
<1> QED
  BY <1>1, <1>2, <1>3, <1>4, <1>5, <1>6 DEF DriverStep

(* Where every poll is answered and no signal comes: a partition whose     *)
(* owner is gone, at any moment, is met by the watchdog's heal within      *)
(* Response of the latest heal of an op that has begun, whatever else      *)
(* fails and whenever the clients come apart. *)
THEOREM OrphansAreBounded ==
  ASSUME "poll" \notin Fallible, ~Signals PROVE Spec => []OrphanBound
<1>1. Init => Flags
  BY Zenon DEF Init, Driver!Init, Flags
<1>2. IInv /\ Flags /\ WatchInv /\ [Next]_vars => WatchInv'
  BY WatchKeptByMain, WatchKeptByWatch, WatchKeptByRest DEF Next
<1>3. IInv /\ WatchInv => OrphanBound
  <2> SUFFICES ASSUME IInv, WatchInv, net \in Ops, Alive, ~fired
               PROVE \E o \in Ops :
                       /\ OpInfo[o].start <= now
                       /\ now <= Driver!Latest(o) + Response
                                   + IF mpc = "partitioning" THEN CallTimeout ELSE 0
    BY DEF OrphanBound, Orphan
  <2>1. CASE mpc = "partitioning"
    BY <2>1, OpFacts
       DEF WatchInv, Claimed, Near, IInv, Values, DecidedUnclaimed, CallTimeout, Response
  <2>2. CASE mpc # "partitioning"
    BY <2>2, ShownInTime, OpFacts DEF Shown, Near, IInv, Values, Response
  <2> QED
    BY <2>1, <2>2
<1> QED
  BY <1>1, <1>2, <1>3, WatchInit, FlagsNext, Invariance, PTL DEF Spec
=============================================================================
