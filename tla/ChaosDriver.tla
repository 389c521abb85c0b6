---------------------------- MODULE ChaosDriver ----------------------------
(***************************************************************************)
(* cmd/migration-chaos: one goroutine walks the schedule's action list,    *)
(* sleeps until each instant, splits the network through disruptoor at an  *)
(* op's start, heals it at the op's end (a straddle is held until every    *)
(* victim crossed the fork on its own branch), sweeps at every failsafe,   *)
(* and releases disruptoor once the schedule is quiet.                     *)
(*                                                                         *)
(* What can go wrong around it is part of the model: every disruptoor call *)
(* can fail, a failing call may have taken effect all the same (its answer *)
(* was lost to the client's timeout), every step takes anything up to its  *)
(* timeout, and a shutdown signal can arrive at any moment.                *)
(***************************************************************************)
EXTENDS Integers, Sequences

CONSTANTS
    Acts,        \* Schedule.Actions(): a sequence of [kind, at, op]
    OpInfo,      \* op -> [start, end, hold, victims]; hold = NoHold: HoldUntil is zero
    NoOp,        \* "no partition applied", and the op of a sweep
    NoHold,
    Quiet,       \* Schedule.Quiet
    Fork,
    SlotSeconds,
    Injector,    \* BOOLEAN: two or more --key flags, so the straddle injects state
    AnswersLost, \* BOOLEAN: a call that returns an error may have taken effect
    LaunchTimes, \* when the driver may be started, relative to genesis
    TickLen,     \* bound: the clock's step
    Slack        \* bound: how late the driver's host runs a step that is due

Ops == DOMAIN OpInfo

KindEnd == 0
KindSweep == 1
KindStart == 2

(* An op holds exactly when it is the straddle: Resolve sets HoldUntil and  *)
(* Class together. *)
Straddle(o) == OpInfo[o].hold # NoHold
HealBy(o)   == IF Straddle(o) THEN OpInfo[o].hold ELSE OpInfo[o].end
Victims(o)  == OpInfo[o].victims

Islands == UNION {Victims(o) : o \in Ops}

ASSUME ScheduleAssumption ==
    /\ NoOp \notin Ops
    /\ Acts \in Seq([kind : {KindEnd, KindSweep, KindStart}, at : Int, op : Ops \cup {NoOp}])
    /\ NoHold \in Int
    /\ \A o \in Ops : /\ OpInfo[o].start \in Int
                      /\ OpInfo[o].end \in Int
                      /\ OpInfo[o].hold \in Int
    /\ Quiet \in Int /\ Fork \in Int

(* The shape of every list Schedule.Actions returns: each op has its own   *)
(* name and one start, at its window's, immediately followed by its end;   *)
(* sweeps have no op; the last action is a sweep. *)
Serial(acts, info) ==
    /\ \A i \in 1..Len(acts) : acts[i].kind # KindSweep => acts[i].op \in DOMAIN info
    /\ \A i, j \in 1..Len(acts) :
          acts[i].kind = KindStart /\ acts[j].kind = KindStart /\ acts[i].op = acts[j].op => i = j
    /\ \A i \in 1..Len(acts) : acts[i].kind = KindStart =>
          /\ i + 1 \in 1..Len(acts)
          /\ acts[i+1].kind = KindEnd
          /\ acts[i+1].op = acts[i].op
          /\ acts[i].at = info[acts[i].op].start
    /\ acts # <<>> /\ acts[Len(acts)].kind = KindSweep

ASSUME SerialAssumption == Serial(Acts, OpInfo)

ASSUME BoundsAssumption ==
    /\ SlotSeconds \in Nat \ {0}
    /\ LaunchTimes \subseteq Int
    /\ TickLen \in Nat \ {0}
    /\ Slack \in Nat
    /\ Injector \in BOOLEAN
    /\ AnswersLost \in BOOLEAN

(* The driver's timeouts and offsets, in seconds. *)
CallTimeout   == 15     \* disruptoor.New(*api, 15*time.Second)
ProbeTimeout  == 10     \* one poll of all victims
RepeerTimeout == 30
DeployLead    == 60
DeployTimeout == 75
WriteDelay    == 15
WriteTimeout  == 110

VARIABLES
    now,       \* the clock
    due,       \* the driver's current step has ended by then
    pc,        \* where execute is
    k,         \* index of the current action
    asleep,    \* the wait at pc entered the select, so a signal can cut it short
    applied,   \* ops disruptoor accepted
    healed,    \* "the last op's heal is known to have worked"
    crossed,   \* victims seen past the fork on their own branch during the hold
    alarms,    \* CRITICAL events emitted
    signal,    \* a shutdown signal sits in the buffered channel
    lastClear, \* how the driver's latest Clear returned
    net,       \* disruptoor: the applied partition
    onOwn      \* victims that really crossed the fork on their own branch

books  == <<applied, healed, crossed, alarms>>
vars   == <<now, due, pc, k, asleep, applied, healed, crossed, alarms,
            signal, lastClear, net, onOwn>>

Waits    == {"deployWait", "startWait", "writeWait", "endWait", "holdSleep", "sweepWait"}
Calls    == {"deploying", "partitioning", "writing", "probing", "clearing", "sweeping",
             "repeering", "shutdownClear"}
Terminal == {"released", "stopped"}
PCs      == Waits \cup Calls \cup Terminal \cup {"boot", "quietWait"}
-----------------------------------------------------------------------------
(* clock.sleepUntil: a wait whose instant already passed returns at once   *)
(* and does not look at the signal. *)
WaitFor(p, t) ==
    /\ pc' = p
    /\ due' = (IF t > now THEN t ELSE now) + Slack
    /\ asleep' = (t > now)

Call(p, timeout) ==
    /\ pc' = p
    /\ due' = now + timeout + Slack
    /\ asleep' = FALSE

Woken == now + Slack >= due

Op == Acts[k].op

(* The wait an action starts with; the injector deploys ahead of its op. *)
Arrive(a) ==
    \/ /\ a.kind = KindStart /\ Injector /\ Straddle(a.op)
       /\ WaitFor("deployWait", a.at - DeployLead)
    \/ /\ a.kind = KindStart /\ ~(Injector /\ Straddle(a.op))
       /\ WaitFor("startWait", a.at)
    \/ a.kind = KindEnd   /\ WaitFor("endWait", a.at)
    \/ a.kind = KindSweep /\ WaitFor("sweepWait", a.at)

(* The loop's next action, or the final wait once the list is exhausted. *)
Begin(i) ==
    /\ k' = i
    /\ \/ i > Len(Acts) /\ WaitFor("quietWait", Quiet)
       \/ i <= Len(Acts) /\ Arrive(Acts[i])

(* The effect a call that returned an error left behind. *)
Landed == IF AnswersLost THEN BOOLEAN ELSE {FALSE}

Init ==
    /\ now \in LaunchTimes
    /\ due = now + Slack
    /\ pc = "boot" /\ k = 1 /\ asleep = FALSE
    /\ applied = {} /\ healed = TRUE /\ crossed = {}
    /\ alarms = 0
    /\ signal = FALSE
    /\ lastClear = "ok"
    /\ net = NoOp
    /\ onOwn = {}

Boot ==
    /\ pc = "boot"
    /\ Begin(1)
    /\ UNCHANGED <<now, books, lastClear, net, onOwn, signal>>

-----------------------------------------------------------------------------
(* An op's start. *)

(* Deploy while the network is still whole; its failure is only a warning. *)
DeployWaitEnds ==
    /\ pc = "deployWait" /\ Woken
    /\ Call("deploying", DeployTimeout)
    /\ UNCHANGED <<now, k, books, lastClear, net, onOwn, signal>>

Deployed ==
    /\ pc = "deploying"
    /\ WaitFor("startWait", Acts[k].at)
    /\ UNCHANGED <<now, k, books, lastClear, net, onOwn, signal>>

(* StaleAt: a window that already closed is skipped, never run zero-length. *)
SkipStale ==
    /\ pc = "startWait" /\ Woken
    /\ OpInfo[Op].end <= now
    /\ Begin(k + 1)
    /\ UNCHANGED <<now, applied, healed, crossed, alarms, lastClear, net, onOwn, signal>>

StartWaitEnds ==
    /\ pc = "startWait" /\ Woken
    /\ OpInfo[Op].end > now
    /\ Call("partitioning", CallTimeout)
    /\ UNCHANGED <<now, k, books, lastClear, net, onOwn, signal>>

(* Mutant of PartitionOK: the op is accepted but "healed" is not reset. *)
PartitionKeepsHealed ==
    /\ pc = "partitioning"
    /\ net' = Op
    /\ applied' = applied \cup {Op}
    /\ IF Injector /\ Straddle(Op)
       THEN WaitFor("writeWait", Acts[k].at + WriteDelay) /\ UNCHANGED k
       ELSE Begin(k + 1)
    /\ UNCHANGED <<now, healed, crossed, alarms, lastClear, onOwn, signal>>

(* PUT /v1/state replaces the whole state: an earlier partition that is    *)
(* still applied is gone. *)
PartitionOK ==
    /\ pc = "partitioning"
    /\ net' = Op
    /\ applied' = applied \cup {Op}
    /\ healed' = FALSE
    /\ IF Injector /\ Straddle(Op)
       THEN WaitFor("writeWait", Acts[k].at + WriteDelay) /\ UNCHANGED k
       ELSE Begin(k + 1)
    /\ UNCHANGED <<now, crossed, alarms, lastClear, onOwn, signal>>

PartitionErr ==
    /\ pc = "partitioning"
    /\ \E landed \in Landed : net' = IF landed THEN Op ELSE net
    /\ Begin(k + 1)
    /\ UNCHANGED <<now, applied, healed, crossed, alarms, lastClear, onOwn, signal>>

(* Let both sides mint a block, then write conflicting state. *)
WriteWaitEnds ==
    /\ pc = "writeWait" /\ Woken
    /\ Call("writing", WriteTimeout)
    /\ UNCHANGED <<now, k, books, lastClear, net, onOwn, signal>>

Written ==
    /\ pc = "writing"
    /\ Begin(k + 1)
    /\ UNCHANGED <<now, books, lastClear, net, onOwn, signal>>

-----------------------------------------------------------------------------
(* An op's end. *)

SkipUnapplied ==
    /\ pc = "endWait" /\ Woken
    /\ Op \notin applied
    /\ Begin(k + 1)
    /\ UNCHANGED <<now, applied, healed, crossed, alarms, lastClear, net, onOwn, signal>>

EndWaitEnds ==
    /\ pc = "endWait" /\ Woken
    /\ Op \in applied
    /\ IF Straddle(Op) THEN Call("probing", ProbeTimeout)
                       ELSE Call("clearing", CallTimeout)
    /\ UNCHANGED <<now, k, books, lastClear, net, onOwn, signal>>

(* Mutant of holdOver: a victim whose probe failed no longer counts as     *)
(* waiting. *)
holdOverUnanswered(answered, seen) ==
    Victims(Op) \subseteq (seen \cup (Victims(Op) \ answered)) \/ now >= OpInfo[Op].hold

(* Mutant of holdOver: the hold waits for every victim, however long. *)
holdUntilAllCross(answered, seen) == Victims(Op) \subseteq seen

(* The loop's exit: every victim seen across, or HoldUntil reached. *)
holdOver(answered, seen) == Victims(Op) \subseteq seen \/ now >= OpInfo[Op].hold

(* One poll: every victim not yet seen across is probed under one shared   *)
(* deadline, so any subset of the probes answers - and an answer tells     *)
(* whether that victim is across. *)
Probe ==
    /\ pc = "probing"
    /\ \E answered \in SUBSET (Victims(Op) \ crossed) :
          /\ crossed' = crossed \cup (answered \cap onOwn)
          /\ IF holdOver(answered, crossed') THEN Call("clearing", CallTimeout)
                                              ELSE WaitFor("holdSleep", now + SlotSeconds)
    /\ UNCHANGED <<now, k, applied, healed, alarms, lastClear, net, onOwn, signal>>

(* Mutant of HoldSleepEnds: polling stops once HoldUntil has passed. *)
HoldSleepGivesUp ==
    /\ pc = "holdSleep" /\ Woken
    /\ now < OpInfo[Op].hold
    /\ Call("probing", ProbeTimeout)
    /\ UNCHANGED <<now, k, books, lastClear, net, onOwn, signal>>

HoldSleepEnds ==
    /\ pc = "holdSleep" /\ Woken
    /\ Call("probing", ProbeTimeout)
    /\ UNCHANGED <<now, k, books, lastClear, net, onOwn, signal>>

(* Mutant of ClearOK: the successful heal is not recorded. *)
ClearUnrecorded ==
    /\ pc = "clearing"
    /\ net' = NoOp
    /\ lastClear' = "ok"
    /\ Call("repeering", RepeerTimeout)
    /\ UNCHANGED <<now, k, applied, healed, crossed, alarms, onOwn, signal>>

ClearOK ==
    /\ pc = "clearing"
    /\ net' = NoOp
    /\ healed' = TRUE
    /\ lastClear' = "ok"
    /\ Call("repeering", RepeerTimeout)
    /\ UNCHANGED <<now, k, applied, crossed, alarms, onOwn, signal>>

ClearErr ==
    /\ pc = "clearing"
    /\ \E landed \in Landed : net' = IF landed THEN NoOp ELSE net
    /\ lastClear' = "failed"
    /\ Begin(k + 1)
    /\ UNCHANGED <<now, books, onOwn, signal>>

Repeered ==
    /\ pc = "repeering"
    /\ Begin(k + 1)
    /\ UNCHANGED <<now, books, lastClear, net, onOwn, signal>>

-----------------------------------------------------------------------------
(* A failsafe sweep: clear unconditionally; finding a heal outstanding is  *)
(* CRITICAL. *)

SweepWaitEnds ==
    /\ pc = "sweepWait" /\ Woken
    /\ Call("sweeping", CallTimeout)
    /\ UNCHANGED <<now, k, books, lastClear, net, onOwn, signal>>

(* Mutant of SweepOK: only a heal known to be outstanding is cleared. *)
SweepTrustsRecord ==
    /\ pc = "sweeping"
    /\ net' = IF healed THEN net ELSE NoOp
    /\ lastClear' = "ok"
    /\ alarms' = IF healed THEN alarms ELSE alarms + 1
    /\ healed' = TRUE
    /\ Call("repeering", RepeerTimeout)
    /\ UNCHANGED <<now, k, applied, crossed, onOwn, signal>>

SweepOK ==
    /\ pc = "sweeping"
    /\ net' = NoOp
    /\ lastClear' = "ok"
    /\ alarms' = IF healed THEN alarms ELSE alarms + 1
    /\ healed' = TRUE
    /\ Call("repeering", RepeerTimeout)
    /\ UNCHANGED <<now, k, applied, crossed, onOwn, signal>>

SweepErr ==
    /\ pc = "sweeping"
    /\ \E landed \in Landed : net' = IF landed THEN NoOp ELSE net
    /\ lastClear' = "failed"
    /\ Call("repeering", RepeerTimeout)
    /\ UNCHANGED <<now, k, books, onOwn, signal>>

-----------------------------------------------------------------------------
(* Shutdown.  The final wait returns without a Clear; every other one      *)
(* clears first and ignores how that call went. *)

(* Mutant of Shutdown: the interrupted wait returns without clearing. *)
ShutdownWithoutClear ==
    /\ pc \in Waits \cup {"quietWait"}
    /\ asleep /\ signal
    /\ signal' = FALSE
    /\ pc' = "stopped" /\ asleep' = FALSE
    /\ UNCHANGED <<now, due, k, books, lastClear, net, onOwn>>

Shutdown ==
    /\ pc \in Waits
    /\ asleep /\ signal
    /\ signal' = FALSE
    /\ Call("shutdownClear", CallTimeout)
    /\ UNCHANGED <<now, k, books, lastClear, net, onOwn>>

ShutdownCleared ==
    /\ pc = "shutdownClear"
    /\ \/ net' = NoOp /\ lastClear' = "ok"
       \/ /\ \E landed \in Landed : net' = IF landed THEN NoOp ELSE net
          /\ lastClear' = "failed"
    /\ pc' = "stopped"
    /\ UNCHANGED <<now, due, k, asleep, books, onOwn, signal>>

ShutdownQuiet ==
    /\ pc = "quietWait"
    /\ asleep /\ signal
    /\ signal' = FALSE
    /\ pc' = "stopped" /\ asleep' = FALSE
    /\ UNCHANGED <<now, due, k, books, lastClear, net, onOwn>>

(* The schedule is complete: disruptoor is released, and the process waits *)
(* for its signal. *)
Release ==
    /\ pc = "quietWait" /\ Woken
    /\ pc' = "released" /\ asleep' = FALSE
    /\ UNCHANGED <<now, due, k, books, lastClear, net, onOwn, signal>>

StopReleased ==
    /\ pc = "released" /\ signal
    /\ pc' = "stopped"
    /\ signal' = FALSE
    /\ UNCHANGED <<now, due, k, asleep, books, lastClear, net, onOwn>>

-----------------------------------------------------------------------------
(* The environment: the clock, a signal, and victims of an applied         *)
(* straddle that mint past the fork on their own branch.  The clock stops  *)
(* once the process waits for nothing but its signal. *)
Tick ==
    /\ pc \notin Terminal
    /\ now + TickLen <= due
    /\ now' = now + TickLen
    /\ UNCHANGED <<due, pc, k, asleep, books, signal, lastClear, net, onOwn>>

Signal ==
    /\ pc # "stopped" /\ ~signal
    /\ signal' = TRUE
    /\ UNCHANGED <<now, due, pc, k, asleep, books, lastClear, net, onOwn>>

CrossFork ==
    /\ net # NoOp /\ Straddle(net) /\ now >= Fork
    /\ \E v \in Victims(net) \ onOwn : onOwn' = onOwn \cup {v}
    /\ UNCHANGED <<now, due, pc, k, asleep, books, signal, lastClear, net>>

Exited == pc = "stopped" /\ UNCHANGED vars

DriverStep ==
    \/ Boot
    \/ DeployWaitEnds \/ Deployed
    \/ SkipStale \/ StartWaitEnds \/ PartitionOK \/ PartitionErr
    \/ WriteWaitEnds \/ Written
    \/ SkipUnapplied \/ EndWaitEnds \/ Probe \/ HoldSleepEnds
    \/ ClearOK \/ ClearErr \/ Repeered
    \/ SweepWaitEnds \/ SweepOK \/ SweepErr
    \/ Shutdown \/ ShutdownCleared \/ ShutdownQuiet \/ Release

Next == DriverStep \/ StopReleased \/ Exited \/ Tick \/ Signal \/ CrossFork

(* The driver is one goroutine and every call it makes has a timeout, so   *)
(* each of its steps is taken; the clock does not stop. *)
Fairness == WF_vars(DriverStep) /\ WF_vars(Tick)

Spec     == Init /\ [][Next]_vars
FairSpec == Spec /\ Fairness

-----------------------------------------------------------------------------
TypeOK ==
    /\ now \in Int /\ due \in Int
    /\ pc \in PCs
    /\ k \in 1..(Len(Acts) + 1)
    /\ asleep \in BOOLEAN
    /\ applied \subseteq Ops
    /\ healed \in BOOLEAN
    /\ crossed \subseteq Islands
    /\ alarms \in Nat
    /\ signal \in BOOLEAN
    /\ lastClear \in {"ok", "failed"}
    /\ net \in Ops \cup {NoOp}
    /\ onOwn \subseteq Islands

(* While a partition disruptoor accepted is still applied, the driver's    *)
(* own record says a heal is outstanding - so the next sweep that clears   *)
(* it raises CRITICAL, whatever calls failed in between ("healed" and      *)
(* "applied" in execute). *)
OverstayIsKnown == net \in applied => ~healed

(* A sweep that clears an accepted partition always raises CRITICAL: no    *)
(* partition outlives its heal in silence. *)
SweepAlarmsOnOverstay ==
    [][pc = "sweeping" /\ net \in applied /\ net' = NoOp /\ lastClear' = "ok"
         => alarms' = alarms + 1]_vars

(* The other direction: a CRITICAL is never raised on a lap whose heals    *)
(* all succeeded; the alarm means a Clear failed and nothing healed since. *)
AlarmsAreEarned == [][alarms' > alarms => lastClear = "failed"]_vars

(* How late the schedule's own steps can make a heal: the poll that finds  *)
(* HoldUntil passed, the sleep before it and the Clear itself, each with   *)
(* the host's slack. *)
HealLag == SlotSeconds + ProbeTimeout + CallTimeout + 4 * Slack + TickLen

(* A straddle is healed before HoldUntil only when every victim really is  *)
(* across: an early heal would leave an island with nothing to rewind, and *)
(* a failing probe must not count as one. *)
EarlyHealMeansAllCrossed ==
    [][pc = "probing" /\ pc' = "clearing" /\ now < OpInfo[Op].hold
         => Victims(Op) \subseteq onOwn]_vars

(* A driver that has released disruptoor or exited leaves the network      *)
(* whole, unless its last Clear failed. *)
EndsWhole == pc \in Terminal => net = NoOp \/ lastClear = "failed"

(* "Deploy while the network is still whole, so it lands canonical": by the *)
(* time the injector deploys, a split can only be left over from a failed   *)
(* Clear - even one whose PUT answer was lost, because a sweep lies between. *)
(* And a driver launched on time opens the straddle straddleMinSide (60s)  *)
(* before the fork or not at all, even when the deploy ran to its timeout: *)
(* every island has room to mint across (admitStraddle checks the planned  *)
(* start only). *)
StraddleIsReady ==
    [][/\ pc = "deploying" => net = NoOp \/ lastClear = "failed"
       /\ \A o \in applied' \ applied : Straddle(o) => now + 60 <= Fork]_vars

(* A driver launched on time does what the owner of disruptoor promises:   *)
(* its splits stay in their windows, its heals are in time unless a Clear  *)
(* failed, and it is finished with disruptoor by Quiet - the instant the   *)
(* gate waits for before it disrupts (main.go:346, migration-gate          *)
(* main.go:164).  The last repeer may run past it. *)
StartLag == CallTimeout + 2 * Slack + TickLen

Finished == pc \in Terminal \cup {"quietWait"} \/ (pc = "repeering" /\ k = Len(Acts))

Owner == INSTANCE PartitionOwner
            WITH kept <- net \in applied, done <- Finished, ReleaseBy <- Quiet

ImplementsOwner == Owner!Spec

(* What "launched on time" takes of a schedule, worked out from the        *)
(* driver's timeouts: by when each step of an action that is reached by u  *)
(* is over. *)
Later(t, u)   == IF t > u THEN t ELSE u
WakeBy(t, u)  == Later(t, u) + Slack
Injects(a)    == Injector /\ Straddle(a.op)
DeployedBy(a, u) == WakeBy(a.at - DeployLead, u) + DeployTimeout + Slack
OpenBy(a, u)     == WakeBy(a.at, IF Injects(a) THEN DeployedBy(a, u) ELSE u)
AppliedBy(a, u)  == OpenBy(a, u) + CallTimeout + Slack
WriteBy(a, u)    == WakeBy(a.at + WriteDelay, AppliedBy(a, u))
HeldBy(a, u)     == Later(WakeBy(a.at, u), OpInfo[a.op].hold - 1 + SlotSeconds + Slack)
HealedBy(a, u)   ==
    CallTimeout + Slack + IF a.kind = KindEnd /\ Straddle(a.op)
                          THEN HeldBy(a, u) + ProbeTimeout + Slack
                          ELSE WakeBy(a.at, u)
OverBy(a, u) ==
    IF a.kind # KindStart THEN HealedBy(a, u) + RepeerTimeout + Slack
    ELSE IF Injects(a) THEN WriteBy(a, u) + WriteTimeout + Slack
                       ELSE AppliedBy(a, u)

(* reached[i] bounds when the i-th action is reached: the schedule leaves  *)
(* every heal time to be done by its Clear's deadline, and the last sweep  *)
(* time to clear before Quiet. *)
Paced(reached) ==
    /\ reached \in [1..(Len(Acts) + 1) -> Int]
    /\ \A t \in LaunchTimes : t + Slack <= reached[1]
    /\ \A i \in 1..Len(Acts) :
          /\ OverBy(Acts[i], reached[i]) <= reached[i+1]
          /\ reached[i] <= Quiet
          /\ Acts[i].kind = KindEnd =>
                HealedBy(Acts[i], reached[i]) <= HealBy(Acts[i].op) + HealLag
    /\ HealedBy(Acts[Len(Acts)], reached[Len(Acts)]) <= Quiet

(* A straddle comes first or right after a sweep, and its PUT is answered  *)
(* straddleMinSide before the fork. *)
StraddleHasRoom(reached) ==
    \A i \in 1..Len(Acts) : Acts[i].kind = KindStart /\ Straddle(Acts[i].op) =>
        /\ i = 1 \/ Acts[i-1].kind = KindSweep
        /\ AppliedBy(Acts[i], reached[i]) + 60 <= Fork

(* The action list is always finished or cut short by a shutdown. *)
Terminates == <>(pc \in Terminal)
=============================================================================
