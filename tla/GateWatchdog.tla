---------------------------- MODULE GateWatchdog ----------------------------
(***************************************************************************)
(* cmd/migration-gate: the main goroutine waits until every client is done *)
(* and the schedule is quiet, runs one partition of its own, and hands     *)
(* disruptoor over by exec; the watchdog goroutine, alive all that time,   *)
(* heals a partition nobody holds.  The schedule's owner of disruptoor is  *)
(* PartitionOwner, which the chaos driver implements; it may die at any    *)
(* moment.                                                                 *)
(***************************************************************************)
EXTENDS Integers

CONSTANTS
    OpInfo, NoOp, NoHold, StartLag, HealLag, ReleaseBy,  \* see PartitionOwner
    PostOp,       \* the gate's own partition
    NoTime,       \* Go's zero time
    RunsPostOp,   \* BOOLEAN: --post-op is not "none"
    Window,       \* its length
    DoneTimes,    \* when every client reports the migration done
    Fallible,     \* which of the gate's calls may fail: "poll", "partition", "clear"
    DriverDies,   \* BOOLEAN
    MeshSplits,   \* BOOLEAN: with no partition applied clients may stay apart,
                  \* or lose each other
    Signals,      \* BOOLEAN
    TickLen, MaxTime   \* bounds: the clock's step and its last instant

(* Mutant of watchPoll. *)
FiveMinutes      == 300

watchPoll        == 30
settle           == 60
ConvergenceGrace == 120
legalTail        == 120     \* migsched.legalDivergenceTail
CallTimeout      == 15      \* disruptoor.New(*api, 15*time.Second)
RepeerTimeout    == 30
PollTime         == 30      \* bound: how long one converged() takes
WatchRepeerTime  == 90      \* bound: Repeer under the watchdog's context
TrendTime        == 15      \* bound: spreadShrinking's two sleeps and its calls

ASSUME GateAssumption ==
    /\ PostOp \notin DOMAIN OpInfo /\ PostOp # NoOp /\ NoOp \notin DOMAIN OpInfo
    /\ {RunsPostOp, DriverDies, MeshSplits, Signals} \subseteq BOOLEAN
    /\ Fallible \subseteq {"poll", "partition", "clear"}
    /\ DoneTimes \subseteq Int /\ NoTime \in Int \ Nat
    /\ TickLen \in Nat \ {0} /\ Window \in Nat /\ MaxTime \in Nat

(* What the gate relies on: legal windows that cover every heal of a living *)
(* owner, and a Quiet after the last window. *)
ASSUME OwnerAssumption ==
    /\ {StartLag, HealLag, ReleaseBy, NoHold} \subseteq Int
    /\ HealLag <= legalTail
    /\ \A o \in DOMAIN OpInfo :
          LET info == OpInfo[o]
              last == IF info.hold = NoHold THEN info.end ELSE info.hold
          IN  /\ {info.start, info.end, info.hold} \subseteq Int
              /\ info.end + StartLag <= last + HealLag
              /\ info.end + StartLag < ReleaseBy

VARIABLES
    now, net, kept, lastClear, done,  \* the owner's
    dead,     \* the owner's process died
    split,    \* the clients disagree on the canonical chain
    mpc, mdue,          \* the main goroutine
    until,              \* held.until
    gateClear,          \* how the gate's latest Clear returned
    extended,           \* awaitConvergence extended its deadline
    doneAt,             \* when the clients report done
    wpc, wdue,          \* the watchdog
    wnow,               \* its "now", read before the clients are asked
    since, fired,       \* its divergence episode
    ctxDone             \* the signal context ended

owner == <<net, kept, lastClear, done>>
main  == <<mpc, mdue, until, extended, doneAt>>
watch == <<wpc, wdue, wnow, since, fired>>
vars  == <<now, owner, dead, split, main, gateClear, watch, ctxDone>>

Driver == INSTANCE PartitionOwner

Ops   == DOMAIN OpInfo
Quiet == ReleaseBy

MainWaits == {"waitDone", "settling", "quietWait", "window", "converging"}
MainCalls == {"partitioning", "healing", "cancelClear", "repeering", "trend"}
Gone      == {"handed", "failed", "returned"}

Alive == mpc \notin Gone

(* How a Clear may return; a failed one may have taken effect. *)
Answers == IF "clear" \in Fallible THEN {"ok", "failed"} ELSE {"ok"}

(* A call ends by its timeout, a sleep when its time has come. *)
MainSleep(p, d) == mpc' = p /\ mdue' = now + d
MainCall(p)     == mpc' = p /\ mdue' = now + CallTimeout
WatchSleep      == wpc' = "sleep" /\ wdue' = now + watchPoll /\ wnow' = NoTime
WatchCall(p, d) == wpc' = p /\ wdue' = now + d /\ UNCHANGED wnow

(* Schedule.Covers and held.holding. *)
Covers(t) == \E o \in Ops : OpInfo[o].start <= t /\ t <= Driver!Latest(o) + legalTail

holding(t) == until # NoTime /\ t < until

Cleared ==
    /\ gateClear' \in Answers
    /\ \/ net' = NoOp /\ kept' = FALSE
       \/ gateClear' # "ok" /\ UNCHANGED <<net, kept>>
    /\ UNCHANGED <<lastClear, done>>

Init ==
    /\ now = 0
    /\ Driver!Init
    /\ dead = FALSE /\ split = FALSE
    /\ mpc = "waitDone" /\ mdue = 0 /\ until = NoTime /\ extended = FALSE
    /\ gateClear = "ok"
    /\ doneAt \in DoneTimes
    /\ wpc = "sleep" /\ wdue = watchPoll /\ wnow = NoTime
    /\ since = NoTime /\ fired = FALSE
    /\ ctxDone = FALSE
-----------------------------------------------------------------------------
(* The main goroutine. *)

DoneSeen ==
    /\ mpc = "waitDone" /\ now >= doneAt
    /\ IF RunsPostOp THEN MainSleep("settling", settle)
                     ELSE mpc' = "handed" /\ UNCHANGED mdue
    /\ UNCHANGED <<now, owner, dead, split, until, extended, doneAt, gateClear, watch, ctxDone>>

(* A signal before the post-op: nothing has been disturbed. *)
Cancelled ==
    /\ mpc \in {"waitDone", "settling", "quietWait"} /\ ctxDone
    /\ mpc' = "returned"
    /\ UNCHANGED <<now, owner, dead, split, mdue, until, extended, doneAt, gateClear, watch, ctxDone>>

Settled ==
    /\ mpc = "settling" /\ now >= mdue
    /\ MainSleep("quietWait", IF Quiet > now THEN Quiet - now ELSE 0)
    /\ UNCHANGED <<now, owner, dead, split, until, extended, doneAt, gateClear, watch, ctxDone>>

(* The window is claimed before it is applied; disruptoor seeing no        *)
(* containers fails the gate. *)
Claim ==
    /\ mpc = "quietWait" /\ now >= mdue
    /\ \/ MainCall("partitioning") /\ until' = now + Window + ConvergenceGrace
       \/ mpc' = "failed" /\ "partition" \in Fallible /\ UNCHANGED <<mdue, until>>
    /\ UNCHANGED <<now, owner, dead, split, extended, doneAt, gateClear, watch, ctxDone>>

PostApplied ==
    /\ mpc = "partitioning"
    /\ net' = PostOp /\ kept' = FALSE
    /\ MainSleep("window", Window)
    /\ UNCHANGED <<now, lastClear, done, dead, split, until, extended, doneAt, gateClear, watch, ctxDone>>

PostRefused ==
    /\ mpc = "partitioning" /\ "partition" \in Fallible
    /\ \/ net' = PostOp /\ kept' = FALSE
       \/ UNCHANGED <<net, kept>>
    /\ until' = NoTime
    /\ mpc' = "failed"
    /\ UNCHANGED <<now, lastClear, done, dead, split, mdue, extended, doneAt, gateClear, watch, ctxDone>>

WindowEnds ==
    /\ mpc = "window" /\ now >= mdue
    /\ MainCall("healing")
    /\ UNCHANGED <<now, owner, dead, split, until, extended, doneAt, gateClear, watch, ctxDone>>

WindowCancelled ==
    /\ mpc = "window" /\ ctxDone
    /\ MainCall("cancelClear")
    /\ UNCHANGED <<now, owner, dead, split, until, extended, doneAt, gateClear, watch, ctxDone>>

(* A signal inside the window: one Clear, its error ignored, and the gate  *)
(* still hands over. *)
CancelCleared ==
    /\ mpc = "cancelClear"
    /\ Cleared
    /\ mpc' = "handed"
    /\ UNCHANGED <<now, dead, split, mdue, until, extended, doneAt, watch, ctxDone>>

(* Mutant of PostHealed: a failed Clear is only a warning. *)
PostHealGoesOn ==
    /\ mpc = "healing"
    /\ \/ net' = NoOp /\ kept' = FALSE
       \/ "clear" \in Fallible /\ UNCHANGED <<net, kept>>
    /\ UNCHANGED <<lastClear, done, gateClear>>
    /\ MainSleep("repeering", RepeerTimeout)
    /\ UNCHANGED <<now, dead, split, until, extended, doneAt, watch, ctxDone>>

PostHealed ==
    /\ mpc = "healing"
    /\ Cleared
    /\ IF gateClear' = "ok" THEN MainSleep("repeering", RepeerTimeout)
                            ELSE mpc' = "failed" /\ UNCHANGED mdue
    /\ UNCHANGED <<now, dead, split, until, extended, doneAt, watch, ctxDone>>

PostRepeered ==
    /\ mpc = "repeering"
    /\ MainSleep("converging", ConvergenceGrace)
    /\ UNCHANGED <<now, owner, dead, split, until, extended, doneAt, gateClear, watch, ctxDone>>

(* awaitConvergence: agreement or the context's end return nil. *)
Converged ==
    /\ mpc = "converging"
    /\ ~split \/ ctxDone
    /\ until' = NoTime
    /\ mpc' = "handed"
    /\ UNCHANGED <<now, owner, dead, split, mdue, extended, doneAt, gateClear, watch, ctxDone>>

(* Past the deadline the head spread is sampled; the deadline is extended  *)
(* once, and only while the spread shrinks. *)
ConvergeLate ==
    /\ mpc = "converging" /\ now > mdue
    /\ IF extended THEN mpc' = "failed" /\ until' = NoTime /\ UNCHANGED mdue
                   ELSE MainSleep("trend", TrendTime) /\ UNCHANGED until
    /\ UNCHANGED <<now, owner, dead, split, extended, doneAt, gateClear, watch, ctxDone>>

TrendSampled ==
    /\ mpc = "trend" /\ now >= mdue
    /\ \/ MainSleep("converging", ConvergenceGrace) /\ extended' = TRUE /\ UNCHANGED until
       \/ mpc' = "failed" /\ until' = NoTime /\ UNCHANGED <<mdue, extended>>
    /\ UNCHANGED <<now, owner, dead, split, doneAt, gateClear, watch, ctxDone>>

TrendCancelled ==
    /\ mpc = "trend" /\ ctxDone
    /\ mpc' = "handed" /\ until' = NoTime
    /\ UNCHANGED <<now, owner, dead, split, mdue, extended, doneAt, gateClear, watch, ctxDone>>

MainStep ==
    \/ DoneSeen \/ Cancelled \/ Settled \/ Claim \/ PostApplied \/ PostRefused
    \/ WindowEnds \/ WindowCancelled \/ CancelCleared \/ PostHealed \/ PostRepeered
    \/ Converged \/ ConvergeLate \/ TrendSampled \/ TrendCancelled
-----------------------------------------------------------------------------
(* The watchdog. *)

WatchWakes ==
    /\ Alive /\ wpc = "sleep" /\ now >= wdue
    /\ wpc' = "polling" /\ wdue' = now + PollTime
    /\ wnow' = now
    /\ UNCHANGED <<now, owner, dead, split, main, gateClear, since, fired, ctxDone>>

(* A client that does not answer is not divergence. *)
PollFails ==
    /\ Alive /\ wpc = "polling"
    /\ "poll" \in Fallible \/ ctxDone
    /\ WatchSleep
    /\ UNCHANGED <<now, owner, dead, split, main, gateClear, since, fired, ctxDone>>

Agreed ==
    /\ Alive /\ wpc = "polling" /\ ~split
    /\ WatchSleep
    /\ since' = NoTime /\ fired' = FALSE
    /\ UNCHANGED <<now, owner, dead, split, main, gateClear, ctxDone>>

Diverging == Alive /\ wpc = "polling" /\ split

(* Mutant of held: the gate's own window is not asked for. *)
HeldBySchedule(t) == Covers(t)

Held(t) == Covers(t) \/ holding(t)

(* Divergence inside a window somebody holds is expected. *)
Expected ==
    /\ Diverging /\ Held(wnow)
    /\ WatchSleep
    /\ since' = NoTime
    /\ UNCHANGED <<now, owner, dead, split, main, gateClear, fired, ctxDone>>

Waits ==
    /\ Diverging /\ ~Held(wnow)
    /\ since = NoTime \/ fired \/ wnow - since <= ConvergenceGrace
    /\ WatchSleep
    /\ since' = IF since = NoTime THEN wnow ELSE since
    /\ UNCHANGED <<now, owner, dead, split, main, gateClear, fired, ctxDone>>

(* An episode is acted on once, after the grace; its State call only       *)
(* labels the report. *)
Fires ==
    /\ Diverging /\ ~Held(wnow)
    /\ since # NoTime /\ ~fired /\ wnow - since > ConvergenceGrace
    /\ fired' = TRUE
    /\ WatchCall("stating", CallTimeout)
    /\ UNCHANGED <<now, owner, dead, split, main, gateClear, since, ctxDone>>

(* Mutant of StateRead: a failing State gives the heal up. *)
StateGivesUp ==
    /\ Alive /\ wpc = "stating"
    /\ WatchSleep
    /\ UNCHANGED <<now, owner, dead, split, main, gateClear, since, fired, ctxDone>>

StateRead ==
    /\ Alive /\ wpc = "stating"
    /\ WatchCall("clearing", CallTimeout)
    /\ UNCHANGED <<now, owner, dead, split, main, gateClear, since, fired, ctxDone>>

WatchClears ==
    /\ Alive /\ wpc = "clearing"
    /\ Cleared
    /\ IF gateClear' = "ok" THEN WatchCall("repeering", WatchRepeerTime) ELSE WatchSleep
    /\ UNCHANGED <<now, dead, split, main, since, fired, ctxDone>>

WatchRepeered ==
    /\ Alive /\ wpc = "repeering"
    /\ WatchSleep
    /\ UNCHANGED <<now, owner, dead, split, main, gateClear, since, fired, ctxDone>>

WatchEnds ==
    /\ Alive /\ wpc = "sleep" /\ ctxDone
    /\ wpc' = "gone" /\ wdue' = MaxTime /\ UNCHANGED wnow
    /\ UNCHANGED <<now, owner, dead, split, main, gateClear, since, fired, ctxDone>>

WatchStep ==
    \/ WatchWakes \/ PollFails \/ Agreed \/ Expected \/ Waits \/ Fires
    \/ StateRead \/ WatchClears \/ WatchRepeered \/ WatchEnds
-----------------------------------------------------------------------------
(* The owner, the network and the clock. *)

DriverStep ==
    /\ ~dead
    /\ \/ \E o \in Ops : Driver!Split(o)
       \/ Driver!Heal \/ Driver!HealFails \/ Driver!Retire
    /\ UNCHANGED <<dead, split, main, gateClear, watch, ctxDone>>

Die ==
    /\ DriverDies /\ ~dead /\ ~done
    /\ dead' = TRUE
    /\ UNCHANGED <<now, owner, split, main, gateClear, watch, ctxDone>>

(* Both sides of a partition mint; with no partition the clients may agree *)
(* again, or lose each other in the mesh. *)
Fork ==
    /\ ~split
    /\ net # NoOp \/ MeshSplits
    /\ split' = TRUE
    /\ UNCHANGED <<now, owner, dead, main, gateClear, watch, ctxDone>>

Reconverge ==
    /\ split /\ net = NoOp
    /\ split' = FALSE
    /\ UNCHANGED <<now, owner, dead, main, gateClear, watch, ctxDone>>

Signal ==
    /\ Signals /\ Alive /\ ~ctxDone
    /\ ctxDone' = TRUE
    /\ UNCHANGED <<now, owner, dead, split, main, gateClear, watch>>

(* Branches grow apart within one tick; a goroutine sleeps or calls no     *)
(* longer than it may; the owner keeps its promises. *)
Tick ==
    /\ Alive /\ now + TickLen <= MaxTime
    /\ net # NoOp => split
    /\ net = NoOp /\ ~MeshSplits => ~split
    /\ \/ mpc = "waitDone"
       \/ now + TickLen <= mdue
       \/ mpc = "converging" /\ now <= mdue /\ (split \/ "poll" \in Fallible)
    /\ mpc = "waitDone" => now < doneAt
    /\ now + TickLen <= wdue
    /\ ctxDone => mpc \in MainCalls \ {"trend"} /\ wpc # "sleep"
    /\ now' = now + TickLen
    /\ dead \/ Driver!Due(now')
    /\ UNCHANGED <<owner, dead, split, main, gateClear, watch, ctxDone>>

Next == MainStep \/ WatchStep \/ DriverStep \/ Die \/ Fork \/ Reconverge \/ Signal \/ Tick

(* Both goroutines make only calls that return, branches that mint         *)
(* diverge, and the clock does not stop. *)
Fairness ==
    /\ WF_vars(MainStep) /\ WF_vars(WatchStep)
    /\ WF_vars(net # NoOp /\ Fork) /\ WF_vars(net = NoOp /\ ~MeshSplits /\ Reconverge)
    /\ WF_vars(Tick)

Spec     == Init /\ [][Next]_vars
FairSpec == Spec /\ Fairness
-----------------------------------------------------------------------------
TypeOK ==
    /\ now \in 0..MaxTime
    /\ net \in Ops \cup {NoOp, PostOp} /\ kept \in BOOLEAN /\ done \in BOOLEAN
    /\ lastClear \in {"ok", "failed"} /\ gateClear \in {"ok", "failed"}
    /\ dead \in BOOLEAN /\ split \in BOOLEAN /\ ctxDone \in BOOLEAN
    /\ mpc \in MainWaits \cup MainCalls \cup Gone
    /\ mdue \in Int /\ until \in Int /\ doneAt \in Int /\ extended \in BOOLEAN
    /\ wpc \in {"sleep", "polling", "stating", "clearing", "repeering", "gone"}
    /\ wdue \in Int /\ wnow \in Int /\ since \in Int /\ fired \in BOOLEAN

(* The watchdog heals only what nobody holds: a partition it cuts is the    *)
(* gate's own or a living owner's only if it was applied after the         *)
(* watchdog read its clock, or if the owner's Clear failed before. *)
HealsOnlyUnheld ==
    [][WatchClears /\ net' # net =>
          /\ net \in Ops => \/ dead \/ ~kept \/ lastClear = "failed"
                           \/ wnow < OpInfo[net].start
          /\ net = PostOp /\ mpc = "window" => wnow <= mdue - Window]_vars

(* The wrapped service is handed a whole network, unless the gate's latest *)
(* Clear failed. *)
HandsOverWhole == mpc = "handed" => net = NoOp \/ gateClear = "failed"

Orphan == net \in Ops /\ (dead \/ done)

(* A partition whose owner is gone is healed by an armed watchdog: within  *)
(* this bound of the latest heal of an op, its own or a later one's, whose *)
(* legal window hides the orphan.  The legal tail, a round of the watchdog *)
(* until it sees the orphan, the grace, a round until it finds the grace   *)
(* over, and that round's poll: 120 + 60 + 120 + 60 + 30.  The gate's own  *)
(* claim hides the orphan its PUT is about to replace: one call more. *)
Response == 390

OrphanBound ==
    Orphan /\ Alive /\ ~fired =>
        \E o \in Ops :
            /\ OpInfo[o].start <= now
            /\ now <= Driver!Latest(o) + Response
                        + IF mpc = "partitioning" THEN CallTimeout ELSE 0

OrphanHealed == (Orphan /\ ~fired) ~> (~Orphan \/ ~Alive)
=============================================================================
