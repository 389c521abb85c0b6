----------------------------- MODULE Resolution -----------------------------
(***************************************************************************)
(* A lap's schedule from its input on: migsched.Resolve accepts the input, *)
(* or refuses it, once; what is done with the schedule leaves it alone.    *)
(* The properties say what everybody who acts on a schedule relies on.     *)
(***************************************************************************)
EXTENDS MigSchedule

CONSTANT
    Inputs    \* what Resolve is called with

(* The anchor is a participant, and its share is a share of the stake. *)
ASSUME InputsAssumption ==
    \A i \in Inputs : /\ i.gap \in Nat
                      /\ i.participants \in Nat /\ i.anchor \in 1..i.participants
                      /\ i.permille \in 0..1000

VARIABLES
    input, sched, \* what is resolved, and the schedule
    stage         \* "input", "resolved", "failed"; further on: what is done with it

resolution == <<input, sched, stage>>

Unresolved == [ops |-> <<>>, failsafes |-> <<>>]
Failed     == [ops |-> <<>>, failsafes |-> <<-1>>]

ResolutionInit ==
    /\ input \in Inputs
    /\ sched = Unresolved
    /\ stage = "input"

ResolveIt ==
    /\ stage = "input"
    /\ sched' = IF resolves(input) THEN Resolve(input) ELSE Failed
    /\ stage' = IF resolves(input) THEN "resolved" ELSE "failed"
    /\ UNCHANGED input

Proceed ==
    /\ stage # "input"
    /\ stage' \notin {"input", "resolved"}
    /\ UNCHANGED <<input, sched>>

ResolutionSpec == ResolutionInit /\ [][ResolveIt \/ Proceed]_resolution

Resolved == stage = "resolved"

-----------------------------------------------------------------------------
(* The groups of an op hold every participant once, the anchor in the first. *)
GroupsPartition(in, s) ==
    \A o \in admittedOps(s) :
        LET groups == islands(in.participants, o)
        IN  /\ in.anchor \in groups[1]
            /\ UNION Range(groups) = 1..in.participants
            /\ \A i, k \in DOMAIN groups : i # k => groups[i] \cap groups[k] = {}

(* What the driver, which takes the list one action at a time, relies on:  *)
(* a start is followed at once by its own end, and windows lie apart, so   *)
(* that not even a late heal reaches the next one.                         *)
StartsMeetEnds(list) ==
    \A i \in DOMAIN list : list[i].kind = ActOpStart =>
        /\ i + 1 \in DOMAIN list
        /\ list[i+1].kind = ActOpEnd
        /\ list[i+1].op = list[i].op

OpsAreApart(s) ==
    \A o, p \in admittedOps(s) : o # p => Latest(o) < p.start \/ Latest(p) < o.start

(* A sweep follows every admitted op, for a pre-fork op one that is still  *)
(* preForkMargin before the fork; the last action is a sweep, and nothing  *)
(* is scheduled after quiet. *)
OpsAreSwept(s) ==
    LET list   == Actions(s)
        sweeps == {list[i].at : i \in {k \in DOMAIN list : list[k].kind = ActSweep}}
    IN  /\ \A o \in admittedOps(s) :
              \E f \in sweeps : /\ f >= Latest(o)
                                /\ o.class \in {"deep", "short"} => f <= s.fork - preForkMargin
        /\ list[Len(list)].kind = ActSweep
        /\ \A i \in DOMAIN list : list[i].at <= s.quiet

(* Divergence is legal throughout a window and until its heal has had      *)
(* healConvergeAllowance to reorg, but never in a calm stretch longer than *)
(* the tail, or the gate's watchdog would be blind there. *)
LegalWhileOpen(s) ==
    \A o \in admittedOps(s) :
        LET calm == Latest(o) + legalDivergenceTail + 1
        IN  /\ \A t \in {o.start, o.end, Latest(o), Latest(o) + healConvergeAllowance} : Covers(s, t)
            /\ (\A p \in admittedOps(s) : p.start \notin Latest(o) .. calm) => ~Covers(s, calm)

-----------------------------------------------------------------------------
(* The driver executes its action list serially, so its partitions are     *)
(* disjoint exactly when each start is immediately followed by its own end *)
(* - no other op and no sweep sorts between them (Resolve checks this for  *)
(* sweeps only) - and when not even a late heal reaches the next window.   *)
StartsMeetTheirEnds ==
    Resolved => StartsMeetEnds(Actions(sched)) /\ OpsAreApart(sched)

(* Whatever an op leaves behind is swept: a sweep follows every admitted   *)
(* op, for a pre-fork op one that is still preForkMargin before the fork;  *)
(* nothing is scheduled after quiet, and the last action is a sweep.  And  *)
(* the deadline a consumer judges an op by is that sweep's: the loop in    *)
(* HealDeadline returns the last sweep at or before the fork for a pre-fork *)
(* op, never an instant at which the op may still be open. *)
EveryOpIsSwept ==
    Resolved =>
        /\ OpsAreSwept(sched)
        /\ \A o \in admittedOps(sched) :
              /\ HealDeadline(sched, o) >= Latest(o)
              /\ o.class \in {"deep", "short"} =>
                    HealDeadline(sched, o) = Max({f \in Range(sched.failsafes) : f <= input.gap})

(* What the others take for calm is calm: around the ends of every admitted *)
(* window an instant of [from, to) is in a gap exactly when no admitted    *)
(* partition occupies it; and gaps lie inside the span asked for (Gaps).   *)
CalmSpan(s, from, to) ==
    LET gaps == Gaps(s.ops, from, to)
        ends == UNION {{o.start, Latest(o)} : o \in admittedOps(s)}
        inst == {from, to - 1} \cup ends \cup {t - 1 : t \in ends}
    IN  /\ \A t \in inst : from <= t /\ t < to =>
              ((\E o \in admittedOps(s) : o.start <= t /\ t < Latest(o))
                 <=> ~ \E i \in DOMAIN gaps : gaps[i][1] <= t /\ t < gaps[i][2])
        /\ \A i \in DOMAIN gaps :
              from <= gaps[i][1] /\ gaps[i][1] < gaps[i][2] /\ gaps[i][2] <= to

(* The gaps are free, and divergence is legal throughout every window and  *)
(* until its heal has had healConvergeAllowance to reorg, but never in a   *)
(* calm stretch longer than the tail, or the gate's watchdog would be      *)
(* blind there (Gaps, LegalWindows). *)
CalmIsCalm ==
    Resolved =>
        /\ \A from \in {0, 240, input.gap - 60}, len \in {0, 200, 700, 2500} :
              CalmSpan(sched, from, from + len)
        /\ LegalWhileOpen(sched)

(* A heal can be won by the anchor alone: the anchor's group outweighs     *)
(* every other group of every partition sent to disruptoor, the groups     *)
(* cover all participants and are disjoint, so the anchor never rewinds.   *)
IslandsLose ==
    Resolved =>
        /\ GroupsPartition(input, sched)
        /\ \A o \in admittedOps(sched) :
              LET groups   == islands(input.participants, o)
                  stake(S) == MapThenSumSet(LAMBDA p : Stake(input, p), S)
              IN  \A i \in 2..Len(groups) : stake(groups[i]) < stake(groups[1])
=============================================================================
