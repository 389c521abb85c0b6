---------------------------- MODULE MigSchedule ----------------------------
(***************************************************************************)
(* The partition schedule of a migrating devnet: internal/migsched.        *)
(*                                                                         *)
(* The chaos driver, the gate, the monitor and the acceptance verifier all *)
(* act on the schedule Resolve returns, so this module is pure: operators  *)
(* over a resolved input, no state.  Instants are seconds since genesis    *)
(* (genesis = 0, the fork = the input's "gap").  Stake shares are exact    *)
(* rationals over a common denominator; the code computes them in float64. *)
(***************************************************************************)
EXTENDS Integers, Sequences, FiniteSets, SequencesExt, FiniteSetsExt, Functions

-----------------------------------------------------------------------------
(* A finite set as a sequence, ordered by a strict total order on it.  The *)
(* library's SetToSortSeq enumerates every permutation of the set first.   *)
SortedBy(S, before(_, _)) ==
    [i \in 1..Cardinality(S) |->
        CHOOSE x \in S : Cardinality({y \in S : before(y, x)}) = i - 1]

(* The bounds of the code, in seconds (schedule.go). *)
straddleMinSide       == 60
straddleMaxHold       == 120
straddleMaxAfter      == 180
healConvergeAllowance == 120
legalDivergenceTail   == 120
quietTail             == 120
straddleMaxDrop       == 24
failsafeRepeat        == 60
windowOpenAfter       == 300
windowCloseBy         == 480
windowMinLen          == 60
windowMaxLen          == 180
preForkMargin         == 390

(* Go's zero time.Time: the HoldUntil of an op that does not hold. *)
NoTime == -1000000

Window(start, end, anchor, class) ==
    [start |-> start, end |-> end, anchor |-> anchor, class |-> class]

profiles ==
    [composite |->
        << Window( 240, 430, "genesis", "deep"),
           Window( 540, 730, "genesis", "deep"),
           Window( 790, 940, "genesis", "short"),
           Window(-120,  60, "fork",    "straddle"),
           Window( 300, 450, "fork",    "window") >>,
     compositeSmoke |->
        << Window( 220, 370, "genesis", "short"),
           Window(-120,  60, "fork",    "straddle") >>]

-----------------------------------------------------------------------------
(* An input of Resolve: [profile, gap, anchor, participants, protect,      *)
(* permille, slot].  permille is the anchor's stake share in thousandths.  *)

(* The disruptable participants in rotation order: all but the anchor and  *)
(* the protected ones. *)
Lights(in) ==
    SortedBy((1..in.participants) \ ({in.anchor} \cup in.protect), <)

(* The participants an op leaves on the anchor's side. *)
Others(participants, victims) == (1..participants) \ victims

(* Stake over the common denominator StakeUnit: the anchor's, and each of  *)
(* the other participants', which split the remainder evenly. *)
StakeUnit(in)    == 1000 * (in.participants - 1)
AnchorStake(in)  == in.permille * (in.participants - 1)
LightStake(in)   == 1000 - in.permille
Stake(in, p)     == IF p = in.anchor THEN AnchorStake(in) ELSE LightStake(in)

(* The groups disruptoor gets for an op: the anchor's side first, then the *)
(* victims, each on its own when the op is mutual. *)
islands(participants, o) ==
    <<Others(participants, o.victims)>> \o
    (IF o.mutual THEN [i \in 1..Cardinality(o.victims) |-> {SortedBy(o.victims, <)[i]}]
                 ELSE <<o.victims>>)

Admitted(o) == ~o.refused
Latest(o)   == IF o.hold = NoTime THEN o.end ELSE o.hold

-----------------------------------------------------------------------------
(* Admission.  An op that fails it makes the whole Resolve fail. *)

(* Mutant of admitDeep: an island may hold half the stake or more. *)
admitDeepUnbounded(o, in) ==
    3 * MapThenSumSet(LAMBDA v : Stake(in, v), o.victims) > StakeUnit(in)

(* A deep island must stall finality (> 1/3) without being able to win (< 1/2). *)
admitDeep(o, in) ==
    LET share == MapThenSumSet(LAMBDA v : Stake(in, v), o.victims)
    IN  3 * share > StakeUnit(in) /\ 2 * share < StakeUnit(in)

(* Every island must lose to the anchor with room for proposer boost (5%),  *)
(* no side may reach 2/3, both sides of the fork must be long enough, and   *)
(* the branch an island drops is bounded. *)
admitStraddle(o, in) ==
    LET worst == Max({Stake(in, v) : v \in o.victims} \cup {0})
        slots == (Latest(o) - o.start) \div in.slot
    IN  /\ o.mutual /\ o.victims # {}
        /\ 3 * AnchorStake(in) < 2 * StakeUnit(in)
        /\ 20 * AnchorStake(in) >= 20 * worst + StakeUnit(in)
        /\ in.gap - o.start >= straddleMinSide
        /\ o.end - in.gap >= straddleMinSide
        /\ Latest(o) - in.gap <= straddleMaxAfter
        /\ slots * worst <= straddleMaxDrop * StakeUnit(in)

(* One light, inside the span the migration window is certainly open. *)
admitWindow(o, in) ==
    /\ Cardinality(o.victims) = 1 /\ in.anchor \notin o.victims
    /\ o.end - o.start \in windowMinLen..windowMaxLen
    /\ o.start >= in.gap + windowOpenAfter
    /\ o.end <= in.gap + windowCloseBy

admit(o, in) ==
    CASE o.class = "deep"     -> admitDeep(o, in)
      [] o.class = "straddle" -> admitStraddle(o, in)
      [] o.class = "window"   -> admitWindow(o, in)
      [] o.class = "short"    -> TRUE

-----------------------------------------------------------------------------
(* Resolving one window.  Deep islands are consecutive pairs of lights,    *)
(* shorts and windows take one light in rotation, a straddle takes all.    *)
deadlineOf(in) == in.gap - preForkMargin

earlier(ws, i, classes) == Cardinality({j \in 1..(i-1) : ws[j].class \in classes})

victimsOf(ws, i, lights) ==
    LET n         == Len(lights)
        nth(k)    == lights[(k % n) + 1]
        pairs     == earlier(ws, i, {"deep"})
        rotation  == earlier(ws, i, {"short", "window"})
    IN  CASE ws[i].class = "deep"     -> {nth(pairs), nth(pairs + 1)}
          [] ws[i].class = "straddle" -> ToSet(lights)
          [] OTHER                    -> {nth(rotation)}

(* A pre-fork op that would end after the deadline is refused, never       *)
(* compressed. *)
refused(class, start, end, in) ==
    class \in {"deep", "short"} /\ end > deadlineOf(in)

resolveOp(in, i) ==
    LET ws   == profiles[in.profile]
        w    == ws[i]
        base == IF w.anchor = "fork" THEN in.gap ELSE 0
    IN  [ name    |-> i,
          class   |-> w.class,
          start   |-> base + w.start,
          end     |-> base + w.end,
          victims |-> victimsOf(ws, i, Lights(in)),
          mutual  |-> w.class = "straddle",
          hold    |-> IF w.class = "straddle" THEN base + w.end + straddleMaxHold
                                              ELSE NoTime,
          refused |-> refused(w.class, base + w.start, base + w.end, in) ]

resolveOps(in) == [i \in DOMAIN profiles[in.profile] |-> resolveOp(in, i)]

-----------------------------------------------------------------------------
(* Failsafe sweeps: instants at which the driver clears unconditionally.   *)
(* lastPre: the end of the last admitted pre-fork op, NoTime without one.  *)
preOps(ops) == {o \in Range(ops) : o.class \in {"deep", "short"}}

lastPre(ops) == Max({NoTime} \cup {o.end : o \in {p \in preOps(ops) : Admitted(p)}})

sweepsOfOp(o) ==
    CASE o.class = "straddle" -> {Latest(o), Latest(o) + failsafeRepeat}
      [] o.class = "window"   -> {o.end + failsafeRepeat}
      [] OTHER                -> {}

preForkSweeps(ops, deadline) ==
    {deadline} \cup (IF lastPre(ops) # NoTime /\ lastPre(ops) < deadline
                     THEN {lastPre(ops)} ELSE {})

failsafes(ops, deadline) ==
    SortedBy((UNION {sweepsOfOp(o) : o \in Range(ops)})
                   \cup preForkSweeps(ops, deadline), <)

(* From this instant the driver never disrupts again. *)
quietOf(ops, deadline) ==
    Max({deadline} \cup {Latest(o) + quietTail : o \in Range(ops) \ preOps(ops)})

(* A sweep inside an admitted op's window would heal it early. *)
checkFailsafes(ops, sweeps) ==
    \A f \in Range(sweeps) : \A o \in Range(ops) :
        Admitted(o) => ~(o.start <= f /\ f < Latest(o))

-----------------------------------------------------------------------------
(* Resolve: "error", or the schedule.  Only the first failing check is     *)
(* reported by the code; here their conjunction decides. *)
topologyOK(in) ==
    /\ in.profile \in DOMAIN profiles
    /\ in.anchor > 0
    /\ Len(Lights(in)) > 0
    /\ in.participants >= Len(Lights(in)) + 1
    /\ in.slot > 0
    /\ \A w \in Range(profiles[in.profile]) : w.class = "deep" => Len(Lights(in)) >= 2
    /\ Cardinality({i \in DOMAIN profiles[in.profile] :
                      profiles[in.profile][i].class = "straddle"}) <= 1

resolves(in) ==
    /\ topologyOK(in)
    /\ LET ops == resolveOps(in)
       IN  /\ \A o \in Range(ops) : admit(o, in)
           /\ checkFailsafes(ops, failsafes(ops, deadlineOf(in)))

Resolve(in) ==
    LET ops == resolveOps(in)
    IN  [ ops       |-> ops,
          failsafes |-> failsafes(ops, deadlineOf(in)),
          quiet     |-> quietOf(ops, deadlineOf(in)),
          slot      |-> in.slot,
          fork      |-> in.gap ]

admittedOps(s) == {o \in Range(s.ops) : Admitted(o)}

-----------------------------------------------------------------------------
(* The driver's action list: instants ascending; at one instant ends come  *)
(* before sweeps and sweeps before starts. *)
ActOpEnd   == 0
ActSweep   == 1
ActOpStart == 2

(* Mutant of actionBefore: a sweep sorts before an end at the same instant. *)
sweepFirst(a, b) ==
    LET rank(k) == CASE k = ActSweep -> 0 [] k = ActOpEnd -> 1 [] OTHER -> 2
    IN  \/ a.at < b.at
        \/ a.at = b.at /\ rank(a.kind) < rank(b.kind)

actionBefore(a, b) ==
    \/ a.at < b.at
    \/ a.at = b.at /\ a.kind < b.kind

SweepOp == 0   \* the op of a sweep

Actions(s) ==
    SortedBy(
        (UNION {{[kind |-> ActOpStart, at |-> o.start, op |-> o.name],
                 [kind |-> ActOpEnd,   at |-> o.end,   op |-> o.name]} : o \in admittedOps(s)})
          \cup {[kind |-> ActSweep, at |-> f, op |-> SweepOp] : f \in Range(s.failsafes)},
        actionBefore)

(* An op start whose window already closed is skipped. *)
StaleAt(end, now) == end <= now

(* When head divergence is expected: each admitted op plus the tail. *)
LegalWindows(s) ==
    {<<o.start, Latest(o) + legalDivergenceTail>> : o \in admittedOps(s)}

Covers(s, t) == \E w \in LegalWindows(s) : w[1] <= t /\ t <= w[2]

-----------------------------------------------------------------------------
(* The published schedule (dump.go): the heal deadline of an op and the    *)
(* intervals no partition occupies. *)

(* Mutant of HealDeadline: the first sweep instead of the last one. *)
HealDeadlineFirst(s, o) ==
    IF o.class \in {"straddle", "window"}
    THEN Latest(o) + healConvergeAllowance
    ELSE Min({s.fork} \cup {f \in Range(s.failsafes) : f <= s.fork})

(* One sweep of the loop: the fork is the initial value, replaced by the   *)
(* first sweep at or before it and then by later ones. *)
deadlineStep(fork, deadline, f) ==
    IF (f <= fork /\ f > deadline) \/ (deadline = fork /\ f <= fork)
    THEN f ELSE deadline

HealDeadline(s, o) ==
    IF o.class \in {"straddle", "window"}
    THEN Latest(o) + healConvergeAllowance
    ELSE FoldLeft(LAMBDA d, f : deadlineStep(s.fork, d, f), s.fork, s.failsafes)

(* One busy interval of Gaps' loop: acc carries the output, the cursor and *)
(* whether the loop already returned. *)

(* Mutant of gapStep: the cursor follows every interval, even one that ends *)
(* behind it and without the cut at "to". *)
gapStepUncut(acc, b, to) ==
    [acc EXCEPT !.out = IF b[1] > acc.cursor
                        THEN Append(@, <<acc.cursor, b[1]>>) ELSE @,
                !.cursor = b[2]]

gapStep(acc, b, to) ==
    IF acc.done \/ b[2] <= acc.cursor THEN acc
    ELSE LET end == Min({b[1], to})
         IN  [ out    |-> IF b[1] > acc.cursor /\ end > acc.cursor
                          THEN Append(acc.out, <<acc.cursor, end>>) ELSE acc.out,
               cursor |-> b[2],
               done   |-> b[2] >= to ]

Gaps(ops, from, to) ==
    LET busy == SortedBy({<<o.start, Latest(o)>> : o \in {p \in Range(ops) : Admitted(p)}},
                             LAMBDA a, b : a[1] < b[1] \/ (a[1] = b[1] /\ a[2] < b[2]))
        end  == FoldLeft(LAMBDA acc, b : gapStep(acc, b, to),
                         [out |-> <<>>, cursor |-> from, done |-> FALSE], busy)
    IN  IF end.done \/ end.cursor >= to THEN end.out
        ELSE Append(end.out, <<end.cursor, to>>)

(* Whether [start, end] fits inside one gap. *)
ContainsSpan(gaps, start, end) ==
    \E g \in Range(gaps) : g[1] <= start /\ end <= g[2]
=============================================================================
