--------------------------------- MODULE Lap ---------------------------------
(***************************************************************************)
(* One lap, from the schedule to its verdict: the chaos driver walks the   *)
(* action list and writes its records, the network splits and rejoins, the *)
(* monitor writes what it saw, and the acceptance verifier (LapVerifier)   *)
(* judges the streams.  An action of the driver is one step here, with the *)
(* records it emits; ChaosDriver has the same loop call by call.           *)
(*                                                                         *)
(* What really happened is kept beside the records (cuts, serves), so that *)
(* a verdict can be compared with the truth.                               *)
(***************************************************************************)
EXTENDS LapVerifier, Resolution

CONSTANTS
    Laps,         \* the inputs of Resolve a lap is run on,
    OfflineLaps,  \* and those of them that swap a consumer's datadir
    Lags,         \* how long a call of the driver may take
    Depths,       \* how deep the branch of a deep island may get
    Registered,   \* nodes whose client logs its reorgs in a known form
    Keeps,        \* nodes whose client serves an orphaned block by its hash
    SwapExpected, \* what the lap's configuration expects a swap to take,
    SwapTimeout,  \* and allows it
    MaxTroubles   \* bound, by lap: failed calls, lost nodes and stray findings

VARIABLES
    acts, j,      \* the action list, and the next of it
    lag,          \* how long the driver's calls take in this lap
    clock,        \* when the driver's previous step was over
    applied, healed,  \* the driver's books
    chaos, monitor, logs, swaps,   \* what the verifier reads
    net, since,   \* the applied partition, and since when
    cuts,         \* every partition there was: [op, from, to]
    alone,        \* victims past the fork on a branch of their own
    serves,       \* node -> its fork block at the end of the lap
    lost,         \* victims that never rejoined: [node, from]
    troubles,     \* what failed so far
    verdicts      \* the verifier's, check by check

plan     == <<input, sched, stage, acts, lag>>
books    == <<applied, healed>>
watched  == <<monitor, logs>>
split    == <<net, since, cuts>>
islanded == <<alone, lost>>
ending   == <<swaps, serves, verdicts>>
idle     == <<acts, lag, j, clock, books, chaos, watched, split, islanded, troubles, ending>>
lapVars  == <<resolution, idle>>

NoPartition == 0

opOf(name) == sched.ops[name]
nodes      == 1..input.participants

(* The fork block of the anchor's chain, and those of islands that crossed *)
(* alone: fewer proposers, so a lower height. *)
canonical == [number |-> (input.gap \div input.slot) - 20, maker |-> input.anchor]
own(v)    == [number |-> canonical.number - v, maker |-> v]

IdleInit ==
    /\ acts = <<>> /\ j = 1 /\ lag = 0 /\ clock = 0
    /\ applied = {} /\ healed = TRUE
    /\ chaos = <<>> /\ monitor = <<>> /\ logs = {} /\ swaps = {}
    /\ net = NoPartition /\ since = 0 /\ cuts = {}
    /\ alone = {} /\ serves = <<>> /\ lost = {}
    /\ troubles = 0
    /\ verdicts = [check \in {} |-> ""]

-----------------------------------------------------------------------------
(* The records. *)
note(kind, at, node, detail, op) ==
    [kind |-> kind, at |-> at, node |-> node, detail |-> detail, op |-> op]

notes(kind, at, victims, detail, op) ==
    [i \in 1..Cardinality(victims) |-> note(kind, at, SortedBy(victims, <)[i], detail, op)]

seen(kind, at, node, block, old, depth, detail) ==
    [kind |-> kind, at |-> at, node |-> node, block |-> block, old |-> old,
     depth |-> depth, detail |-> detail]

(* A node's fork block is recorded when it crosses; a reorg orphans the    *)
(* record and the block of the anchor's chain is recorded instead. *)
forkRecords(n, t, across, gone) ==
    LET first == IF n \in across \cup gone THEN own(n) ELSE canonical
        istar == seen("istar", t, n, first, NoBlock, 0, "")
        drop  == seen("istar-reorged", t + 20, n,
                      [number |-> own(n).number, maker |-> input.anchor], own(n), 0, "")
    IN  IF n \in across \ gone
        THEN <<istar, drop, seen("istar", t + 22, n, canonical, NoBlock, 0, "")>>
        ELSE <<istar>>

(* The partition of op ends at t: its victims, except those gone for good, *)
(* drop their branch and rejoin. *)
Rejoin(op, t, across, gone, depth) ==
    LET back == opOf(op).victims \ (gone \cup {l.node : l \in lost})
    IN  /\ cuts' = cuts \cup {[op |-> op, from |-> since, to |-> t]}
        /\ net' = NoPartition /\ since' = 0
        /\ alone' = alone \cup across
        /\ lost' = lost \cup {[node |-> v, from |-> since] : v \in gone}
        /\ logs' = logs \cup {[node |-> v, at |-> t + 10, drop |-> depth] :
                                 v \in back \cap Registered}
        /\ monitor' = monitor
             \o [i \in 1..Cardinality(back) |->
                    seen("reorg", t + 12, SortedBy(back, <)[i], NoBlock, NoBlock, 1, "")]
             \o (IF opOf(op).class # "straddle" THEN <<>>
                 ELSE FlattenSeq([n \in nodes |->
                        forkRecords(n, t, across, gone \cup {l.node : l \in lost})]))

DepthsOf(op) == IF opOf(op).class = "deep" THEN Depths ELSE {Min(Depths)}

(* Who is past the fork alone when a partition ends, and who is gone *)
(* for good, on a branch that the fork block is part of.                   *)
Crossers(op) == IF opOf(op).class = "straddle" THEN SUBSET opOf(op).victims ELSE {{}}

Room == troubles < MaxTroubles[input]

Gone(op) ==
    {{}} \cup {{v} : v \in {w \in opOf(op).victims \ {l.node : l \in lost} :
                            Room /\ opOf(op).start < input.gap}}

-----------------------------------------------------------------------------
BeginLap ==
    /\ stage = "resolved" /\ input \in Laps
    /\ stage' = "lap"
    /\ acts' = Actions(sched)
    /\ lag' \in Lags
    /\ chaos' = <<note("schedule", 0, Everyone, "", NoPartition)>>
    /\ UNCHANGED <<input, sched, j, clock, books, watched, split, islanded, troubles, ending>>

(* After its heal, and after every sweep, failed or not, the driver rebuilds *)
(* the peer mesh and records that as a heal that names no node.  A mesh    *)
(* that is not rebuilt is one more trouble; it is tried where a window is  *)
(* open, since elsewhere the missing record changes nothing. *)
repeered(t) == <<note("heal", t, Everyone, "re-peered", NoPartition)>>

Emit(records, t, failures) ==
    \/ /\ chaos' = chaos \o records \o repeered(t)
       /\ troubles' = troubles + failures
    \/ /\ troubles + failures < MaxTroubles[input]
       /\ \E w \in chaosWindows(chaos \o records) : ~Healed(w)
       /\ chaos' = chaos \o records
       /\ troubles' = troubles + failures + 1

Due(kind) == stage = "lap" /\ j <= Len(acts) /\ acts[j].kind = kind

(* The driver is one goroutine: a step starts at its instant or when the   *)
(* one before it is over. *)
At(instant) == Max({instant, clock})

(* PUT /v1/state replaces whatever was applied. *)
Split(o, t) ==
    /\ net' = o /\ since' = t
    /\ cuts' = cuts \cup IF net = NoPartition THEN {}
                         ELSE {[op |-> net, from |-> since, to |-> t]}

(* disruptoor accepts the partition.  The calls of a lap are never so slow  *)
(* that a start goes stale. *)
OpStarts ==
    /\ Due(ActOpStart) /\ ~StaleAt(opOf(acts[j].op).end, At(acts[j].at))
    /\ LET o == acts[j].op  t == At(acts[j].at) + lag
       IN  /\ applied' = applied \cup {o}
           /\ healed' = FALSE
           /\ Split(o, t)
           /\ chaos' = chaos \o notes("isolate", t, opOf(o).victims, "window", o)
           /\ clock' = t
    /\ j' = j + 1
    /\ UNCHANGED <<plan, watched, islanded, troubles, ending>>

(* The PUT fails; it may have taken effect. *)
OpRefused ==
    /\ Due(ActOpStart) /\ ~StaleAt(opOf(acts[j].op).end, At(acts[j].at)) /\ Room
    /\ troubles' = troubles + 1
    /\ LET o == acts[j].op  t == At(acts[j].at)
       IN  /\ Split(o, t) \/ UNCHANGED split
           /\ chaos' = chaos \o notes("warn", t, opOf(o).victims, "partition failed", o)
           /\ clock' = t
    /\ j' = j + 1
    /\ UNCHANGED <<plan, books, watched, islanded, ending>>

(* An op that was never applied has nothing to heal.  A straddle that did  *)
(* not split the network lets every node cross on the anchor's chain. *)
OpSkipped ==
    /\ Due(ActOpEnd) /\ acts[j].op \notin applied
    /\ LET o == acts[j].op
       IN  /\ chaos' = chaos \o notes("skip", At(acts[j].at), opOf(o).victims, "never applied", o)
           /\ monitor' = monitor \o
                (IF opOf(o).class = "straddle" /\ net = NoPartition
                 THEN FlattenSeq([n \in nodes |->
                         forkRecords(n, input.gap, {}, {l.node : l \in lost})])
                 ELSE <<>>)
    /\ j' = j + 1
    /\ UNCHANGED <<plan, clock, books, logs, split, islanded, troubles, ending>>

(* When the op's heal comes: a straddle's as soon as every victim was told *)
(* to be past the fork, and at the latest instant otherwise. *)
HealTimes(o, told) ==
    LET instants == CASE opOf(o).class # "straddle" -> {opOf(o).end}
                      [] told = opOf(o).victims     -> {opOf(o).end, opOf(o).hold}
                      [] OTHER                      -> {opOf(o).hold}
    IN  {At(i) + lag : i \in instants}

healDetail(o, v, told, silent) ==
    CASE v \in silent -> "unreachable"
      [] opOf(o).class = "straddle" /\ v \notin told -> "never crossed"
      [] OTHER -> "closed"

healNotes(o, t, told, silent) ==
    LET vs == SortedBy(opOf(o).victims, <)
    IN  [i \in 1..Len(vs) |-> note("heal", t, vs[i], healDetail(o, vs[i], told, silent), o)]

(* The victims whose probe failed on every poll of the hold. *)
Unanswered(o, told) ==
    IF opOf(o).class # "straddle" THEN {{}} ELSE SUBSET (opOf(o).victims \ told)

(* The op's own heal succeeds. *)
OpEnds ==
    /\ Due(ActOpEnd) /\ acts[j].op \in applied
    /\ LET o == acts[j].op
       IN  \E across \in Crossers(o), gone \in Gone(o), depth \in DepthsOf(o) :
           \E told \in SUBSET across : \E silent \in Unanswered(o, told), t \in HealTimes(o, told) :
              /\ clock' = t
              /\ Rejoin(o, t, across, gone, depth)
              /\ Emit(notes("isolate", t, told, "crossed", o) \o healNotes(o, t, told, silent),
                      t, Cardinality(gone))
    /\ healed' = TRUE
    /\ j' = j + 1
    /\ UNCHANGED <<plan, applied, ending>>

(* The heal fails: a warning, and the next sweep has to clear.  The call   *)
(* may have taken effect.  The crossings a hold recorded before it are left *)
(* out: an open window does not change by them. *)
OpHealFails ==
    /\ Due(ActOpEnd) /\ acts[j].op \in applied /\ Room
    /\ troubles' = troubles + 1
    /\ LET o == acts[j].op  t == At(Latest(opOf(o)))
       IN  /\ clock' = t
           /\ chaos' = Append(chaos, note("warn", t, Everyone, "heal failed", o))
           /\ \/ \E across \in Crossers(o) : Rejoin(o, t, across, {}, Min(Depths))
              \/ UNCHANGED <<watched, split, islanded>>
    /\ j' = j + 1
    /\ UNCHANGED <<plan, books, ending>>

(* A sweep clears whatever is applied; finding a heal outstanding is       *)
(* CRITICAL, and then it records no heal of its own. *)
Sweeps ==
    /\ Due(ActSweep)
    /\ LET t == At(acts[j].at) + lag
       IN  /\ clock' = t
           /\ Emit(<<IF healed THEN note("heal", t, Everyone, "sweep", NoPartition)
                     ELSE note("critical", t, Everyone, "outlived", NoPartition)>>, t, 0)
           /\ IF net = NoPartition THEN UNCHANGED <<watched, split, islanded>>
              ELSE \E across \in Crossers(net) : Rejoin(net, t, across, {}, Min(Depths))
    /\ healed' = TRUE
    /\ j' = j + 1
    /\ UNCHANGED <<plan, applied, ending>>

(* The mesh is rebuilt after a failed sweep too. *)
SweepFails ==
    /\ Due(ActSweep) /\ Room
    /\ LET t == At(acts[j].at)
       IN  Emit(<<note("warn", t, Everyone, "heal failed", NoPartition)>>, t, 1)
    /\ j' = j + 1
    /\ UNCHANGED <<plan, clock, books, watched, split, islanded, ending>>

-----------------------------------------------------------------------------
(* An offline lap swaps one consumer's datadir in a chaos-free gap before  *)
(* the fork: migration-swap's gate wants the gap to hold the expected      *)
(* duration and some slack from now on. *)
swapSlack  == 120
gapHorizon == 3600

SwapFits(t) ==
    /\ t + SwapExpected <= input.gap
    /\ ContainsSpan(Gaps(sched.ops, t, t + gapHorizon), t, t + SwapExpected + swapSlack)

SwapRecords ==
    {[node |-> Max(nodes), skipped |-> FALSE, stopAt |-> t, startAt |-> t + 30,
      caughtUpAt |-> t + took] :
        t \in {u \in {o.end + d : o \in admittedOps(sched), d \in {0, opMargin + 1}} : SwapFits(u)},
        took \in {SwapExpected, SwapTimeout}}

(* The lap is over.  The fork blocks of nodes on the anchor's chain        *)
(* finalize; a node that never rejoined has one no-convergence finding, if *)
(* the monitor ran that long; and a finding nothing here explains may have *)
(* been made of any node at any time around the windows. *)
StrayTimes ==
    {0} \cup {t + d : t \in UNION {{w.from, w.to} : w \in chaosWindows(chaos)},
                      d \in {0, SplitGrace}}

Finals ==
    LET settled == nodes \ {l.node : l \in lost}
    IN  [i \in 1..Cardinality(settled) |->
            seen("istar-final", sched.quiet + 60, SortedBy(settled, <)[i], canonical, NoBlock, 0, "")]

Critical(t, node, finding) == seen("critical", t, node, NoBlock, NoBlock, 0, finding)

LapEnds ==
    /\ stage = "lap" /\ j > Len(acts)
    /\ stage' = "over"
    /\ swaps' \in IF input \in OfflineLaps THEN {{sw} : sw \in SwapRecords} ELSE {{}}
    /\ serves' = [n \in nodes |-> IF \E l \in lost : l.node = n THEN own(n) ELSE canonical]
    /\ \/ /\ lost # {}
          /\ \E l \in lost : monitor' = monitor \o Finals
                 \o <<Critical(l.from + SplitGrace + 60, Everyone, "no-convergence")>>
          /\ UNCHANGED troubles
       \/ monitor' = monitor \o Finals /\ UNCHANGED troubles
       \/ /\ Room /\ troubles' = troubles + 1
          /\ \E t \in StrayTimes, n \in nodes, f \in {"root-mismatch", "stall"} :
                monitor' = monitor \o Finals \o <<Critical(t, n, f)>>
    /\ UNCHANGED <<input, sched, acts, lag, j, clock, books, chaos, logs, split, islanded, verdicts>>

-----------------------------------------------------------------------------
(* What the verifier makes of it. *)
knows == [n \in nodes |-> {serves[n]} \cup (IF n \in Keeps \cap alone THEN {own(n)} ELSE {})]

IStarNumber == resolveIStar(monitor, serves[Min(nodes)].number)

judge ==
    [ chainBeforeFork      |-> checkChainBeforeFork(sched, IStarNumber),
      partitionsHealed     |-> checkPartitionsHealed(sched, chaos, monitor, logs),
      preForkDeepReorg     |-> checkPreForkDeepReorg(sched, chaos, monitor, logs),
      straddleRewind       |-> checkStraddleRewind(sched, input.anchor, chaos, monitor),
      forkBlockConvergence |-> checkForkBlockConvergence(sched, chaos, monitor, serves, swaps),
      orphanGone           |-> checkOrphanGone(monitor, knows, serves),
      criticals            |-> checkCriticals(sched, chaos, monitor, swaps),
      swapsSerialized      |-> checkSwapsSerialized(sched, swaps, SwapTimeout) ]

Verify ==
    /\ stage = "over"
    /\ stage' = "judged"
    /\ verdicts' = judge
    /\ UNCHANGED <<input, sched, acts, lag, j, clock, books, chaos, watched, split, islanded, troubles,
                   swaps, serves>>

LapNext ==
    \/ BeginLap
    \/ OpStarts \/ OpRefused \/ OpSkipped \/ OpEnds \/ OpHealFails
    \/ Sweeps \/ SweepFails
    \/ LapEnds
    \/ Verify

-----------------------------------------------------------------------------
(* Properties.  They are about what the records let the verifier conclude, *)
(* against what happened. *)

(* The windows the verifier rebuilds from the records cover, for every     *)
(* victim, each partition disruptoor accepted: nothing the monitor saw     *)
(* while the network was split is judged as if it were whole, whatever     *)
(* failed and however late the heal came (chaosWindows) - unless a sweep   *)
(* failed and the mesh was rebuilt after it, whose record the verifier     *)
(* takes for a heal.  And without a failure they are those partitions and  *)
(* no more, so no finding outside one is waived. *)
HealIsFeigned(c) ==
    \E i \in DOMAIN chaos : /\ chaos[i].kind = "heal" /\ chaos[i].detail = "re-peered"
                            /\ c.from < chaos[i].at /\ chaos[i].at < c.to

CutsAreCovered ==
    stage = "judged" =>
        LET windows == chaosWindows(chaos)
            real    == {c \in cuts : c.op \in applied}
        IN  /\ \A c \in {x \in real : ~HealIsFeigned(x)} : \A v \in opOf(c.op).victims : \E w \in windows :
                  w.node = v /\ w.from <= c.from /\ (Healed(w) => c.to <= w.to)
            /\ troubles = 0 =>
                 \A w \in windows : \E c \in real :
                     w.node \in opOf(c.op).victims /\ <<c.from, c.to>> = <<w.from, w.to>>

(* Two checks say what happened.  A lap whose partitions-healed check did  *)
(* not fail healed every partition by its deadline, although the check     *)
(* reads only records, a failed heal writes none, and a feigned one counts *)
(* as one.  checkStraddleRewind says "pass" only if every victim   *)
(* crossed the fork on a branch of its own and came back from it, and      *)
(* "fail" only if the partition was refused, its heal failed, some victim  *)
(* never came back - or another op of a victim's was refused soon after    *)
(* it, which straddleNeverApplied cannot tell apart. *)
Straddle == CHOOSE o \in admittedOps(sched) : o.class = "straddle"

StraddleFailed ==
    \/ Straddle.name \notin applied
    \/ \E l \in lost : l.node \in Straddle.victims
    \/ \E i \in DOMAIN chaos :
          /\ chaos[i].kind = "warn"
          /\ \/ chaos[i].op = Straddle.name
             \/ chaos[i].at \in Straddle.start..(Latest(Straddle) + SplitGrace)

VerdictsAreTrue ==
    stage = "judged" =>
        /\ verdicts.partitionsHealed # "fail" =>
             \A c \in cuts : c.op \in applied =>
                 HealIsFeigned(c) \/ c.to <= HealDeadline(sched, opOf(c.op))
        /\ verdicts.straddleRewind = "pass" =>
             /\ Straddle.name \in applied
             /\ Straddle.victims \subseteq alone \ {l.node : l \in lost}
        /\ verdicts.straddleRewind = "fail" => StraddleFailed

(* A lap in which nothing failed and every heal was in time is accepted or *)
(* at worst thin: no check fails it, whatever the victims did, wherever in *)
(* the lap an offline swap fell.  The exception is a swap begun within     *)
(* opMargin of a partition's end, which the swap gate allows and           *)
(* checkSwapsSerialized does not. *)
HealsInTime == \A c \in cuts : c.to <= HealDeadline(sched, opOf(c.op))

SwapSoonAfterAnOp ==
    \E sw \in swaps : \E o \in admittedOps(sched) : sw.stopAt - o.end \in 0..opMargin

CleanLapIsAccepted ==
    stage = "judged" /\ troubles = 0 /\ HealsInTime =>
        \A check \in DOMAIN verdicts :
            verdicts[check] = "fail" => check = "swapsSerialized" /\ SwapSoonAfterAnOp

(* A lap that is accepted ends with every node serving the fork block of   *)
(* the anchor's chain; and every finding of the monitor's about a node was *)
(* made while that node was cut off, in the time a straddle's islands have *)
(* to rejoin, or of a node being swapped - and was no root mismatch.  Only *)
(* a heal that failed leaves its node excused for longer. *)
Excusable(ev) ==
    \/ \E c \in cuts :
         LET o == opOf(c.op)
         IN  /\ ev.node \in o.victims
             /\ c.from - evidenceSlop <= ev.at
             /\ \/ ev.at <= c.to + evidenceSlop + IF o.class = "straddle" THEN SplitGrace ELSE 0
                \/ \E i \in DOMAIN chaos : /\ chaos[i].kind = "warn" /\ chaos[i].op = o.name
                                           /\ chaos[i].detail = "heal failed"
    \/ \E sw \in swaps : sw.node = ev.node /\ ev.at >= sw.stopAt - evidenceSlop

AcceptedIsSound ==
    stage = "judged" /\ accepted(verdicts) =>
        /\ \A n \in nodes : serves[n] = canonical
        /\ \A i \in DOMAIN monitor : monitor[i].kind = "critical" =>
              monitor[i].detail # "root-mismatch" /\ Excusable(monitor[i])
=============================================================================
