----------------------------- MODULE LapVerifier -----------------------------
(***************************************************************************)
(* cmd/verify-migration: the acceptance verifier.  After a lap it reads    *)
(* the chaos driver's stream, the monitor's stream and what the clients    *)
(* serve, rebuilds the partitions from the records, and judges the lap.    *)
(* The module is pure: operators over a resolved schedule s (MigSchedule)  *)
(* and the streams, each a sequence of records in time order.              *)
(*                                                                         *)
(* chaos   : [kind, at, node, detail, op]; node = Everyone is Go's ""      *)
(* monitor : [kind, at, node, block, old, depth, detail]                   *)
(* logs    : a set of [node, at, drop], the clients' own reorg lines       *)
(* serves  : node -> the block it serves at or past the activation time    *)
(***************************************************************************)
EXTENDS MigSchedule

Everyone == 0          \* the node of a heal-all, and of a finding about no node
NoBlock  == [number |-> 0, maker |-> 0]

opAttributionSlop == 30
evidenceSlop      == 30      \* "slop" of matchReorg and of the waiver checks
SplitGrace        == 720
deepEnough        == 10
fullRun           == 4       \* the floor of a full run's healed partitions

-----------------------------------------------------------------------------
(* Partition windows, rebuilt from the records.  to = NoTime: never healed. *)

(* Mutant of windowStep: a second isolate for a node opens a window anew.  *)
windowStepAnew(acc, ev) ==
    LET shut == {w \in acc.open : ev.node \in {Everyone, w.node}}
    IN  CASE ev.kind = "isolate" ->
               [acc EXCEPT !.open = {w \in @ : w.node # ev.node} \cup
                                    {[node |-> ev.node, from |-> ev.at, to |-> NoTime]}]
          [] ev.kind = "heal" ->
               [open   |-> acc.open \ shut,
                closed |-> acc.closed \cup {[w EXCEPT !.to = ev.at] : w \in shut}]
          [] OTHER -> acc

(* A second isolate while a window is open is a status record of the same  *)
(* cut; a heal closes its node's window, a heal-all every one. *)
windowStep(acc, ev) ==
    LET shut == {w \in acc.open : ev.node \in {Everyone, w.node}}
    IN  CASE ev.kind = "isolate" ->
               [acc EXCEPT !.open = IF \E w \in @ : w.node = ev.node THEN @
                                    ELSE @ \cup {[node |-> ev.node, from |-> ev.at, to |-> NoTime]}]
          [] ev.kind = "heal" ->
               [open   |-> acc.open \ shut,
                closed |-> acc.closed \cup {[w EXCEPT !.to = ev.at] : w \in shut}]
          [] OTHER -> acc

chaosWindows(chaos) ==
    LET read[i \in 0..Len(chaos)] ==
            IF i = 0 THEN [open |-> {}, closed |-> {}] ELSE windowStep(read[i-1], chaos[i])
        all == read[Len(chaos)]
    IN  all.open \cup all.closed

Healed(w) == w.to # NoTime

(* Mutant of coversEvent: the node is not compared. *)
coversAnyone(w, node, t, slop) ==
    w.from - slop <= t /\ (Healed(w) => t <= w.to + slop)

(* An empty node on either side matches any node. *)
coversEvent(w, node, t, slop) ==
    /\ w.node # node => Everyone \in {w.node, node}
    /\ w.from - slop <= t
    /\ Healed(w) => t <= w.to + slop

(* Mutant of opOwns: no slop, as if the driver's calls took no time. *)
opOwnsExactly(o, w) == w.node \in o.victims /\ w.from \in {o.start, o.end}

(* The window's victim is one of the op's and it started inside the op's   *)
(* span, give or take. *)
opOwns(o, w) ==
    /\ w.node \in o.victims
    /\ o.start - opAttributionSlop <= w.from
    /\ w.from <= o.end + opAttributionSlop

owners(s, w) == {o \in admittedOps(s) : opOwns(o, w)}

(* The first op, in schedule order, that owns the window. *)
ownerOf(s, w) == CHOOSE o \in owners(s, w) : \A p \in owners(s, w) : o.name <= p.name

matchedWindows(s, chaos) ==
    {[op |-> ownerOf(s, w), window |-> w] : w \in {x \in chaosWindows(chaos) : owners(s, x) # {}}}

unscheduledWindows(s, chaos) == {w \in chaosWindows(chaos) : owners(s, w) = {}}

(* Where a critical finding is expected: the windows, a straddle's extended *)
(* by the time its islands may take to rejoin, and each swap's downtime.    *)
waiverWindows(s, chaos, swaps) ==
    {IF Healed(w) /\ \E o \in owners(s, w) : o.class = "straddle"
     THEN [w EXCEPT !.to = @ + SplitGrace] ELSE w : w \in chaosWindows(chaos)}
    \cup
    {[node |-> sw.node, from |-> sw.stopAt, to |-> sw.caughtUpAt + SplitGrace] :
        sw \in {x \in swaps : x.stopAt # 0 /\ x.caughtUpAt # 0}}

waived(windows, ev) == \E w \in windows : coversEvent(w, ev.node, ev.at, evidenceSlop)

-----------------------------------------------------------------------------
(* Reorg evidence for one window: the client's own log line is the         *)
(* authority, a monitor event the fallback.  0: none. *)
matchReorg(w, monitor, logs) ==
    LET lines == {l.drop : l \in {x \in logs : x.node = w.node
                                     /\ coversEvent(w, Everyone, x.at, evidenceSlop)}}
        seen  == {ev.depth : ev \in {x \in Range(monitor) : x.kind = "reorg" /\ x.node = w.node
                                     /\ coversEvent(w, x.node, x.at, evidenceSlop)}}
    IN  IF Max({0} \cup lines) > 0 THEN Max(lines) ELSE Max({0} \cup seen)

-----------------------------------------------------------------------------
(* The checks: "pass", "fail" or "inconclusive". *)

stray(s, chaos) == {w \in unscheduledWindows(s, chaos) : ~(s.quiet # 0 /\ w.from > s.quiet)}

(* Mutant of lateHeals: only the windows that were never healed. *)
neverHealed(s, chaos) == {m \in matchedWindows(s, chaos) : ~Healed(m.window)}

lateHeals(s, chaos) ==
    {m \in matchedWindows(s, chaos) : ~Healed(m.window) \/ m.window.to > HealDeadline(s, m.op)}

checkPartitionsHealed(s, chaos, monitor, logs) ==
    LET matched      == matchedWindows(s, chaos)
        corroborated == {m \in matched : matchReorg(m.window, monitor, logs) > 0}
    IN  CASE stray(s, chaos) # {} \/ lateHeals(s, chaos) # {} -> "fail"
          [] Cardinality(matched) < fullRun                   -> "inconclusive"
          [] Cardinality(corroborated) < fullRun              -> "inconclusive"
          [] OTHER                                            -> "pass"

(* Some op entirely before the fork reorged deep enough. *)
checkPreForkDeepReorg(s, chaos, monitor, logs) ==
    IF \E m \in matchedWindows(s, chaos) :
          /\ m.op.end < s.fork
          /\ Healed(m.window)
          /\ matchReorg(m.window, monitor, logs) >= deepEnough
    THEN "pass" ELSE "inconclusive"

istarReorgedFor(node, monitor) ==
    \E ev \in Range(monitor) : ev.kind = "istar-reorged" /\ ev.node = node

healSays(node, from, detail, chaos) ==
    \E ev \in Range(chaos) :
        ev.kind = "heal" /\ ev.node = node /\ ev.at >= from /\ ev.detail = detail

(* The driver said it skipped the op, or warned that its partition failed  *)
(* while the op could still be open. *)
straddleNeverApplied(o, chaos) ==
    \E ev \in Range(chaos) :
        /\ ev.node \in o.victims
        /\ \/ ev.kind = "skip" /\ ev.detail = "never applied" /\ ev.op = o.name
           \/ /\ ev.kind = "warn" /\ ev.detail = "partition failed"
              /\ o.start <= ev.at /\ ev.at <= Latest(o) + SplitGrace

straddlesOf(s) ==
    {o \in admittedOps(s) : o.class = "straddle" /\ o.start <= s.fork /\ s.fork <= Latest(o)}

(* The heal's record says there was nothing to judge of this victim. *)
excused(v, o, chaos) ==
    \/ healSays(v, o.start, "never crossed", chaos)
    \/ healSays(v, o.start, "unreachable", chaos)

checkStraddleRewind(s, anchor, chaos, monitor) ==
    IF straddlesOf(s) = {} THEN "inconclusive"
    ELSE LET o    == CHOOSE x \in straddlesOf(s) : \A y \in straddlesOf(s) : x.name <= y.name
             kept == {v \in o.victims : ~istarReorgedFor(v, monitor)}
         IN  CASE o.victims = {} \/ straddleNeverApplied(o, chaos)   -> "fail"
               [] istarReorgedFor(anchor, monitor)                   -> "fail"
               [] \E v \in kept : ~excused(v, o, chaos)              -> "fail"
               [] kept # {}                                          -> "inconclusive"
               [] OTHER                                              -> "pass"

-----------------------------------------------------------------------------
(* The fork block. *)

(* The block of each node's last record of these kinds. *)
lastRecords(monitor, kinds) ==
    LET ofKind == {i \in DOMAIN monitor : monitor[i].kind \in kinds}
        nodes  == {monitor[i].node : i \in ofKind}
    IN  [n \in nodes |-> monitor[Max({i \in ofKind : monitor[i].node = n})].block]

(* I* is what the monitor's records and the walk over the first node's     *)
(* headers agree on; 0: unresolved.  The walk fails while that node has    *)
(* not reached the activation time. *)
resolveIStar(monitor, walked) ==
    LET numbers == {b.number : b \in Range(lastRecords(monitor, {"istar"}))}
    IN  CASE Cardinality(numbers) > 1                   -> 0
          [] numbers = {}                               -> walked
          [] walked \in numbers \cup {0}                -> CHOOSE x \in numbers : TRUE
          [] OTHER                                      -> 0

(* A profile with a short run-up needs three quarters of its slots. *)
checkChainBeforeFork(s, istar) ==
    LET least == IF s.slot > 0 /\ s.fork > 0
                 THEN Min({101, ((s.fork \div s.slot) * 3) \div 4}) ELSE 101
    IN  IF istar # 0 /\ istar >= least THEN "pass" ELSE "fail"

(* The finalized record the nodes agree on, else their latest record;      *)
(* NoBlock when there is none or they disagree. *)
finalForkBlock(monitor) ==
    LET final   == lastRecords(monitor, {"istar-final"})
        latest  == lastRecords(monitor, {"istar", "istar-reorged"})
        records == Range(IF final # <<>> THEN final ELSE latest)
    IN  IF Cardinality(records) = 1 THEN CHOOSE b \in records : TRUE ELSE NoBlock

criticals(monitor, findings) ==
    {ev \in Range(monitor) : ev.kind = "critical" /\ ev.detail \in findings}

servesFork(serves, final) == \A n \in DOMAIN serves : serves[n] = final

checkForkBlockConvergence(s, chaos, monitor, serves, swaps) ==
    LET final == finalForkBlock(monitor)
        seen  == {ev.block : ev \in {x \in Range(monitor) : x.kind \in {"istar", "istar-reorged"}}}
    IN  CASE final = NoBlock \/ ~servesFork(serves, final)            -> "fail"
          [] \E ev \in criticals(monitor, {"no-convergence"}) :
                ~waived(waiverWindows(s, chaos, swaps), ev)           -> "fail"
          [] Cardinality(seen) < 2                                    -> "inconclusive"
          [] OTHER                                                    -> "pass"

(* The blocks some node's fork block was before a reorg orphaned it. *)
orphanedForkBlocks(monitor) ==
    {ev.old : ev \in {x \in Range(monitor) : x.kind = "istar-reorged"}}

(* The canonical block of the orphan's height is read once, from the first *)
(* node that still knows the orphan. *)
stillCanonical(b, knows, serves) ==
    LET holders == {n \in DOMAIN knows : b \in knows[n]}
    IN  holders # {} /\ serves[Min(holders)] = b

(* Every orphaned fork block is gone or superseded on every node. *)
checkOrphanGone(monitor, knows, serves) ==
    CASE orphanedForkBlocks(monitor) = {} -> "inconclusive"
      [] \E b \in orphanedForkBlocks(monitor) : stillCanonical(b, knows, serves) -> "fail"
      [] OTHER -> "pass"

-----------------------------------------------------------------------------
(* The shadow-root check's last part: a root mismatch is never waived,     *)
(* another critical only in a waiver window. *)
checkCriticals(s, chaos, monitor, swaps) ==
    IF \E ev \in {x \in Range(monitor) : x.kind = "critical"} :
          \/ ev.detail = "root-mismatch"
          \/ ~waived(waiverWindows(s, chaos, swaps), ev)
    THEN "fail" ELSE "pass"

-----------------------------------------------------------------------------
(* The offline lap's swaps: [node, stopAt, startAt, caughtUpAt, skipped].  *)
opMargin == 60

swapEnd(sw) == Max({sw.caughtUpAt, sw.startAt})

meetsOp(sw, o) == sw.stopAt <= o.end + opMargin /\ swapEnd(sw) >= o.start - opMargin

(* One at a time, clear of every op, never the anchor, each in its time. *)
checkSwapsSerialized(s, swaps, timeout) ==
    LET ran == {sw \in swaps : ~sw.skipped}
    IN  CASE swaps = {} -> "inconclusive"
          [] ~ /\ \A sw \in swaps : sw.node # 1
               /\ \A sw \in ran :
                     /\ sw.stopAt # 0 /\ swapEnd(sw) # 0
                     /\ sw.caughtUpAt # 0 => sw.caughtUpAt - sw.stopAt <= timeout
                     /\ \A o \in admittedOps(s) : ~meetsOp(sw, o)
               /\ \A a, b \in ran : a # b => a.stopAt >= swapEnd(b) \/ b.stopAt >= swapEnd(a)
             -> "fail"
          [] ran = {} -> "inconclusive"
          [] OTHER    -> "pass"

(* Run: the exit code counts the failed checks; a run in which none passed *)
(* fails too. *)
accepted(verdicts) == "fail" \notin Range(verdicts) /\ "pass" \in Range(verdicts)
=============================================================================
