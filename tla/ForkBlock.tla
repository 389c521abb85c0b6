------------------------------ MODULE ForkBlock ------------------------------
(***************************************************************************)
(* cmd/migration-monitor's record of the fork block I*, the first canonical *)
(* block at or past the activation: each poll of a node re-checks or looks *)
(* for it, and the quorum compares the nodes' records.  The network moves  *)
(* beside the poll: the chain parts after block Fork, the nodes of branch  *)
(* "B" unwind to branch "A", and "A" finalizes.                            *)
(***************************************************************************)
EXTENDS Integers, FiniteSets

CONSTANTS
    N,          \* nodes, polled in order
    Fork,       \* the last block both branches share
    MaxHeight,  \* bound: the highest block
    Crossings,  \* the pairs of fork-block heights, one per branch, to try
    Gap,        \* bound: network steps between two reads of one poll
    Grace,      \* IStarProvisionalGrace, in rounds of polls
    Heals,      \* BOOLEAN: branch "B" unwinds
    MaxFails    \* bound: reads that fail

ASSUME ForkBlockAssumption ==
    /\ N \in Nat \ {0} /\ {Fork, MaxHeight, Gap, Grace, MaxFails} \subseteq Nat
    /\ \A x \in Crossings : \A b \in {"A", "B"} : x[b] \in (Fork + 1)..MaxHeight
    /\ Heals \in BOOLEAN

Node == 1..N

VARIABLES
    crossing,  \* branch -> height of its fork block
    branch, height, finalized, done,  \* each node's: its chain, and what it reports
    gap,       \* network steps since the poll's latest read
    who, pc,   \* the node polled and the read it is at
    progress,  \* the poll's debug_migrationProgress said done
    head,      \* the poll's HeadNumber
    boundary,  \* the header findIStar settled on
    istar, istarFinal, lastBelowT, prevDone,  \* each node's
    provisional, final,  \* the quorum's
    disagreed, \* rounds since disagreeSince, -1 when it is zero
    fails,     \* the bound's counter
    missed,    \* nodes with a failed read of their fork block
    alarms     \* critical events: <<kind, node>>

chain  == <<crossing, branch, height, finalized, done>>
poll   == <<who, pc, progress, head, boundary>>
record == <<istar, istarFinal, lastBelowT, prevDone>>
quorum == <<provisional, final, disagreed, alarms>>
reads  == <<fails, missed>>
vars   == <<chain, gap, poll, record, quorum, reads>>

NoRecord == [number |-> 0]

-----------------------------------------------------------------------------
(* Blocks.  A hash is the block's branch and height. *)
Block(n, h) == IF h <= Fork THEN <<"common", h>> ELSE <<branch[n], h>>
Past(n, h)  == h >= crossing[branch[n]]   \* the header's time is at or past the activation
Header(n, h) == [hash |-> Block(n, h), past |-> Past(n, h)]

(* The network. *)
Moves == pc = "progress" \/ gap < Gap
Moved == gap' = IF pc = "progress" THEN gap ELSE gap + 1

Grow(n) ==
    /\ height[n] < MaxHeight
    /\ height' = [height EXCEPT ![n] = @ + 1]
    /\ branch' \in IF height[n] = Fork THEN {branch, [branch EXCEPT ![n] = "B"]} ELSE {branch}
    /\ UNCHANGED <<finalized, done>>

(* "B" loses: the node unwinds to some head of the winning branch. *)
Unwind(n) ==
    /\ Heals /\ branch[n] = "B"
    /\ branch' = [branch EXCEPT ![n] = "A"]
    /\ \E h \in (Fork + 1)..MaxHeight : height' = [height EXCEPT ![n] = h]
    /\ UNCHANGED <<finalized, done>>

Finalizes(n) ==
    /\ ~finalized[n] /\ branch[n] = "A" /\ height[n] >= crossing["A"]
    /\ finalized' = [finalized EXCEPT ![n] = TRUE]
    /\ UNCHANGED <<branch, height, done>>

(* A client that retires its shadow reports done once the fork block is    *)
(* final. *)
Retires(n) ==
    /\ finalized[n] /\ ~done[n]
    /\ done' = [done EXCEPT ![n] = TRUE]
    /\ UNCHANGED <<branch, height, finalized>>

Network ==
    /\ Moves /\ Moved
    /\ \E n \in Node : Grow(n) \/ Unwind(n) \/ Finalizes(n) \/ Retires(n)
    /\ UNCHANGED <<crossing, poll, record, quorum, reads>>

-----------------------------------------------------------------------------
(* The quorum. *)
NoTime == -1

Differ(recs) == \E a, b \in Node : recs[a] # NoRecord /\ recs[b] # NoRecord
                                   /\ recs[a].hash # recs[b].hash

checkShape(n, b) == IF b.past /\ b.below THEN {} ELSE {<<"shape", n>>}

(* Runs when a record is taken, and then only. *)
checkProvisional(n, recs) ==
    IF Differ(recs)
    THEN /\ disagreed' = IF disagreed = NoTime THEN 0 ELSE disagreed
         /\ alarms' = alarms \cup checkShape(n, recs[n])
                             \cup (IF disagreed > Grace THEN {<<"provisional", n>>} ELSE {})
    ELSE /\ disagreed' = NoTime
         /\ alarms' = alarms \cup checkShape(n, recs[n])

Observe(n, b) ==
    /\ provisional' = [provisional EXCEPT ![n] = b]
    /\ checkProvisional(n, provisional')
    /\ UNCHANGED final

Finalize(n, b) ==
    /\ final' = [final EXCEPT ![n] = b]
    /\ alarms' = alarms \cup (IF Differ(final') THEN {<<"final", n>>} ELSE {})
    /\ UNCHANGED <<provisional, disagreed>>

-----------------------------------------------------------------------------
(* One node's poll: each step is one read. *)

At(step) == pc = step /\ gap' = 0
Failing  == fails < MaxFails /\ fails' = fails + 1 /\ UNCHANGED chain

Aged(n) == IF n = 1 /\ disagreed # NoTime /\ disagreed <= Grace THEN disagreed + 1
                                                                ELSE disagreed

(* The next node's poll; the first one's starts a round. *)
NextNode == /\ who' = (who % N) + 1 /\ pc' = "progress"
            /\ progress' = FALSE /\ head' = 0 /\ boundary' = NoRecord

Progress ==
    /\ At("progress")
    /\ progress' = done[who]
    /\ pc' = "head"
    /\ disagreed' = Aged(who)
    /\ UNCHANGED <<chain, who, head, boundary, record, provisional, final, alarms, reads>>

(* Nothing of the node is looked at on this tick. *)
Down ==
    /\ pc \in {"progress", "head"} /\ gap' = 0
    /\ Failing
    /\ NextNode
    /\ disagreed' = IF pc = "progress" THEN Aged(who) ELSE disagreed
    /\ UNCHANGED <<record, provisional, final, alarms, missed>>

HeadNumber ==
    /\ At("head")
    /\ head' = height[who]
    /\ pc' = CASE istar[who] = NoRecord -> "probe"
               [] istar[who] # NoRecord /\ ~istarFinal[who] -> "check"
               [] OTHER -> "judge"
    /\ UNCHANGED <<chain, who, progress, boundary, record, quorum, reads>>

(* Mutant of IStarReorged: the lower bound of the search survives. *)
KeepBelow ==
    /\ istar' = [istar EXCEPT ![who] = NoRecord]
    /\ lastBelowT' = [lastBelowT EXCEPT ![who] = istar[who].number]
    /\ UNCHANGED <<istarFinal, prevDone>>

(* The search for the fork block starts from scratch. *)
IStarReorged ==
    /\ istar' = [istar EXCEPT ![who] = NoRecord]
    /\ lastBelowT' = [lastBelowT EXCEPT ![who] = 0]
    /\ UNCHANGED <<istarFinal, prevDone>>

(* Mutant of CheckHash: an orphaned record is kept. *)
KeepsOrphan ==
    /\ At("check")
    /\ IF Block(who, istar[who].number) = istar[who].hash THEN pc' = "final" ELSE pc' = "judge"
    /\ UNCHANGED <<chain, who, progress, head, boundary, record, quorum, reads>>

(* checkForkBlock's first read.  A node whose chain has become too short   *)
(* answers with no header. *)
CheckHash ==
    /\ At("check")
    /\ IF istar[who].number > height[who]
       THEN pc' = "judge" /\ UNCHANGED record
       ELSE IF Block(who, istar[who].number) = istar[who].hash
            THEN pc' = "final" /\ UNCHANGED record
            ELSE pc' = "probe" /\ IStarReorged
    /\ UNCHANGED <<chain, who, progress, head, boundary, quorum, reads>>

(* Mutant of CheckFinal: finality of the height is taken for granted. *)
TrustsRecord ==
    /\ At("final")
    /\ istarFinal' = [istarFinal EXCEPT ![who] = TRUE]
    /\ Finalize(who, istar[who])
    /\ pc' = "judge"
    /\ UNCHANGED <<chain, who, progress, head, boundary, istar, lastBelowT, prevDone, reads>>

CheckFinal ==
    /\ At("final")
    /\ IF finalized[who]
       THEN /\ istarFinal' = [istarFinal EXCEPT ![who] = TRUE]
            /\ Finalize(who, istar[who])
       ELSE UNCHANGED <<istarFinal, quorum>>
    /\ pc' = "judge"
    /\ UNCHANGED <<chain, who, progress, head, boundary, istar, lastBelowT, prevDone, reads>>

CheckFails ==
    /\ pc \in {"check", "final"} /\ gap' = 0
    /\ Failing
    /\ pc' = "judge"
    /\ missed' = missed \cup {who}
    /\ UNCHANGED <<who, progress, head, boundary, record, quorum>>

(* findIStar: a search above lastBelowT of the chain the node has now, up  *)
(* to the head it had. *)
SearchFrom(low) == {h \in (low + 1)..head : Past(who, h)}

Lowest(S) == CHOOSE h \in S : \A i \in S : h <= i

ProbeBelow ==
    /\ At("probe")
    /\ head <= height[who] /\ ~Past(who, head)
    /\ lastBelowT' = [lastBelowT EXCEPT ![who] = head]
    /\ pc' = "judge"
    /\ UNCHANGED <<chain, who, progress, head, boundary, istar, istarFinal, prevDone, quorum, reads>>

Probe ==
    /\ At("probe")
    /\ head <= height[who] /\ Past(who, head)
    /\ LET above == SearchFrom(lastBelowT[who])
           hi    == IF above = {} THEN head ELSE Lowest(above)
       IN  boundary' = [number |-> hi, hash |-> Block(who, hi), past |-> Past(who, hi)]
    /\ pc' = "parent"
    /\ UNCHANGED <<chain, who, progress, head, record, quorum, reads>>

ObserveIStar ==
    /\ At("parent")
    /\ boundary.number - 1 <= height[who]
    /\ LET b == [number |-> boundary.number, hash |-> boundary.hash, past |-> boundary.past,
                 below  |-> ~Past(who, boundary.number - 1)]
       IN  istar' = [istar EXCEPT ![who] = b] /\ Observe(who, b)
    /\ pc' = "judge"
    /\ UNCHANGED <<chain, who, progress, head, boundary, istarFinal, lastBelowT, prevDone, reads>>

ProbeFails ==
    /\ pc \in {"probe", "parent"}
    /\ \/ Failing
       \/ /\ height[who] < IF pc = "probe" THEN head ELSE boundary.number - 1
          /\ UNCHANGED <<chain, fails>>
    /\ gap' = 0 /\ pc' = "judge"
    /\ missed' = missed \cup {who}
    /\ UNCHANGED <<who, progress, head, boundary, record, quorum>>

(* done on two consecutive polls with the fork block not final. *)
Judge ==
    /\ At("judge")
    /\ alarms' = alarms \cup (IF progress /\ prevDone[who] /\ ~istarFinal[who]
                              THEN {<<"done", who>>} ELSE {})
    /\ prevDone' = [prevDone EXCEPT ![who] = progress]
    /\ NextNode
    /\ UNCHANGED <<chain, istar, istarFinal, lastBelowT, provisional, final, disagreed, reads>>

-----------------------------------------------------------------------------
Init ==
    /\ crossing \in Crossings
    /\ branch = [n \in Node |-> "A"] /\ height = [n \in Node |-> Fork]
    /\ finalized = [n \in Node |-> FALSE] /\ done = [n \in Node |-> FALSE]
    /\ gap = 0
    /\ who = 1 /\ pc = "progress" /\ progress = FALSE /\ head = 0 /\ boundary = NoRecord
    /\ istar = [n \in Node |-> NoRecord] /\ istarFinal = [n \in Node |-> FALSE]
    /\ lastBelowT = [n \in Node |-> 0] /\ prevDone = [n \in Node |-> FALSE]
    /\ provisional = [n \in Node |-> NoRecord] /\ final = [n \in Node |-> NoRecord]
    /\ disagreed = NoTime
    /\ fails = 0 /\ missed = {} /\ alarms = {}

pollOnce == Progress \/ Down \/ HeadNumber \/ CheckHash \/ CheckFinal \/ CheckFails
            \/ ProbeBelow \/ Probe \/ ObserveIStar \/ ProbeFails \/ Judge

Next == Network \/ pollOnce

Spec == Init /\ [][Next]_vars

(* The poll ticker keeps firing, and reads fail a bounded number of times. *)
FairSpec == Spec /\ WF_vars(pollOnce)

-----------------------------------------------------------------------------
Heights == 0..MaxHeight

TypeOK ==
    /\ crossing \in Crossings
    /\ branch \in [Node -> {"A", "B"}] /\ height \in [Node -> Heights]
    /\ {finalized, done, istarFinal, prevDone} \subseteq [Node -> BOOLEAN]
    /\ gap \in 0..Gap /\ who \in Node /\ progress \in BOOLEAN /\ head \in Heights
    /\ pc \in {"progress", "head", "check", "final", "probe", "parent", "judge"}
    /\ \A n \in Node : /\ istar[n].number \in Heights
                       /\ provisional[n].number \in Heights /\ final[n].number \in Heights
    /\ lastBelowT \in [Node -> Heights]
    /\ disagreed \in NoTime..(Grace + 1)
    /\ missed \subseteq Node /\ fails \in 0..MaxFails
    /\ alarms \subseteq {"shape", "provisional", "final", "done"} \X Node

TheForkBlock == <<"A", crossing["A"]>>

(* A settled record is the fork block of the chain that finalized, whatever *)
(* the node had recorded, lost and searched for before, and with the chain *)
(* moving between the reads that decide it. *)
SettledIsTheForkBlock ==
    \A n \in Node : istarFinal[n] => istar[n].hash = TheForkBlock

(* No critical against a healthy network: one chain finalizes, and every   *)
(* block's parent was built before it.  Only a node whose fork block could *)
(* not be re-read in time is reported as done too early. *)
NoFalseAlarm ==
    \A a \in alarms : a[1] \notin {"shape", "final"} /\ (a[1] = "done" => a[2] \in missed)

(* Every node whose chain has finalized the fork block gets a settled      *)
(* record, however many branches it recorded on the way. *)
EveryoneSettles ==
    \A n \in Node : finalized[n] ~> istarFinal[n]
=============================================================================
