--------------------------- MODULE ForkBlockProofs ---------------------------
(***************************************************************************)
(* Proofs about the monitor's record of the fork block, for any number of  *)
(* nodes, any heights and any pattern of failing reads.  Two assumptions:  *)
(* the losing branch's fork block is not higher than the winner's, and the *)
(* network does not both unwind and finalize between two reads of a poll.  *)
(***************************************************************************)
EXTENDS ForkBlock, TLAPS

LosersAreSparser == \A x \in Crossings : x["B"] <= x["A"]

Values ==
    /\ crossing \in Crossings
    /\ branch \in [Node -> {"A", "B"}] /\ height \in [Node -> Nat]
    /\ finalized \in [Node -> BOOLEAN] /\ istarFinal \in [Node -> BOOLEAN]
    /\ lastBelowT \in [Node -> Nat] /\ DOMAIN istar = Node
    /\ gap \in Nat /\ who \in Node /\ head \in Nat

(* A node at the last common block has seen nothing above it. *)
Untouched ==
    \A n \in Node :
        /\ height[n] >= Fork
        /\ height[n] = Fork => /\ branch[n] = "A" /\ lastBelowT[n] <= Fork
                               /\ who = n => head <= Fork

(* The lower bound of the search is below the fork block of the chain the  *)
(* node has now, whichever it had when the bound was set. *)
BoundIsBelow == \A n \in Node : lastBelowT[n] < crossing[branch[n]]

IsForkBlock(b) ==
    \E x \in {"A", "B"} : b.hash = <<x, crossing[x]>> /\ b.number = crossing[x]

(* What is recorded, or about to be, is some branch's fork block. *)
RecordsAreForkBlocks ==
    /\ \A n \in Node : istar[n] # NoRecord => IsForkBlock(istar[n]) /\ height[n] > Fork
    /\ pc = "parent" => IsForkBlock(boundary) /\ height[who] > Fork

WhereThePollIs ==
    /\ pc \in {"check", "final"}  => istar[who] # NoRecord /\ ~istarFinal[who]
    /\ pc \in {"probe", "parent"} => ~istarFinal[who]

WinnerFinalizes ==
    \A n \in Node : finalized[n] => branch[n] = "A" /\ height[n] >= crossing["A"]

(* Between its two reads, a record that was re-checked is on the node's    *)
(* chain, or the chain was unwound just now and is not final. *)
CheckedIsCanonical ==
    pc = "final" => \/ istar[who].hash = <<branch[who], crossing[branch[who]]>>
                    \/ ~finalized[who] /\ gap >= 1

SettledForGood ==
    \A n \in Node : istarFinal[n] => istar[n] # NoRecord /\ istar[n].hash = TheForkBlock

IInv ==
    /\ Values
    /\ Untouched
    /\ BoundIsBelow
    /\ RecordsAreForkBlocks
    /\ WhereThePollIs
    /\ WinnerFinalizes
    /\ CheckedIsCanonical
    /\ SettledForGood

-----------------------------------------------------------------------------
LEMMA CrossingFacts ==
    ASSUME crossing \in Crossings, LosersAreSparser
    PROVE  /\ Fork \in Nat
           /\ crossing["A"] \in Nat /\ crossing["A"] > Fork
           /\ crossing["B"] \in Nat /\ crossing["B"] > Fork
           /\ crossing["B"] <= crossing["A"]
BY ForkBlockAssumption DEF LosersAreSparser

LEMMA InvInit == LosersAreSparser /\ Init => IInv
<1> SUFFICES ASSUME LosersAreSparser, Init PROVE IInv
  OBVIOUS
<1>1. 1 \in Node
  BY ForkBlockAssumption DEF Node
<1> QED
  BY <1>1, CrossingFacts
     DEF Init, IInv, Values, Untouched, BoundIsBelow, RecordsAreForkBlocks, WhereThePollIs,
         WinnerFinalizes, CheckedIsCanonical, SettledForGood

-----------------------------------------------------------------------------
LEMMA NetworkKeeps ==
    ASSUME LosersAreSparser, Gap <= 1, IInv, Network
    PROVE  IInv'
<1> USE ForkBlockAssumption
<1>1. PICK n \in Node : Grow(n) \/ Unwind(n) \/ Finalizes(n) \/ Retires(n)
  BY DEF Network
<1>2. /\ crossing' = crossing /\ UNCHANGED <<poll, record>>
      /\ gap' \in Nat
      /\ pc = "final" => gap = 0 /\ gap' = 1
  BY DEF Network, Moves, Moved, IInv, Values
<1>3. crossing \in Crossings /\ TheForkBlock' = TheForkBlock
  BY <1>2 DEF IInv, Values, TheForkBlock
<1> USE CrossingFacts, <1>2, <1>3
    DEF IInv, Values, Untouched, BoundIsBelow, RecordsAreForkBlocks, IsForkBlock,
        WhereThePollIs, WinnerFinalizes, CheckedIsCanonical, SettledForGood, poll, record
<1>4. CASE Grow(n)
  <2>1. /\ height' = [height EXCEPT ![n] = @ + 1]
        /\ branch' = branch \/ (height[n] = Fork /\ branch' = [branch EXCEPT ![n] = "B"])
        /\ finalized' = finalized
    BY <1>4 DEF Grow
  <2> QED
    BY <2>1
<1>5. CASE Unwind(n)
  <2>1. PICK h \in (Fork + 1)..MaxHeight : height' = [height EXCEPT ![n] = h]
    BY <1>5 DEF Unwind
  <2>2. branch[n] = "B" /\ branch' = [branch EXCEPT ![n] = "A"] /\ finalized' = finalized
    BY <1>5 DEF Unwind
  <2>3. h \in Nat /\ h > Fork
    OBVIOUS
  <2> QED
    BY <2>1, <2>2, <2>3
<1>6. CASE Finalizes(n)
  BY <1>6 DEF Finalizes
<1>7. CASE Retires(n)
  BY <1>7 DEF Retires
<1> QED
  BY <1>1, <1>4, <1>5, <1>6, <1>7

LEMMA NextNodeIsANode ==
    ASSUME who \in Node, NextNode
    PROVE  who' \in Node /\ head' = 0 /\ pc' = "progress"
BY ForkBlockAssumption DEF NextNode, Node

(* The search above a bound below the fork block finds the fork block. *)
LEMMA ProbeFindsTheForkBlock ==
    ASSUME LosersAreSparser, IInv, Probe
    PROVE  IsForkBlock(boundary') /\ height[who] > Fork
<1> DEFINE c == crossing[branch[who]]
<1>1. /\ head \in Nat /\ c \in Nat /\ c > Fork /\ lastBelowT[who] \in Nat /\ lastBelowT[who] < c
      /\ branch[who] \in {"A", "B"} /\ height[who] \in Nat /\ Fork \in Nat
  BY CrossingFacts DEF IInv, Values, BoundIsBelow
<1>2. head <= height[who] /\ head >= c
  BY DEF Probe, Past
<1>3. SearchFrom(lastBelowT[who]) = c..head
  BY <1>1, <1>2 DEF SearchFrom, Past
<1>4. c..head # {} /\ Lowest(c..head) = c
  <2>1. c \in c..head /\ \A i \in c..head : c <= i
    BY <1>1, <1>2
  <2> DEFINE l == Lowest(c..head)
  <2>2. l \in c..head /\ \A i \in c..head : l <= i
    BY <2>1 DEF Lowest
  <2> QED
    BY <1>1, <2>1, <2>2
<1>5. boundary' = [number |-> c, hash |-> Block(who, c), past |-> Past(who, c)]
  BY <1>3, <1>4 DEF Probe
<1>6. Block(who, c) = <<branch[who], c>>
  BY <1>1 DEF Block
<1>7. crossing' = crossing
  BY DEF Probe, chain
<1> QED
  BY <1>1, <1>2, <1>5, <1>6, <1>7 DEF IsForkBlock

LEMMA PollKeeps ==
    ASSUME LosersAreSparser, IInv, pollOnce
    PROVE  IInv'
<1> USE CrossingFacts
    DEF IInv, Values, Untouched, BoundIsBelow, RecordsAreForkBlocks, IsForkBlock,
        WhereThePollIs, WinnerFinalizes, CheckedIsCanonical, SettledForGood, TheForkBlock,
        chain, record, At
<1>1. CASE Progress
  BY <1>1 DEF Progress
<1>2. CASE Down
  BY <1>2, NextNodeIsANode DEF Down, Failing
<1>3. CASE HeadNumber
  BY <1>3 DEF HeadNumber
<1>4. CASE CheckHash
  BY <1>4 DEF CheckHash, Block, IStarReorged
<1>5. CASE CheckFinal
  <2>1. /\ UNCHANGED <<crossing, branch, height, finalized, who, head, boundary, istar,
                       lastBelowT>>
        /\ pc = "final" /\ pc' = "judge" /\ gap' = 0
    BY <1>5 DEF CheckFinal
  <2>2. CASE ~finalized[who]
    <3>1. istarFinal' = istarFinal
      BY <1>5, <2>2, Zenon DEF CheckFinal
    <3> QED
      BY <2>1, <3>1, Zenon
  <2>3. CASE finalized[who]
    <3>1. istarFinal' = [istarFinal EXCEPT ![who] = TRUE]
      BY <1>5, <2>3, Zenon DEF CheckFinal
    <3>2. istar[who] # NoRecord /\ istar[who].hash = TheForkBlock
      BY <2>1, <2>3, Zenon
    <3>3. istarFinal' \in [Node -> BOOLEAN]
      BY <3>1
    <3>4. \A n \in Node : istarFinal'[n] => istarFinal[n] \/ n = who
      BY <3>1
    <3>5. SettledForGood'
      BY <2>1, <3>2, <3>4, Zenon
    <3> QED
      BY <2>1, <3>3, <3>5, Zenon
  <2> QED
    BY <2>2, <2>3, Zenon
<1>6. CASE CheckFails
  BY <1>6 DEF CheckFails, Failing
<1>7. CASE ProbeBelow
  BY <1>7 DEF ProbeBelow, Past
<1>8. CASE Probe
  BY <1>8, ProbeFindsTheForkBlock DEF Probe
<1>9. CASE ObserveIStar
  BY <1>9 DEF ObserveIStar
<1>10. CASE ProbeFails
  BY <1>10 DEF ProbeFails, Failing
<1>11. CASE Judge
  BY <1>11, NextNodeIsANode DEF Judge
<1> QED
  BY <1>1, <1>2, <1>3, <1>4, <1>5, <1>6, <1>7, <1>8, <1>9, <1>10, <1>11 DEF pollOnce

LEMMA Invariant ==
    ASSUME LosersAreSparser, Gap <= 1 PROVE Spec => []IInv
<1>1. IInv /\ [Next]_vars => IInv'
  <2> SUFFICES ASSUME IInv, [Next]_vars PROVE IInv'
    OBVIOUS
  <2>1. CASE UNCHANGED vars
    BY <2>1
       DEF vars, chain, poll, record, IInv, Values, Untouched, BoundIsBelow,
           RecordsAreForkBlocks, IsForkBlock, WhereThePollIs, WinnerFinalizes,
           CheckedIsCanonical, SettledForGood, TheForkBlock
  <2> QED
    BY <2>1, NetworkKeeps, PollKeeps DEF Next
<1> QED
  BY <1>1, InvInit, PTL DEF Spec

(* A record that is marked as settled is the fork block of the chain that  *)
(* finalized. *)
THEOREM SettledOnTheWinner ==
    ASSUME LosersAreSparser, Gap <= 1 PROVE Spec => []SettledIsTheForkBlock
<1>1. IInv => SettledIsTheForkBlock
  BY DEF IInv, SettledForGood, SettledIsTheForkBlock
<1> QED
  BY <1>1, Invariant, PTL

-----------------------------------------------------------------------------
(* The alarms. *)

(* A client reports done only about a final fork block, and the monitor    *)
(* believes it no earlier. *)
DoneIsFinal ==
    /\ done \in [Node -> BOOLEAN] /\ prevDone \in [Node -> BOOLEAN] /\ progress \in BOOLEAN
    /\ \A n \in Node : done[n] => finalized[n]
    /\ \A n \in Node : prevDone[n] => finalized[n]
    /\ progress => finalized[who]

(* By the end of a poll that heard "done", every read of which came back,  *)
(* the node's record is the fork block; by the end of the next, final. *)
Missed == who \in missed

Recorded(n) == istar[n] # NoRecord /\ istar[n].hash = TheForkBlock

DoneIsRecorded ==
    /\ progress /\ pc \in {"check", "probe"} => head >= crossing["A"]
    /\ progress /\ pc = "parent" => boundary.hash = TheForkBlock
    /\ progress /\ pc \in {"final", "judge"} => Missed \/ Recorded(who)
    /\ \A n \in Node : prevDone[n] => n \in missed \/ Recorded(n)
    /\ prevDone[who] /\ pc \in {"probe", "parent"} => Missed
    /\ prevDone[who] /\ pc = "judge" => Missed \/ istarFinal[who]

(* The block below a fork block is below every fork block the node can     *)
(* still have. *)
BoundaryIsShaped ==
    pc = "parent" => boundary.past /\ boundary.number - 1 < crossing[branch[who]]

QuorumIsTheForkBlock ==
    /\ DOMAIN final = Node /\ DOMAIN provisional = Node
    /\ \A n \in Node : final[n] # NoRecord => final[n].hash = TheForkBlock

AlarmInv ==
    /\ IInv
    /\ DoneIsFinal
    /\ DoneIsRecorded
    /\ BoundaryIsShaped
    /\ QuorumIsTheForkBlock
    /\ NoFalseAlarm

LEMMA AlarmInit == LosersAreSparser /\ Init => AlarmInv
<1> SUFFICES ASSUME LosersAreSparser, Init PROVE AlarmInv
  OBVIOUS
<1>1. DoneIsFinal
  BY Zenon DEF Init, DoneIsFinal
<1>2. 1 \in Node
  BY ForkBlockAssumption DEF Node
<1> QED
  BY <1>1, <1>2, InvInit
     DEF Init, AlarmInv, DoneIsRecorded, BoundaryIsShaped, QuorumIsTheForkBlock, NoFalseAlarm, DoneIsFinal

(* A node that has finalized keeps its branch, and does not shrink. *)
LEMMA NetworkFacts ==
    ASSUME LosersAreSparser, Gap <= 1, IInv, DoneIsFinal, Network
    PROVE  /\ UNCHANGED <<crossing, poll, record, quorum, reads>>
           /\ DoneIsFinal'
           /\ \A n \in Node : height[n] > Fork /\ crossing["B"] <= crossing["A"] =>
                                crossing[branch'[n]] >= crossing[branch[n]]
<1>1. PICK n \in Node : Grow(n) \/ Unwind(n) \/ Finalizes(n) \/ Retires(n)
  BY DEF Network
<1>2. UNCHANGED <<crossing, poll, record, quorum, reads>>
  BY DEF Network
<1>3. done' \in [Node -> BOOLEAN]
  BY <1>1, Zenon DEF Grow, Unwind, Finalizes, Retires, DoneIsFinal
<1>4. \A m \in Node : finalized[m] => finalized'[m]
  BY <1>1 DEF Grow, Unwind, Finalizes, Retires, IInv, Values
<1>5. \A m \in Node : done'[m] => finalized'[m]
  BY <1>1 DEF Grow, Unwind, Finalizes, Retires, IInv, Values, DoneIsFinal
<1>6. DoneIsFinal'
  BY <1>2, <1>3, <1>4, <1>5, Zenon DEF DoneIsFinal, poll, record, IInv, Values
<1>7. ASSUME NEW m \in Node, height[m] > Fork, crossing["B"] <= crossing["A"]
      PROVE  crossing[branch'[m]] >= crossing[branch[m]]
  BY <1>1, <1>7, CrossingFacts DEF Grow, Unwind, Finalizes, Retires, IInv, Values
<1> QED
  BY <1>2, <1>6, <1>7

LEMMA AlarmNetwork ==
    ASSUME LosersAreSparser, Gap <= 1, AlarmInv, Network
    PROVE  AlarmInv'
<1>1. IInv' /\ DoneIsFinal'
  BY NetworkKeeps, NetworkFacts DEF AlarmInv
<1>2. UNCHANGED <<crossing, poll, record, quorum, reads>>
  BY NetworkFacts DEF AlarmInv
<1>3. DoneIsRecorded' /\ QuorumIsTheForkBlock' /\ NoFalseAlarm'
  BY <1>2 DEF AlarmInv, DoneIsRecorded, QuorumIsTheForkBlock, NoFalseAlarm, Missed, Recorded, TheForkBlock, poll, record,
              quorum, reads
<1>4. BoundaryIsShaped'
  <2>1. pc = "parent" => height[who] > Fork /\ who \in Node
    BY DEF AlarmInv, IInv, RecordsAreForkBlocks, Values
  <2>2. pc = "parent" => boundary.number \in Nat
    BY CrossingFacts DEF AlarmInv, IInv, RecordsAreForkBlocks, IsForkBlock, Values
  <2>3. /\ crossing[branch[who]] \in Nat /\ crossing'[branch'[who]] \in Nat
    BY <1>1, <1>2, CrossingFacts DEF AlarmInv, IInv, Values, poll
  <2> QED
    BY <1>2, <2>1, <2>2, <2>3, NetworkFacts, CrossingFacts
       DEF AlarmInv, BoundaryIsShaped, poll, IInv, Values
<1> QED
  BY <1>1, <1>3, <1>4 DEF AlarmInv

LEMMA DoneIsFinalPoll ==
    ASSUME IInv, DoneIsFinal, pollOnce
    PROVE  DoneIsFinal'
<1>1. UNCHANGED chain
  BY DEF pollOnce, Progress, Down, HeadNumber, CheckHash, CheckFinal, CheckFails, ProbeBelow, Probe,
         ObserveIStar, ProbeFails, Judge, Failing
<1>2. /\ prevDone' \in [Node -> BOOLEAN]
      /\ progress' \in BOOLEAN
      /\ \A n \in Node : prevDone'[n] => finalized[n]
      /\ progress' => finalized[who']
  <2>1. CASE Progress
    BY <2>1, Zenon DEF Progress, record, DoneIsFinal, IInv, Values
  <2>2. CASE Down
    <3>1. progress' = FALSE /\ prevDone' = prevDone
      BY <2>2 DEF Down, NextNode, record
    <3> QED
      BY <3>1, Zenon DEF DoneIsFinal
  <2>3. CASE Judge
    <3>1. progress' = FALSE /\ prevDone' = [prevDone EXCEPT ![who] = progress]
      BY <2>3 DEF Judge, NextNode
    <3> QED
      BY <3>1, Zenon DEF DoneIsFinal
  <2>4. CASE ~(Progress \/ Down \/ Judge)
    <3>1. UNCHANGED <<prevDone, progress, who>>
      BY <2>4 DEF pollOnce, HeadNumber, CheckHash, CheckFinal, CheckFails, ProbeBelow, Probe,
                  ObserveIStar, ProbeFails, IStarReorged, record
    <3> QED
      BY <3>1, Zenon DEF DoneIsFinal
  <2> QED
    BY <2>1, <2>2, <2>3, <2>4
<1> QED
  BY <1>1, <1>2, Zenon DEF DoneIsFinal, chain

(* The node polled, once it or the poll has heard "done". *)
LEMMA DoneFacts ==
    ASSUME LosersAreSparser, AlarmInv
    PROVE  /\ who \in Node
           /\ branch[who] \in {"A", "B"} /\ height[who] \in Nat /\ head \in Nat
           /\ progress \/ prevDone[who] => branch[who] = "A" /\ height[who] >= crossing["A"]
           /\ istarFinal[who] => Recorded(who)
<1>1. who \in Node /\ branch[who] \in {"A", "B"} /\ height[who] \in Nat /\ head \in Nat
  BY DEF AlarmInv, IInv, Values
<1>2. progress \/ prevDone[who] => finalized[who]
  BY <1>1, Zenon DEF AlarmInv, DoneIsFinal
<1>3. finalized[who] => branch[who] = "A" /\ height[who] >= crossing["A"]
  BY <1>1, Zenon DEF AlarmInv, IInv, WinnerFinalizes
<1>4. istarFinal[who] => Recorded(who)
  BY <1>1, Zenon DEF AlarmInv, IInv, SettledForGood, Recorded
<1> QED
  BY <1>1, <1>2, <1>3, <1>4, Zenon

LEMMA AlarmCheckHash ==
    ASSUME LosersAreSparser, AlarmInv, CheckHash
    PROVE  DoneIsRecorded' /\ BoundaryIsShaped' /\ QuorumIsTheForkBlock' /\ NoFalseAlarm'
<1> USE CrossingFacts
<1>0. /\ pc = "check" /\ pc' # "parent"
      /\ UNCHANGED <<crossing, branch, who, progress, head, boundary, prevDone, istarFinal,
                     provisional, final, alarms, missed>>
  BY DEF CheckHash, At, chain, quorum, reads, record, IStarReorged
<1>1. BoundaryIsShaped' /\ QuorumIsTheForkBlock' /\ NoFalseAlarm'
  BY <1>0 DEF AlarmInv, BoundaryIsShaped, QuorumIsTheForkBlock, NoFalseAlarm, TheForkBlock
<1>2. crossing \in Crossings /\ DOMAIN istar = Node /\ Fork \in Nat
  BY DEF AlarmInv, IInv, Values
<1>3. PICK x \in {"A", "B"} :
        istar[who].hash = <<x, crossing[x]>> /\ istar[who].number = crossing[x]
  BY <1>0, DoneFacts DEF AlarmInv, IInv, WhereThePollIs, RecordsAreForkBlocks, IsForkBlock
<1>4. istar[who] # NoRecord
  BY <1>0 DEF AlarmInv, IInv, WhereThePollIs
<1>5. progress => head >= crossing["A"]
  BY <1>0 DEF AlarmInv, DoneIsRecorded
<1>6. \A n \in Node : prevDone[n] => n \in missed \/ Recorded(n)
  BY DEF AlarmInv, DoneIsRecorded
<1>7. CASE istar[who].number > height[who]
  <2>1. pc' = "judge" /\ istar' = istar /\ ~progress /\ ~prevDone[who]
    BY <1>2, <1>3, <1>7, DoneFacts DEF CheckHash, record
  <2> QED
    BY <1>0, <1>1, <1>6, <2>1 DEF DoneIsRecorded, Recorded, Missed, TheForkBlock
<1>8. CASE istar[who].number <= height[who] /\ Block(who, istar[who].number) = istar[who].hash
  <2>1. pc' = "final" /\ istar' = istar
    BY <1>2, <1>3, <1>8, DoneFacts DEF CheckHash, record
  <2>2. progress => Recorded(who)
    BY <1>2, <1>3, <1>4, <1>8, DoneFacts DEF Block, Recorded, TheForkBlock
  <2> QED
    BY <1>0, <1>1, <1>6, <2>1, <2>2 DEF DoneIsRecorded, Recorded, Missed, TheForkBlock
<1>9. CASE istar[who].number <= height[who] /\ Block(who, istar[who].number) # istar[who].hash
  <2>1. pc' = "probe" /\ istar' = [istar EXCEPT ![who] = NoRecord]
    BY <1>2, <1>3, <1>9, DoneFacts DEF CheckHash, IStarReorged
  <2>2. prevDone[who] => ~Recorded(who)
    BY <1>2, <1>3, <1>9, DoneFacts DEF Block, Recorded, TheForkBlock
  <2>3. prevDone[who] => Missed
    BY <1>6, <2>2, DoneFacts DEF Missed
  <2>4. \A n \in Node : prevDone[n] => n \in missed \/ (n # who /\ Recorded(n))
    BY <1>6, <2>2
  <2> QED
    BY <1>0, <1>1, <1>2, <1>5, <2>1, <2>3, <2>4 DEF DoneIsRecorded, Recorded, Missed, TheForkBlock
<1> QED
  BY <1>2, <1>3, <1>7, <1>8, <1>9, DoneFacts

LEMMA AlarmCheckFinal ==
    ASSUME LosersAreSparser, AlarmInv, CheckFinal
    PROVE  DoneIsRecorded' /\ BoundaryIsShaped' /\ QuorumIsTheForkBlock' /\ NoFalseAlarm'
<1>0. /\ pc = "final" /\ pc' = "judge"
      /\ UNCHANGED <<crossing, who, progress, prevDone, istar, provisional, missed>>
  BY DEF CheckFinal, At, chain, quorum, reads, Finalize
<1>1. BoundaryIsShaped'
  BY <1>0 DEF BoundaryIsShaped
<1>2. /\ \A n \in Node : prevDone[n] => n \in missed \/ Recorded(n)
      /\ progress => Missed \/ Recorded(who)
  BY <1>0 DEF AlarmInv, DoneIsRecorded
<1>3. DOMAIN istarFinal = Node /\ who \in Node
  BY DEF AlarmInv, IInv, Values
<1>4. CASE finalized[who]
  <2>1. Recorded(who)
    <3>1. branch[who] = "A" /\ istar[who].hash = <<branch[who], crossing[branch[who]]>>
      BY <1>0, <1>3, <1>4 DEF AlarmInv, IInv, CheckedIsCanonical, WinnerFinalizes
    <3>2. istar[who] # NoRecord
      BY <1>0 DEF AlarmInv, IInv, WhereThePollIs
    <3> QED
      BY <3>1, <3>2 DEF Recorded, TheForkBlock
  <2>2. /\ istarFinal' = [istarFinal EXCEPT ![who] = TRUE]
        /\ final' = [final EXCEPT ![who] = istar[who]]
        /\ alarms' = alarms \cup (IF Differ(final') THEN {<<"final", who>>} ELSE {})
    BY <1>4 DEF CheckFinal, Finalize
  <2>3. QuorumIsTheForkBlock'
    BY <1>0, <2>1, <2>2 DEF AlarmInv, QuorumIsTheForkBlock, Recorded, TheForkBlock
  <2>4. alarms' = alarms
    BY <2>2, <2>3 DEF Differ, QuorumIsTheForkBlock
  <2>5. istarFinal'[who]
    BY <1>3, <2>2
  <2>6. NoFalseAlarm'
    BY <1>0, <2>4 DEF AlarmInv, NoFalseAlarm
  <2> QED
    BY <1>0, <1>1, <1>2, <2>3, <2>5, <2>6 DEF DoneIsRecorded, Recorded, Missed, TheForkBlock
<1>5. CASE ~finalized[who]
  <2>1. UNCHANGED <<istarFinal, quorum>>
    BY <1>5 DEF CheckFinal
  <2>2. ~progress /\ ~prevDone[who]
    BY <1>3, <1>5, Zenon DEF AlarmInv, DoneIsFinal
  <2>3. QuorumIsTheForkBlock' /\ NoFalseAlarm'
    BY <1>0, <2>1 DEF AlarmInv, QuorumIsTheForkBlock, NoFalseAlarm, TheForkBlock, quorum
  <2> QED
    BY <1>0, <1>1, <1>2, <2>2, <2>3 DEF DoneIsRecorded, Recorded, Missed, TheForkBlock
<1> QED
  BY <1>4, <1>5

LEMMA AlarmProbe ==
    ASSUME LosersAreSparser, AlarmInv, Probe
    PROVE  DoneIsRecorded' /\ BoundaryIsShaped' /\ QuorumIsTheForkBlock' /\ NoFalseAlarm'
<1>0. /\ pc = "probe" /\ pc' = "parent" /\ boundary'.past = Past(who, boundary'.number)
      /\ boundary'.hash = Block(who, boundary'.number)
      /\ UNCHANGED <<crossing, branch, who, progress, head, prevDone, istar, istarFinal,
                     provisional, final, alarms, missed>>
  BY DEF Probe, At, chain, quorum, reads, record
<1>1. /\ crossing \in Crossings /\ Fork \in Nat
      /\ \A x \in {"A", "B"} : crossing[x] \in Nat /\ crossing[x] > Fork
  BY CrossingFacts DEF AlarmInv, IInv, Values
<1>2. PICK x \in {"A", "B"} :
        boundary'.hash = <<x, crossing[x]>> /\ boundary'.number = crossing[x]
  BY <1>0, ProbeFindsTheForkBlock DEF AlarmInv, IsForkBlock
<1>3. boundary'.hash = <<branch[who], boundary'.number>>
  BY <1>0, <1>1, <1>2 DEF Block
<1>4. x = branch[who]
  BY <1>2, <1>3
<1>5. BoundaryIsShaped'
  <2>1. Past(who, boundary'.number) /\ boundary'.number - 1 < crossing'[branch'[who']]
    BY <1>0, <1>1, <1>2, <1>4 DEF Past
  <2>2. boundary'.past
    BY <1>0, <2>1, Zenon
  <2> QED
    BY <2>1, <2>2, Zenon DEF BoundaryIsShaped
<1>6. progress => boundary'.hash = TheForkBlock
  BY <1>2, <1>4, DoneFacts DEF TheForkBlock
<1>7. QuorumIsTheForkBlock' /\ NoFalseAlarm'
  BY <1>0 DEF AlarmInv, QuorumIsTheForkBlock, NoFalseAlarm, TheForkBlock
<1>8. DoneIsRecorded'
  BY <1>0, <1>6 DEF AlarmInv, DoneIsRecorded, Recorded, Missed, TheForkBlock
<1> QED
  BY <1>5, <1>7, <1>8

LEMMA AlarmObserve ==
    ASSUME LosersAreSparser, AlarmInv, ObserveIStar
    PROVE  DoneIsRecorded' /\ BoundaryIsShaped' /\ QuorumIsTheForkBlock' /\ NoFalseAlarm'
<1> DEFINE b == [number |-> boundary.number, hash |-> boundary.hash, past |-> boundary.past,
                 below  |-> ~Past(who, boundary.number - 1)]
<1>0. /\ pc = "parent" /\ pc' = "judge"
      /\ UNCHANGED <<crossing, who, progress, prevDone, istarFinal, final, missed>>
      /\ istar' = [istar EXCEPT ![who] = b]
      /\ provisional' = [provisional EXCEPT ![who] = b] /\ checkProvisional(who, provisional')
  BY DEF ObserveIStar, Observe, At, chain, reads
<1>1. /\ who \in Node /\ DOMAIN istar = Node /\ DOMAIN provisional = Node
      /\ boundary.number \in Nat /\ boundary.number # 0 /\ boundary.past
      /\ boundary.number - 1 < crossing[branch[who]] /\ crossing[branch[who]] \in Nat
  BY <1>0, CrossingFacts
     DEF AlarmInv, IInv, Values, QuorumIsTheForkBlock, BoundaryIsShaped, RecordsAreForkBlocks, IsForkBlock
<1>2. b.number # 0 /\ b.hash = boundary.hash /\ b.past /\ b.below
  <2>1. ~Past(who, boundary.number - 1)
    BY <1>1 DEF Past
  <2>2. b.number = boundary.number /\ b.hash = boundary.hash
    OBVIOUS
  <2>3. b.past = boundary.past /\ b.below = ~Past(who, boundary.number - 1)
    BY Zenon
  <2>4. b.past /\ b.below
    BY <1>1, <2>1, <2>3, Zenon
  <2> QED
    BY <1>1, <2>2, <2>4
<1>3. b # NoRecord
  BY <1>2 DEF NoRecord
<1>4. provisional'[who] = b /\ istar'[who] = b
  BY <1>0, <1>1
<1> HIDE DEF b
<1>5. checkShape(who, provisional'[who]) = {}
  BY <1>2, <1>4 DEF checkShape
<1>6. \A a \in alarms' : a \in alarms \/ a[1] = "provisional"
  BY <1>0, <1>5 DEF checkProvisional
<1>7. NoFalseAlarm'
  BY <1>0, <1>6 DEF AlarmInv, NoFalseAlarm
<1>8. progress => Recorded(who)'
  BY <1>0, <1>2, <1>3, <1>4 DEF AlarmInv, DoneIsRecorded, Recorded, TheForkBlock
<1>9. prevDone[who] => Missed
  BY <1>0 DEF AlarmInv, DoneIsRecorded
<1>10. \A n \in Node : prevDone[n] => n \in missed \/ Recorded(n)'
  BY <1>0, <1>1, <1>9 DEF AlarmInv, DoneIsRecorded, Recorded, Missed, TheForkBlock
<1>11. DoneIsRecorded'
  BY <1>0, <1>8, <1>9, <1>10 DEF DoneIsRecorded, Recorded, Missed, TheForkBlock
<1>12. BoundaryIsShaped' /\ QuorumIsTheForkBlock'
  BY <1>0, <1>1 DEF AlarmInv, BoundaryIsShaped, QuorumIsTheForkBlock, TheForkBlock
<1> QED
  BY <1>7, <1>11, <1>12

LEMMA AlarmPoll ==
    ASSUME LosersAreSparser, AlarmInv, pollOnce
    PROVE  AlarmInv'
<1>0. IInv' /\ DoneIsFinal'
  BY PollKeeps, DoneIsFinalPoll DEF AlarmInv
<1>n. crossing' = crossing /\ crossing \in Crossings
  BY DEF AlarmInv, IInv, Values, pollOnce, Progress, Down, HeadNumber, CheckHash, CheckFinal, CheckFails,
         ProbeBelow, Probe, ObserveIStar, ProbeFails, Judge, Failing, chain
<1> USE DoneFacts, CrossingFacts
<1> USE DEF DoneIsRecorded, Recorded, Missed, BoundaryIsShaped, QuorumIsTheForkBlock, NoFalseAlarm, TheForkBlock,
            chain, record, quorum, reads, At
<1>1. CASE Progress
  BY <1>0, <1>1, <1>n DEF Progress, AlarmInv
<1>2. CASE Down
  BY <1>0, <1>2, <1>n DEF Down, Failing, NextNode, AlarmInv
<1>3. CASE HeadNumber
  BY <1>0, <1>3, <1>n DEF HeadNumber, AlarmInv
<1>4. CASE CheckHash \/ CheckFinal \/ Probe \/ ObserveIStar
  BY <1>0, <1>4, AlarmCheckHash, AlarmCheckFinal, AlarmProbe, AlarmObserve DEF AlarmInv
<1>5. CASE CheckFails
  BY <1>0, <1>5, <1>n DEF CheckFails, Failing, AlarmInv
<1>6. CASE ProbeBelow
  BY <1>0, <1>6, <1>n DEF ProbeBelow, Past, AlarmInv
<1>7. CASE ProbeFails
  BY <1>0, <1>7, <1>n DEF ProbeFails, Failing, AlarmInv
<1>8. CASE Judge
  BY <1>0, <1>8, <1>n DEF Judge, AlarmInv, NextNode
<1> QED
  BY <1>1, <1>2, <1>3, <1>4, <1>5, <1>6, <1>7, <1>8, Zenon DEF pollOnce

(* No critical about the shape or the finality of a fork block is raised   *)
(* against a healthy network, and "done too early" only against a node     *)
(* whose fork block could not be re-read. *)
THEOREM HealthyIsQuiet ==
    ASSUME LosersAreSparser, Gap <= 1 PROVE Spec => []NoFalseAlarm
<1>1. AlarmInv /\ [Next]_vars => AlarmInv'
  <2> SUFFICES ASSUME AlarmInv, [Next]_vars PROVE AlarmInv'
    OBVIOUS
  <2>1. CASE UNCHANGED vars
    <3>1. IInv'
      BY <2>1
         DEF vars, chain, poll, record, AlarmInv, IInv, Values, Untouched, BoundIsBelow,
             RecordsAreForkBlocks, IsForkBlock, WhereThePollIs, WinnerFinalizes,
             CheckedIsCanonical, SettledForGood, TheForkBlock
    <3>2. DoneIsFinal'
      BY <2>1, Zenon DEF AlarmInv, DoneIsFinal, vars, chain, poll, record
    <3>3. DoneIsRecorded' /\ BoundaryIsShaped' /\ QuorumIsTheForkBlock' /\ NoFalseAlarm'
      BY <2>1 DEF AlarmInv, DoneIsRecorded, BoundaryIsShaped, QuorumIsTheForkBlock, NoFalseAlarm,
                  Recorded, Missed, TheForkBlock, vars, chain, poll, record, quorum, reads
    <3> QED
      BY <3>1, <3>2, <3>3 DEF AlarmInv
  <2> QED
    BY <2>1, AlarmNetwork, AlarmPoll DEF Next
<1>2. AlarmInv => NoFalseAlarm
  BY DEF AlarmInv
<1> QED
  BY <1>1, <1>2, AlarmInit, PTL DEF Spec

-----------------------------------------------------------------------------
(* Types, without an assumption on the branches. *)
ChainTypes ==
    /\ crossing \in Crossings
    /\ branch \in [Node -> {"A", "B"}] /\ height \in [Node -> Heights]
    /\ finalized \in [Node -> BOOLEAN] /\ done \in [Node -> BOOLEAN]
    /\ gap \in 0..Gap

PollTypes ==
    /\ who \in Node /\ progress \in BOOLEAN /\ head \in Heights
    /\ boundary.number \in Heights
    /\ pc \in {"progress", "head", "check", "final", "probe", "parent", "judge"}

RecordTypes ==
    /\ DOMAIN istar = Node /\ DOMAIN provisional = Node /\ DOMAIN final = Node
    /\ \A n \in Node : /\ istar[n].number \in Heights
                       /\ provisional[n].number \in Heights /\ final[n].number \in Heights
    /\ istarFinal \in [Node -> BOOLEAN] /\ prevDone \in [Node -> BOOLEAN]
    /\ lastBelowT \in [Node -> Heights]

CountTypes ==
    /\ disagreed \in NoTime..(Grace + 1)
    /\ missed \subseteq Node /\ fails \in 0..MaxFails

AlarmTypes == alarms \subseteq {"shape", "provisional", "final", "done"} \X Node

Typed == ChainTypes /\ PollTypes /\ RecordTypes /\ CountTypes /\ AlarmTypes

LEMMA Bounds ==
    /\ 0 \in Heights /\ Heights \subseteq Nat /\ 1 \in Node /\ Node \subseteq Nat
    /\ N \in Nat \ {0} /\ {Fork, MaxHeight, Gap, Grace, MaxFails} \subseteq Nat
    /\ \A x \in Crossings : /\ x["A"] \in Heights /\ x["A"] > Fork
                            /\ x["B"] \in Heights /\ x["B"] > Fork
BY ForkBlockAssumption DEF Heights, Node

LEMMA ProbeTypes ==
    ASSUME Typed, Probe
    PROVE  boundary'.number \in Heights
<1> DEFINE above == SearchFrom(lastBelowT[who])
           c     == crossing[branch[who]]
           first == IF lastBelowT[who] + 1 >= c THEN lastBelowT[who] + 1 ELSE c
<1>1. /\ who \in Node /\ head \in Heights /\ lastBelowT[who] \in Nat /\ c \in Nat /\ head \in Nat
  BY Bounds DEF Typed, PollTypes, ChainTypes, RecordTypes, Heights
<1>2. above = first..head
  BY <1>1 DEF SearchFrom, Past
<1>3. CASE above # {}
  <2>1. first \in above /\ \A i \in above : first <= i
    BY <1>1, <1>2, <1>3
  <2>2. Lowest(above) \in above
    BY <2>1 DEF Lowest
  <2>3. Lowest(above) \in Heights
    <3>1. PICK l \in first..head : l = Lowest(above)
      BY <1>2, <2>2
    <3>2. /\ head \in Nat /\ head <= MaxHeight /\ first \in Nat /\ MaxHeight \in Nat
      BY <1>1, Bounds DEF Heights
    <3> HIDE DEF above, first
    <3>3. l \in 0..MaxHeight
      BY <3>1, <3>2
    <3> QED
      BY <3>1, <3>3 DEF Heights
  <2> QED
    BY <1>3, <2>3 DEF Probe
<1>4. CASE above = {}
  BY <1>1, <1>4 DEF Probe
<1> QED
  BY <1>3, <1>4

LEMMA TypesKept ==
    ASSUME Typed, [Next]_vars
    PROVE  Typed'
<1> USE Bounds
<1>1. CASE UNCHANGED vars
  BY <1>1 DEF vars, chain, poll, record, quorum, reads, Typed, ChainTypes, PollTypes, RecordTypes,
     CountTypes, AlarmTypes
<1>2. CASE Network
  <2>1. UNCHANGED <<crossing, poll, record, quorum, reads>> /\ gap' \in 0..Gap
    BY <1>2 DEF Network, Moves, Moved, Typed, ChainTypes
  <2>2. PICK n \in Node : Grow(n) \/ Unwind(n) \/ Finalizes(n) \/ Retires(n)
    BY <1>2 DEF Network
  <2>3. ChainTypes'
    <3> ChainTypes /\ crossing' = crossing
      BY <2>1 DEF Typed
    <3> USE DEF ChainTypes
    <3>1. CASE Grow(n)
      <4>1. branch' \in [Node -> {"A", "B"}]
        BY <3>1 DEF Grow
      <4>2. height[n] + 1 \in Heights
        BY <3>1 DEF Grow, Heights
      <4> QED
        BY <2>1, <3>1, <4>1, <4>2 DEF Grow
    <3>2. CASE Unwind(n)
      <4>1. PICK h \in (Fork + 1)..MaxHeight : height' = [height EXCEPT ![n] = h]
        BY <3>2 DEF Unwind
      <4>2. h \in Heights
        BY <4>1 DEF Heights
      <4> QED
        BY <2>1, <3>2, <4>1, <4>2 DEF Unwind
    <3>3. CASE Finalizes(n)
      BY <2>1, <3>3 DEF Finalizes
    <3>4. CASE Retires(n)
      BY <2>1, <3>4 DEF Retires
    <3> QED
      BY <2>2, <3>1, <3>2, <3>3, <3>4
  <2> QED
    BY <2>1, <2>3 DEF poll, record, quorum, reads, Typed, PollTypes, RecordTypes, CountTypes, AlarmTypes
<1>3. CASE pollOnce
  <2> USE <1>3 DEF pollOnce
  <2>0. ChainTypes /\ PollTypes /\ RecordTypes /\ CountTypes /\ AlarmTypes
    BY DEF Typed
  <2>1. UNCHANGED chain /\ gap' = 0
    BY DEF Progress, Down, HeadNumber, CheckHash, CheckFinal, CheckFails, ProbeBelow, Probe,
       ObserveIStar, ProbeFails, Judge, At, Failing, chain
  <2>2. ChainTypes'
    BY <2>0, <2>1 DEF chain, ChainTypes
  <2>3. who' \in Node
    BY <2>0, NextNodeIsANode DEF Progress, Down, HeadNumber, CheckHash, CheckFinal, CheckFails,
       ProbeBelow, Probe, ObserveIStar, ProbeFails, Judge, PollTypes
  <2>4. progress' \in BOOLEAN
    BY <2>0, Zenon DEF Progress, Down, HeadNumber, CheckHash, CheckFinal, CheckFails,
       ProbeBelow, Probe, ObserveIStar, ProbeFails, Judge, NextNode, PollTypes, ChainTypes
  <2>5. head' \in Heights /\ boundary'.number \in Heights
        /\ pc' \in {"progress", "head", "check", "final", "probe", "parent", "judge"}
    BY <2>0, ProbeTypes DEF Progress, Down, HeadNumber, CheckHash, CheckFinal, CheckFails,
       ProbeBelow, Probe, ObserveIStar, ProbeFails, Judge, NextNode, NoRecord, PollTypes, ChainTypes,
       Typed
  <2>6. RecordTypes'
    <3>1. CASE Progress \/ Down \/ HeadNumber \/ CheckFails \/ Probe \/ ProbeFails
      BY <2>0, <3>1 DEF Progress, Down, HeadNumber, CheckFails, Probe, ProbeFails, record, quorum,
         RecordTypes
    <3>2. CASE CheckHash
      BY <2>0, <3>2 DEF CheckHash, IStarReorged, record, quorum, NoRecord, RecordTypes, PollTypes
    <3>3. CASE CheckFinal
      BY <2>0, <3>3 DEF CheckFinal, Finalize, quorum, RecordTypes, PollTypes
    <3>4. CASE ProbeBelow \/ Judge
      BY <2>0, <3>4 DEF ProbeBelow, Judge, quorum, RecordTypes, PollTypes
    <3>5. CASE ObserveIStar
      <4>1. PICK b : /\ b.number = boundary.number /\ istar' = [istar EXCEPT ![who] = b]
                     /\ provisional' = [provisional EXCEPT ![who] = b]
                     /\ UNCHANGED <<final, istarFinal, lastBelowT, prevDone>>
        BY <3>5 DEF ObserveIStar, Observe
      <4> QED
        BY <2>0, <4>1 DEF RecordTypes, PollTypes
    <3> QED
      BY <3>1, <3>2, <3>3, <3>4, <3>5
  <2>7. CountTypes'
    <3>1. Aged(who) \in NoTime..(Grace + 1)
      BY <2>0 DEF Aged, CountTypes, NoTime
    <3>2. disagreed' \in NoTime..(Grace + 1)
      BY <2>0, <3>1 DEF Progress, Down, HeadNumber, CheckHash, CheckFinal, CheckFails, ProbeBelow,
         Probe, ObserveIStar, ProbeFails, Judge, quorum, Observe, checkProvisional, Finalize,
         CountTypes, NoTime
    <3>3. missed' \subseteq Node /\ fails' \in 0..MaxFails
      BY <2>0 DEF Progress, Down, HeadNumber, CheckHash, CheckFinal, CheckFails, ProbeBelow, Probe,
         ObserveIStar, ProbeFails, Judge, Failing, reads, CountTypes, PollTypes
    <3> QED
      BY <3>2, <3>3 DEF CountTypes
  <2>8. AlarmTypes'
    <3>1. \A b : checkShape(who, b) \subseteq {"shape", "provisional", "final", "done"} \X Node
      BY <2>0 DEF checkShape, PollTypes
    <3> QED
      BY <2>0, <3>1 DEF Progress, Down, HeadNumber, CheckHash, CheckFinal, CheckFails, ProbeBelow,
         Probe, ObserveIStar, ProbeFails, Judge, quorum, Observe, checkProvisional, Finalize,
         AlarmTypes, PollTypes
  <2> QED
    BY <2>2, <2>3, <2>4, <2>5, <2>6, <2>7, <2>8 DEF Typed, PollTypes
<1> QED
  BY <1>1, <1>2, <1>3 DEF Next

(* Every variable keeps its type, and every recorded height its bound.     *)
THEOREM ForkBlockTypeCorrect == Spec => []TypeOK
<1>1. Init => Typed
  <2> SUFFICES ASSUME Init PROVE Typed
    OBVIOUS
  <2>1. progress \in BOOLEAN
    BY Zenon DEF Init
  <2>2. Fork \in Heights
    BY Bounds DEF Init, Heights
  <2> QED
    BY <2>1, <2>2, Bounds DEF Init, Typed, ChainTypes, PollTypes, RecordTypes, CountTypes, AlarmTypes,
       NoRecord, NoTime
<1>2. Typed => TypeOK
  <2> SUFFICES ASSUME Typed PROVE TypeOK
    OBVIOUS
  <2>1. {finalized, done, istarFinal, prevDone} \subseteq [Node -> BOOLEAN]
    BY Zenon DEF Typed, ChainTypes, RecordTypes
  <2> QED
    BY <2>1 DEF Typed, ChainTypes, PollTypes, RecordTypes, CountTypes, AlarmTypes, TypeOK
<1> QED
  BY <1>1, <1>2, TypesKept, PTL DEF Spec
=============================================================================
