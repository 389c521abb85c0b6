---------------------------- MODULE PbtScenario ----------------------------
(***************************************************************************)
(* cmd/pbtchaos: one scenario and the chain it is judged on.  A minority   *)
(* is cut off, a transaction is put on its branch, the partition is        *)
(* cleared, and every client is asked about it at a block of the branch    *)
(* that was meant to win.  Between any two looks the clients go on.        *)
(***************************************************************************)
EXTENDS Integers, FiniteSets

CONSTANTS
    EL,            \* the execution clients
    Minority, Ref, \* the one to be cut off, and majority[0]
    MinHeight,     \* minChainHeight
    Depth,         \* the depth asked for
    TipMargin,     \* tipMargin
    WedgeTicks,    \* wedgeTicks
    MaxHeight,     \* bound: heights
    EarlyHeight,   \* bound: heights before the depth is waited for
    Doomed,        \* bound: blocks the minority builds alone
    MaxFaults,     \* bound: clients that go wrong
    MaxFails       \* bound: calls that fail

ASSUME PbtScenarioAssumption ==
    /\ {Minority, Ref} \subseteq EL /\ Minority # Ref
    /\ {MinHeight, Depth, TipMargin, WedgeTicks, MaxHeight,
      EarlyHeight, Doomed, MaxFaults, MaxFails} \subseteq Nat
    /\ MinHeight <= MaxHeight

VARIABLES
    pc, outcome,
    start,           \* waitBlocks: the height it counts from
    want,            \* the anchor: a height and a hash, or None
    last, stuck,     \* headTracker
    frozen,          \* the clients it found not moving
    cut, bite,       \* the partition in disruptoor, and on the wire
    branch, height,  \* each client's chain
    fork,            \* where the branches "B" and "C" leave "A"
    lonely,          \* the majority clients that know no peer but the minority
    sent, mined,     \* the doomed transaction: sent, and its height on each branch
    winner,          \* the branch fork choice keeps
    fault, fails,    \* what went wrong with each client, and how many calls failed
    excuse           \* what would earn a finding without a client at fault

verdict == <<outcome, want, frozen>>
tracker == <<last, stuck>>
rules   == <<cut, bite>>
chain   == <<branch, height, fork, lonely, sent, mined, winner>>
trouble == <<fault, fails, excuse>>
vars    == <<pc, verdict, start, tracker, rules, chain, trouble>>

Majority == EL \ {Minority}
None     == [n |-> 0, hash |-> <<"none", 0>>]
Unseen   == MaxHeight + 1

Lowest(S)  == CHOOSE h \in {height[e] : e \in S} : \A e \in S : h <= height[e]
On(b)      == {e \in EL : branch[e] = b}
Highest(b) == CHOOSE h \in {height[e] : e \in On(b)} : \A e \in On(b) : height[e] <= h

Block(e, n) ==
    IF branch[e] # "A" /\ n > fork[branch[e]] THEN <<branch[e], n>> ELSE <<"A", n>>

(* The transaction is on e's chain up to n; or e kept its effect when it   *)
(* left the branch it was on. *)
Visible(e, n) ==
    \/ \E b \in DOMAIN mined : mined[b] \in 1..n /\ Block(e, mined[b]) = <<b, mined[b]>>
    \/ fault[e] = "keeps" /\ branch[e] # "B" /\ mined["B"] # 0 /\ n > fork["B"]

-----------------------------------------------------------------------------
(* The clients. *)

Early == {"growing", "settling", "diverge", "apply", "applied", "doomed", "depth"}

Stands(e)  == fault[e] \in {"wedged", "starved"}
Healed     == pc \in {"agree", "compare", "classify", "reach", "lagging", "branch", "gone"}
Rejoins(e) == Healed /\ branch[e] # winner /\ ~Stands(e) /\ fault[e] # "splits"

(* Clients of a branch stay within a block of one another. *)
Grow(e) ==
    /\ ~Stands(e) /\ height[e] < MaxHeight
    /\ height[e] < IF branch[e] = "B" /\ winner = "A" THEN fork["B"] + Doomed
                   ELSE IF pc \in Early THEN EarlyHeight ELSE MaxHeight
    /\ \A o \in On(branch[e]) : Stands(o) \/ height[e] <= height[o]
    /\ LET b   == branch[e]
           new == height[e] = Highest(b)
       IN  mined' \in {mined} \cup
                 IF new /\ sent /\ mined[b] = 0 /\ (b = "B" \/ ~bite)
                 THEN {[mined EXCEPT ![b] = height[e] + 1]} ELSE {}
    /\ height' = [height EXCEPT ![e] = @ + 1]
    /\ UNCHANGED <<branch, fork, sent, winner, bite, trouble>>

(* disruptoor applies its rules, later: the minority, and whoever has no other    *)
(* peer, is alone with the chain it has. *)
Bite ==
    /\ cut /\ ~bite /\ pc \in Early
    /\ \A e \in lonely \cup {Minority} : \E o \in Majority \ lonely : height[e] <= height[o]
    /\ bite' = TRUE
    /\ branch' = [e \in EL |-> IF e = Minority THEN "B" ELSE IF e \in lonely THEN "C" ELSE "A"]
    /\ fork' = [b \in {"B", "C"} |-> LET e == IF b = "B" THEN {Minority} ELSE lonely
                                     IN  IF e = {} THEN 0 ELSE Lowest(e)]
    /\ UNCHANGED <<height, sent, mined, winner, trouble>>

Unwind(e) ==
    /\ Rejoins(e)
    /\ branch' = [branch EXCEPT ![e] = winner]
    /\ \E h \in (fork["B"] + 1)..Highest(winner) : height' = [height EXCEPT ![e] = h]
    /\ UNCHANGED <<fork, sent, mined, winner, bite, trouble>>

(* Fork choice keeps the other branch. *)
Usurp ==
    /\ pc = "agree" /\ winner = "A" /\ bite = FALSE /\ On("B") # {} /\ On("A") # {}
    /\ Cardinality({e \in EL : fault[e] # "none"}) < MaxFaults
    /\ winner' = "B"
    /\ fault' = [fault EXCEPT ![Minority] = "usurps"]
    /\ UNCHANGED <<branch, height, fork, sent, mined, bite, fails, excuse>>

Fault(e) ==
    /\ Healed
    /\ \/ /\ fault[e] = "none"
          /\ Cardinality({o \in EL : fault[o] # "none"}) < MaxFaults
          /\ fault' \in {[fault EXCEPT ![e] = f] :
                            f \in {"wedged", "starved"} \cup
                                  IF branch[e] = "B" THEN {"splits", "keeps"} ELSE {}}
          /\ UNCHANGED excuse
       \/ /\ fault[e] = "starved" \* its consensus client finds peers again
          /\ fault' = [fault EXCEPT ![e] = "fed"]
          /\ excuse' = excuse \cup {"fed"}
    /\ UNCHANGED <<branch, height, fork, sent, mined, winner, bite, fails>>

(* Looks five seconds apart: whoever stood still between two had no block  *)
(* to move to, and a client that can rejoin its peers has by the second,   *)
(* and is within a block of them. *)
Prompt ==
    \A e \in EL : Stands(e) \/ fault[e] = "splits" \/
        /\ last[e] = height[e] => height[e] = Highest(branch[e])
        /\ last[e] # Unseen => ~Rejoins(e) /\ height[e] + 1 >= Highest(branch[e])

(* The calls before the partition, and about peers, take no time. *)
Network ==
    /\ pc \notin {"begin", "mesh", "setup", "cut", "classify", "lagging", "done"}
    /\ Bite \/ Usurp \/ \E e \in EL : Grow(e) \/ Unwind(e) \/ Fault(e)
    /\ UNCHANGED <<pc, verdict, start, tracker, cut, lonely>>

-----------------------------------------------------------------------------
(* Before the partition. *)

Failing == fails < MaxFails /\ fails' = fails + 1

Concludes(o) ==
    /\ pc' = "done" /\ outcome' = o
    /\ UNCHANGED <<want, frozen, start, tracker, chain, fault>>

(* waitBlocks: one look, which has to succeed, then looks until the        *)
(* slowest has advanced that far. *)
Look(from, to, S) ==
    /\ pc = from /\ pc' = to
    /\ start' = Lowest(S)
    /\ UNCHANGED <<verdict, tracker, rules, chain, trouble>>

Waited(from, to, n, S) ==
    /\ pc = from /\ pc' = to
    /\ Lowest(S) >= start + n
    /\ start' = 0
    /\ UNCHANGED <<verdict, tracker, rules, chain, trouble>>

Step(from, to) ==
    /\ pc = from /\ pc' = to
    /\ UNCHANGED <<verdict, start, tracker, rules, chain, trouble>>

Young ==
    \/ Lowest(EL) < MinHeight /\ Look("begin", "growing", EL)
    \/ Lowest(EL) >= MinHeight /\ Step("begin", "mesh")
    \/ Waited("growing", "mesh", MinHeight, EL)
    \/ /\ pc = "begin" /\ Failing /\ pc' = "mesh" \* the height is not known: it goes on
       /\ UNCHANGED <<verdict, start, tracker, rules, chain, fault, excuse>>

(* No history behind it, or no sender. *)
Refused ==
    /\ \/ pc = "begin" /\ Concludes("skipped")
       \/ pc = "mesh" /\ Concludes("error")
    /\ Failing
    /\ UNCHANGED <<rules, excuse>>

underPeered(known) == known \cap lonely # {}

Mesh ==
    /\ pc = "mesh"
    /\ \E known \in SUBSET Majority :
          /\ IF known = Majority THEN UNCHANGED fails ELSE Failing
          /\ Cardinality(known) + 1 >= Cardinality(Majority)
          /\ \/ underPeered(known) /\ Concludes("inconclusive")
             \/ /\ ~underPeered(known)
                /\ pc' \in {"setup", "cut"}
                /\ UNCHANGED <<verdict, start, tracker, chain, fault>>
    /\ UNCHANGED <<rules, excuse>>

Setup ==
    \/ Look("setup", "settling", EL)
    \/ Waited("settling", "cut", 1, EL)
    \/ /\ pc = "setup" /\ Failing /\ Concludes("error")
       /\ UNCHANGED <<rules, excuse>>

Partition ==
    /\ pc = "cut"
    /\ \/ /\ pc' = "diverge" /\ cut' = TRUE
          /\ UNCHANGED <<verdict, start, tracker, chain, fault, fails>>
       \/ Failing /\ Concludes("error") /\ UNCHANGED cut
    /\ UNCHANGED <<bite, excuse>>

-----------------------------------------------------------------------------
(* During the partition. *)

healQuietly ==
    /\ Concludes("inconclusive")
    /\ \/ cut' = FALSE /\ bite' = FALSE /\ UNCHANGED fails
       \/ Failing /\ UNCHANGED rules
    /\ UNCHANGED excuse

(* The minority does not have the majority's head.  It may merely be       *)
(* behind: the transaction is then sent before the chains have parted. *)
awaitDivergence ==
    \/ /\ Step("diverge", "apply")
       /\ LET n == Lowest(Majority)
          IN  n > 0 /\ (n > height[Minority] \/ Block(Minority, n) # Block(Ref, n))
    \/ pc = "diverge" /\ healQuietly

Apply ==
    /\ pc = "apply"
    /\ sent' = TRUE /\ pc' = "applied"
    /\ excuse' = IF bite THEN excuse ELSE excuse \cup {"leaked"}
    /\ UNCHANGED <<verdict, start, tracker, rules, branch, height, fork, lonely, mined, winner,
                   fault, fails>>

NotApplied == pc \in {"apply", "applied"} /\ healQuietly

(* The effect: on the minority, then not on the majority. *)
Confined ==
    \/ Step("applied", "doomed") /\ Visible(Minority, height[Minority])
    \/ Step("doomed", "depth") /\ ~Visible(Ref, height[Ref])
    \/ /\ pc = "doomed" /\ (Visible(Ref, height[Ref]) \/ fails < MaxFails)
       /\ healQuietly

(* A first look that fails ends the wait, not the scenario. *)
Held ==
    \/ Look("depth", "held", Majority)
    \/ Waited("held", "anchor", Depth, Majority)
    \/ /\ pc = "depth" /\ Failing /\ pc' = "anchor"
       /\ excuse' = excuse \cup {"shallow"}
       /\ UNCHANGED <<verdict, start, tracker, rules, chain, fault>>

(* Mutant of majorityTip: a block from before the split. *)
DeepTip ==
    LET n == Lowest(Majority) - TipMargin - Depth
    IN  IF n <= 0 \/ \E e \in Majority : Block(e, n) # Block(Ref, n) THEN None
        ELSE [n |-> n, hash |-> Block(Ref, n)]

majorityTip ==
    LET n == Lowest(Majority) - TipMargin
    IN  IF n <= 0 \/ \E e \in Majority : Block(e, n) # Block(Ref, n) THEN None
        ELSE [n |-> n, hash |-> Block(Ref, n)]

Anchor ==
    /\ pc = "anchor" /\ pc' = "clear"
    /\ \/ want' = majorityTip /\ UNCHANGED fails
       \/ want' = None /\ Failing
    /\ UNCHANGED <<outcome, frozen, start, tracker, rules, chain, fault, excuse>>

NoTracker == last' = [e \in EL |-> Unseen] /\ stuck' = [e \in EL |-> 0]

Clear ==
    /\ pc = "clear"
    /\ \/ /\ cut' = FALSE /\ bite' = FALSE /\ pc' = "agree"
          /\ UNCHANGED <<verdict, start, tracker, chain, fault, fails>>
       \/ Failing /\ Concludes("error") /\ UNCHANGED rules
    /\ UNCHANGED excuse

-----------------------------------------------------------------------------
(* After the heal. *)

(* One round of samples, of the clients that answered. *)
Samples == {EL} \cup IF fails < MaxFails THEN {EL \ {e} : e \in EL} ELSE {}
Charged(S) == fails' = IF S = EL THEN fails ELSE fails + 1

Counted(n) == IF n < WedgeTicks THEN n + 1 ELSE n

(* Mutant of observe: a stall is counted whether or not anyone moved. *)
CountsAlways(S) ==
    /\ stuck' = [e \in EL |-> IF e \notin S THEN stuck[e]
                              ELSE IF last[e] = height[e] THEN Counted(stuck[e]) ELSE 0]
    /\ last' = [e \in EL |-> IF e \in S THEN height[e] ELSE last[e]]

(* headTracker: a client accrues a stall only when the chain around it     *)
(* moved. *)
observe(S) ==
    LET moved == \E e \in S : last[e] < height[e]
    IN  /\ stuck' = [e \in EL |-> IF ~moved \/ e \notin S THEN stuck[e]
                                  ELSE IF last[e] = height[e] THEN Counted(stuck[e]) ELSE 0]
        /\ last' = [e \in EL |-> IF e \in S THEN height[e] ELSE last[e]]

Frozen(seen) == {e \in EL : seen[e] >= WedgeTicks}

(* Four minutes: a network with nobody at fault has reconverged. *)
Late == \E e \in EL : fault[e] \in {"wedged", "splits"}

waitAgreement ==
    /\ pc = "agree" /\ Prompt
    /\ \E S \in Samples : observe(S) /\ Charged(S)
    /\ IF Frozen(stuck') # {}
       THEN pc' = "classify" /\ frozen' = Frozen(stuck')
       ELSE pc' \in {"compare"} \cup (IF Late THEN {"classify"} ELSE {}) /\ frozen' = {}
    /\ UNCHANGED <<outcome, want, start, rules, chain, fault, excuse>>

agreed ==
    /\ pc = "compare"
    /\ \/ /\ LET n == Lowest(EL)
                 same == \A e \in EL : Block(e, n) = Block(Ref, n)
             IN  IF same /\ n > 0
                 THEN NoTracker /\ IF want = None THEN pc' = "done" /\ outcome' = "inconclusive"
                                                  ELSE pc' = "reach" /\ UNCHANGED outcome
                 ELSE pc' = "agree" /\ UNCHANGED <<tracker, outcome>>
          /\ UNCHANGED fails
       \/ Failing /\ pc' = "agree" /\ UNCHANGED <<tracker, outcome>>
    /\ UNCHANGED <<want, frozen, start, rules, chain, fault, excuse>>

(* The job's context ends: no agreement, and nobody's peers are known. *)
Cancelled ==
    /\ pc = "agree"
    /\ Concludes("finding")
    /\ excuse' = excuse \cup {"cancelled"}
    /\ UNCHANGED <<rules, fails>>

awaitHeight ==
    /\ pc = "reach" /\ Prompt
    /\ \E S \in Samples, T \in Samples :
          LET short == {e \in EL : e \notin T \/ height[e] < want.n}
          IN  /\ S = EL \/ T = EL
              /\ Charged(S \cap T)
              /\ IF short = {}
                 THEN NoTracker /\ pc' = "branch" /\ UNCHANGED frozen
                 ELSE /\ observe(S)
                      /\ \/ pc' = "reach" /\ UNCHANGED frozen
                         \/ pc' = "lagging" /\ frozen' = Frozen(stuck') \cap short
    /\ UNCHANGED <<outcome, want, start, rules, chain, fault, excuse>>

(* The wedged, by the peers each consensus client has now: one whose peers *)
(* are unknown is wedged, one without peers is starved. *)
classifyFrozen(known) == {e \in frozen : ~(e \in known /\ fault[e] = "starved")}

(* Nobody frozen: the clients disagree, or are slow to reach the anchor. *)
Classify ==
    /\ pc \in {"classify", "lagging"}
    /\ \E known \in Samples :
          /\ Charged(known)
          /\ excuse' = IF frozen \subseteq known THEN excuse ELSE excuse \cup {"unknown"}
          /\ outcome' = IF \/ classifyFrozen(known) # {}
                           \/ frozen = {} /\ pc = "classify" THEN "finding" ELSE "inconclusive"
    /\ pc' = "done"
    /\ NoTracker
    /\ UNCHANGED <<want, frozen, start, rules, chain, fault>>

(* The branch that was meant to win has won. *)
CheckBranch ==
    /\ pc = "branch"
    /\ \E S \in Samples :
          /\ Charged(S)
          /\ IF S = EL /\ \A e \in EL : Block(e, want.n) = want.hash
             THEN pc' = "gone" /\ UNCHANGED <<outcome, excuse>>
             ELSE /\ pc' = "done" /\ outcome' = "FINDING"
                  /\ excuse' = IF S = EL THEN excuse ELSE excuse \cup {"unread"}
    /\ UNCHANGED <<want, frozen, start, tracker, rules, chain, fault>>

(* Mutant of checkGone: the client that was cut off is not asked. *)
MajorityOnly ==
    /\ pc = "gone"
    /\ outcome' = IF \A e \in Majority : ~Visible(e, want.n) THEN "ok" ELSE "FINDING"
    /\ pc' = "done"
    /\ UNCHANGED <<want, frozen, start, tracker, rules, chain, trouble>>

checkGone ==
    /\ pc = "gone"
    /\ \E S \in Samples :
          /\ Charged(S)
          /\ outcome' = IF S = EL /\ \A e \in EL : ~Visible(e, want.n) THEN "ok" ELSE "FINDING"
          /\ excuse' = IF S = EL THEN excuse ELSE excuse \cup {"unread"}
    /\ pc' = "done"
    /\ UNCHANGED <<want, frozen, start, tracker, rules, chain, fault>>
-----------------------------------------------------------------------------
Init ==
    /\ pc = "begin" /\ outcome = "running" /\ start = 0 /\ want = None /\ frozen = {}
    /\ last = [e \in EL |-> Unseen] /\ stuck = [e \in EL |-> 0]
    /\ cut = FALSE /\ bite = FALSE
    /\ branch = [e \in EL |-> "A"] /\ height \in {[e \in EL |-> h] : h \in {0, MinHeight}}
    /\ fork = [b \in {"B", "C"} |-> 0]
    /\ lonely \in {{}} \cup {{e} : e \in Majority}
    /\ sent = FALSE /\ mined = [b \in {"A", "B", "C"} |-> 0] /\ winner = "A"
    /\ fault = [e \in EL |-> "none"] /\ fails = 0 /\ excuse = {}

runScenario ==
    \/ Young \/ Refused \/ Mesh \/ Setup \/ Partition
    \/ awaitDivergence \/ Apply \/ NotApplied \/ Confined \/ Held \/ Anchor \/ Clear
    \/ waitAgreement \/ agreed \/ Cancelled \/ awaitHeight \/ Classify
    \/ CheckBranch \/ checkGone

Next == Network \/ runScenario

Spec == Init /\ [][Next]_vars

-----------------------------------------------------------------------------
TypeOK ==
    /\ outcome \in {"running", "skipped", "error", "inconclusive", "finding", "FINDING", "ok"}
    /\ (outcome = "running") = (pc # "done")
    /\ start \in 0..MaxHeight /\ want.n \in 0..MaxHeight /\ frozen \subseteq EL
    /\ last \in [EL -> 0..Unseen] /\ stuck \in [EL -> 0..WedgeTicks]
    /\ {cut, bite, sent} \subseteq BOOLEAN
    /\ branch \in [EL -> {"A", "B", "C"}] /\ height \in [EL -> 0..MaxHeight]
    /\ fork \in [{"B", "C"} -> 0..MaxHeight] /\ mined \in [{"A", "B", "C"} -> 0..MaxHeight]
    /\ winner \in {"A", "B"} /\ fails \in 0..MaxFails
    /\ fault \in [EL -> {"none", "wedged", "starved", "fed", "splits", "keeps", "usurps"}]

(* ok is said only when every client is on the majority's branch and none  *)
(* kept the doomed state, which really was on a branch that died: unless   *)
(* the depth was not waited for, and the anchor lies below the fork. *)
OkMeansUnwound ==
    outcome = "ok" /\ "shallow" \notin excuse =>
        /\ mined["B"] # 0
        /\ \A e \in EL : branch[e] = "A" /\ fault[e] # "keeps"

StallIsEarned    == outcome = "finding" => \E e \in EL : fault[e] \in {"wedged", "splits", "usurps"}
MismatchIsEarned == outcome = "FINDING" => \E e \in EL : fault[e] \in {"keeps", "usurps"}

(* A finding is a client's doing: not the network's, not a transaction     *)
(* mined again after the heal, not the majority forked by the cut, and not *)
(* a depth that a failed first look cut short. *)
FindingsAreEarned ==
    excuse \subseteq {"shallow"} => StallIsEarned /\ MismatchIsEarned

(* The anchor is on the branch that is judged and not on the other, and    *)
(* below any block in which the doomed transaction came back. *)
AnchorTellsThemApart ==
    want # None /\ excuse = {} =>
        want.n > fork["B"] /\ (mined["A"] = 0 \/ mined["A"] > want.n)
=============================================================================
