------------------------- MODULE PbtScenarioProofs -------------------------
(***************************************************************************)
(* A scenario's verdicts, for every number of clients, every bound and     *)
(* every depth that clears the tip's margin.                               *)
(*                                                                         *)
(* The argument follows the anchor.  Until the heal the chains differ only *)
(* as the cut made them (Split), so the forks lie at most a block above    *)
(* the slowest of the majority; the transaction was seen on the minority   *)
(* (Confirmed); the wait for depth then puts the anchor above the forks,   *)
(* and above the transaction if it leaked (Waiting, Buried).  From there   *)
(* on nothing that fork choice, a fault or growth may do puts the anchor   *)
(* on another branch or below the transaction's second life (Anchored).    *)
(* The verdict on clients that stand still has an argument of its own, at  *)
(* the end (Catching).                                                     *)
(***************************************************************************)
EXTENDS PbtScenario, FiniteSetTheorems, WellFoundedInduction, TLAPS

Clean == "leaked" \notin excuse
Deep  == "shallow" \notin excuse

Unsent    == {"begin", "growing", "mesh", "setup", "settling", "cut", "diverge", "apply"}
Seen      == {"doomed", "depth", "held", "anchor", "clear"}
Before    == Unsent \cup {"applied"} \cup Seen
Reached   == {"reach", "branch", "gone"}
Connected == Majority \ lonely

Types ==
    /\ pc # "done" => outcome = "running"
    /\ start \in Nat /\ want.n \in Nat /\ bite \in BOOLEAN /\ sent \in BOOLEAN
    /\ branch \in [EL -> {"A", "B", "C"}] /\ height \in [EL -> 0..MaxHeight]
    /\ fork \in [{"B", "C"} -> Nat] /\ mined \in [{"A", "B", "C"} -> Nat]
    /\ winner \in {"A", "B"} /\ lonely \subseteq Majority
    /\ fault \in [EL -> {"none", "wedged", "starved", "fed", "splits", "keeps", "usurps"}]

(* Who can be on which branch, and what was mined where. *)
Branches ==
    /\ \A e \in EL : branch[e] = "C" => e \in lonely
    /\ \A e \in EL : branch[e] # "A" => Connected # {} /\ height[e] >= fork[branch[e]]
    /\ winner = "A" => \A e \in EL : branch[e] = "B" => e = Minority
    /\ winner = "B" => branch[Minority] = "B" /\ fault[Minority] = "usurps"
    /\ \A b \in {"B", "C"} : mined[b] # 0 => mined[b] > fork[b]
    /\ Clean /\ sent => Connected # {}

(* Before the heal. *)
Split ==
    pc \in Before =>
        /\ winner = "A" /\ \A e \in EL : fault[e] = "none"
        /\ want # None => pc = "clear"
        /\ ~bite => /\ \A e \in EL : branch[e] = "A"
                    /\ \A b \in {"B", "C"} : fork[b] = 0 /\ mined[b] = 0
        /\ bite => /\ Connected # {} /\ branch[Minority] = "B"
                   /\ \A e \in Majority : branch[e] = IF e \in lonely THEN "C" ELSE "A"
        /\ \A e, o \in EL : branch[e] = branch[o] => height[e] <= height[o] + 1
        /\ \A e \in Majority : fork["B"] <= height[e] + 1 /\ fork["C"] <= height[e] + 1
        /\ sent = (pc \notin Unsent)
        /\ ~sent => \A b \in {"A", "B", "C"} : mined[b] = 0
        /\ Clean /\ sent => bite /\ mined["A"] = 0

(* The transaction was seen on the minority's chain. *)
Confirmed ==
    pc \in Seen =>
        /\ mined["B"] = 0 => mined["A"] # 0 /\ \A e \in Majority : mined["A"] <= height[e] + 1
        /\ Clean => height[Minority] > fork["B"]

(* The majority is waited for, from a start that both forks are near. *)
Waiting ==
    pc = "held" =>
        /\ \A e \in Majority : start <= height[e]
        /\ fork["B"] <= start + 1 /\ fork["C"] <= start + 1
        /\ mined["B"] # 0 \/ mined["A"] \in 1..(start + 1)

Buried ==
    pc = "anchor" /\ Deep =>
        /\ mined["B"] # 0 \/ mined["A"] # 0
        /\ \A e \in Majority :
              /\ fork["B"] + Depth <= height[e] + 1 /\ fork["C"] + Depth <= height[e] + 1
              /\ mined["B"] = 0 => mined["A"] + Depth <= height[e] + 1

(* The anchor, whenever there is one. *)
Anchored ==
    want # None =>
        /\ want.n > 0 /\ want.hash = <<"A", want.n>>
        /\ \A e \in EL : branch[e] = "C" => want.n <= fork["C"]
        /\ \A e \in Connected : branch[e] = "A" => want.n <= height[e]
        /\ Clean /\ winner = "A" => mined["A"] = 0 \/ mined["A"] > want.n
        /\ Clean /\ want.n > fork["B"] => \A e \in EL : height[e] > fork["B"]

(* ... and when the depth was waited for. *)
AnchoredDeep ==
    want # None /\ Deep =>
        /\ want.n > fork["B"]
        /\ \A e \in EL : branch[e] # "C"
        /\ lonely # {} => winner = "A" /\ \A e \in EL : branch[e] = "A"
        /\ mined["B"] # 0 \/ mined["A"] \in 1..want.n
        /\ Clean => mined["A"] = 0 \/ mined["A"] > want.n

Agreed ==
    /\ pc \in Reached => want # None
    /\ pc \in Reached /\ winner = "A" /\ Clean /\ want.n > fork["B"] => \A e \in EL : branch[e] # "B"

Unwound == pc = "gone" /\ Deep => winner = "A" /\ \A e \in EL : branch[e] = "A"

Mismatched == excuse \subseteq {"shallow"} => MismatchIsEarned

IInv ==
    Types /\ Branches /\ Split /\ Confirmed /\ Waiting /\ Buried /\ Anchored /\ Agreed /\ Mismatched

IDeep == AnchoredDeep /\ Unwound /\ OkMeansUnwound

-----------------------------------------------------------------------------
(* The lowest and the highest of a set of clients. *)

LEMMA LeastNatural ==
    ASSUME NEW T, T \subseteq Nat, T # {}
    PROVE  \E d \in T : \A e \in T : d <= e
<1> DEFINE upTo == {0..e : e \in T}
<1>1. upTo \subseteq FiniteSubsetsOf(Nat) /\ upTo # {}
  <2>1. \A e \in T : 0..e \in SUBSET Nat /\ IsFiniteSet(0..e)
    BY FS_Interval
  <2> QED
    BY <2>1, Zenon DEF FiniteSubsetsOf
<1>2. PICK x \in upTo : \A y \in upTo : ~(<<y, x>> \in StrictSubsetOrdering(Nat))
  BY <1>1, WFMin, FS_StrictSubsetOrderingWellFounded
<1>3. PICK d \in T : x = 0..d
  OBVIOUS
<1>4. ASSUME NEW e \in T, e < d PROVE FALSE
  <2>1. 0..e \in upTo /\ 0..e \subseteq 0..d /\ 0..e # 0..d /\ 0..d \subseteq Nat
    BY <1>4
  <2> QED
    BY <1>2, <1>3, <2>1 DEF StrictSubsetOrdering
<1> QED
  BY <1>4

LEMMA LowestFacts ==
    ASSUME Types, NEW S, S \subseteq EL, S # {}
    PROVE  Lowest(S) \in Nat /\ (\A o \in S : Lowest(S) <= height[o]) /\ \E o \in S : Lowest(S) = height[o]
<1> DEFINE T == {height[e] : e \in S}
<1>1. T \subseteq Nat /\ T # {}
  BY DEF Types
<1>2. PICK d \in T : \A h \in T : d <= h
  BY <1>1, LeastNatural
<1>3. d \in T /\ \A e \in S : d <= height[e]
  BY <1>2
<1>4. Lowest(S) \in T /\ \A e \in S : Lowest(S) <= height[e]
  BY <1>3 DEF Lowest
<1> QED
  BY <1>1, <1>4

(* The same from above, as the heights are bounded. *)
LEMMA HighestFacts ==
    ASSUME Types, NEW b, On(b) # {}
    PROVE  /\ Highest(b) \in 0..MaxHeight
           /\ \A o \in EL : branch[o] = b => height[o] <= Highest(b)
<1> DEFINE T == {height[e] : e \in On(b)}
           below == {MaxHeight - height[e] : e \in On(b)}
<1>0. MaxHeight \in Nat /\ On(b) \subseteq EL /\ \A e \in On(b) : height[e] \in 0..MaxHeight
  BY PbtScenarioAssumption DEF Types, On
<1>1. below \subseteq Nat /\ below # {}
  BY <1>0
<1>2. PICK d \in below : \A h \in below : d <= h
  BY <1>1, LeastNatural
<1>3. PICK x \in On(b) : d = MaxHeight - height[x]
  BY <1>2
<1>4. \A e \in On(b) : height[e] <= height[x]
  <2> TAKE e \in On(b)
  <2>1. MaxHeight - height[x] <= MaxHeight - height[e]
    BY <1>2, <1>3
  <2> QED
    BY <1>0, <2>1
<1>5. Highest(b) \in T /\ \A e \in On(b) : height[e] <= Highest(b)
  BY <1>4 DEF Highest
<1> QED
  BY <1>0, <1>5 DEF On

-----------------------------------------------------------------------------
(* What a step of the scenario may do to what the argument is about.  It   *)
(* leaves the chains and the faults alone.                                 *)
Flow ==
    /\ UNCHANGED <<branch, height, fork, lonely, mined, winner, fault>>
    /\ excuse \subseteq excuse' /\ pc # "done"
    /\ pc' # "done" => outcome' = outcome
    /\ bite' = bite \/ (bite' = FALSE /\ pc' \notin Before)
    /\ \/ sent' = sent
       \/ pc = "apply" /\ pc' = "applied" /\ sent' = TRUE /\ (bite \/ "leaked" \in excuse')
    /\ \/ want' = want
       \/ pc = "anchor" /\ pc' = "clear" /\ want' \in {majorityTip, None}

Order ==
    /\ pc' \in Before => pc \in Before
    /\ pc' \in Unsent => pc \in Unsent
    /\ pc' = "applied" => pc = "apply" /\ sent' = TRUE
    /\ pc' = "doomed" => pc = "applied" /\ Visible(Minority, height[Minority])
    /\ pc' \in Seen => pc \in Seen \cup {"applied"}
    /\ pc' = "held" => pc = "depth" /\ start' = Lowest(Majority)
    /\ pc' = "anchor" => \/ pc = "held" /\ Lowest(Majority) >= start + Depth
                         \/ "shallow" \in excuse'
    /\ pc' = "clear" => pc = "anchor"
    /\ pc = "clear" => pc' \notin Before
    /\ pc = "applied" => pc' \in {"doomed", "done"}
    /\ pc' = "reach" /\ pc # "reach" =>
          want # None /\ \A e \in EL : Block(e, Lowest(EL)) = Block(Ref, Lowest(EL))
    /\ pc' \in {"branch", "gone"} => pc \in Reached
    /\ pc' = "gone" => \A e \in EL : Block(e, want.n) = want.hash

Spoken ==
    /\ start' \in {0, start, Lowest(EL), Lowest(Majority)}
    /\ outcome' = "ok" /\ outcome # "ok" => pc = "gone" /\ \A e \in EL : ~Visible(e, want.n)
    /\ outcome' = "FINDING" /\ outcome # "FINDING" =>
          \/ "unread" \in excuse'
          \/ pc = "branch" /\ \E e \in EL : Block(e, want.n) # want.hash
          \/ pc = "gone" /\ \E e \in EL : Visible(e, want.n)

LEMMA RunFlow ==
    ASSUME runScenario
    PROVE  Flow /\ Order /\ Spoken
<1> USE DEF Flow, Order, Spoken, Before, Unsent, Seen, Reached, verdict, tracker, rules, chain,
            trouble
<1>1. CASE Young
  BY <1>1 DEF Young, Look, Waited, Step, Failing
<1>2. CASE Refused
  BY <1>2 DEF Refused, Concludes, Failing
<1>3. CASE Mesh
  BY <1>3 DEF Mesh, Concludes, Failing
<1>4. CASE Setup
  BY <1>4 DEF Setup, Look, Waited, Concludes, Failing
<1>5. CASE Partition
  BY <1>5 DEF Partition, Concludes, Failing
<1>6. CASE awaitDivergence
  BY <1>6 DEF awaitDivergence, Step, healQuietly, Concludes, Failing
<1>7. CASE Apply
  BY <1>7 DEF Apply
<1>8. CASE NotApplied
  BY <1>8 DEF NotApplied, healQuietly, Concludes, Failing
<1>9. CASE Confined
  BY <1>9 DEF Confined, Step, healQuietly, Concludes, Failing
<1>10. CASE Held
  BY <1>10 DEF Held, Look, Waited, Failing
<1>11. CASE Anchor
  BY <1>11 DEF Anchor, Failing
<1>12. CASE Clear
  BY <1>12 DEF Clear, Concludes, Failing
<1>13. CASE waitAgreement
  BY <1>13 DEF waitAgreement
<1>14. CASE agreed
  BY <1>14 DEF agreed, Failing
<1>15. CASE Cancelled
  BY <1>15 DEF Cancelled, Concludes
<1>16. CASE awaitHeight
  BY <1>16 DEF awaitHeight
<1>17. CASE Classify
  BY <1>17 DEF Classify
<1>18. CASE CheckBranch
  BY <1>18 DEF CheckBranch
<1>19. CASE checkGone
  BY <1>19 DEF checkGone
<1> QED
  BY <1>1, <1>2, <1>3, <1>4, <1>5, <1>6, <1>7, <1>8, <1>9, <1>10, <1>11, <1>12, <1>13, <1>14, <1>15, <1>16, <1>17, <1>18, <1>19 DEF runScenario

-----------------------------------------------------------------------------
LEMMA InitIInv ==
    ASSUME Init
    PROVE  IInv /\ IDeep
<1>1. None.n = 0 /\ 0 \in 0..MaxHeight /\ MinHeight \in 0..MaxHeight
  BY PbtScenarioAssumption DEF None
<1>2. Types
  <2>1. bite \in BOOLEAN /\ sent \in BOOLEAN
    BY Zenon DEF Init
  <2>2. lonely \subseteq Majority
    BY Zenon DEF Init
  <2>3. height \in [EL -> 0..MaxHeight]
    BY <1>1 DEF Init
  <2> QED
    BY <1>1, <2>1, <2>2, <2>3 DEF Init, Types
<1>3. Branches /\ Split
  BY <1>2, PbtScenarioAssumption DEF Init, Types, Branches, Split, Majority, Unsent
<1> QED
  BY <1>2, <1>3 DEF Init, IInv, IDeep, Confirmed, Waiting, Buried, Anchored, AnchoredDeep, Agreed,
     Mismatched, MismatchIsEarned, Unwound, OkMeansUnwound, Seen, Reached

LEMMA Clients == Minority \in EL /\ Ref \in Majority /\ Majority \subseteq EL /\ Minority \notin Majority
BY PbtScenarioAssumption DEF Majority

(* Whoever can change branch has somewhere to go. *)
LEMMA WinnerExists ==
    ASSUME Types, Branches, NEW e \in EL, branch[e] # winner
    PROVE  On(winner) # {}
<1>1. CASE winner = "B"
  BY <1>1, Clients DEF Branches, On
<1>2. CASE winner = "A"
  <2>1. PICK o : o \in Connected
    BY <1>2 DEF Branches
  <2>2. o \in EL /\ o # Minority /\ o \notin lonely
    BY <2>1, Clients DEF Connected
  <2>3. branch[o] = "A"
    BY <1>2, <2>2 DEF Branches, Types
  <2> QED
    BY <1>2, <2>2, <2>3 DEF On
<1> QED
  BY <1>1, <1>2 DEF Types

LEMMA BiteFacts ==
    ASSUME Types, Bite, lonely' = lonely
    PROVE  /\ fork' \in [{"B", "C"} -> Nat] /\ fork'["B"] = height[Minority]
           /\ \A e \in lonely : fork'["C"] <= height[e]
           /\ fork'["C"] = 0 \/ \E e \in lonely : fork'["C"] = height[e]
           /\ branch' = [e \in EL |-> IF e = Minority THEN "B"
                                      ELSE IF e \in lonely THEN "C" ELSE "A"]
           /\ Connected # {} /\ bite' = TRUE /\ bite = FALSE
           /\ UNCHANGED <<height, sent, mined, winner, trouble>>
<1>1. lonely \subseteq EL /\ {Minority} \subseteq EL
  BY Clients DEF Types
<1>2. Lowest({Minority}) = height[Minority] /\ height[Minority] \in Nat
  BY <1>1, LowestFacts DEF Types
<1>3. lonely # {} => /\ Lowest(lonely) \in Nat /\ \A e \in lonely : Lowest(lonely) <= height[e]
                     /\ \E e \in lonely : Lowest(lonely) = height[e]
  BY <1>1, LowestFacts
<1>4. fork' = [b \in {"B", "C"} |-> LET e == IF b = "B" THEN {Minority} ELSE lonely
                                    IN  IF e = {} THEN 0 ELSE Lowest(e)]
  BY DEF Bite
<1>5. fork'["B"] = Lowest({Minority}) /\ fork'["C"] = IF lonely = {} THEN 0 ELSE Lowest(lonely)
  BY <1>4
<1>6. fork' \in [{"B", "C"} -> Nat]
  BY <1>2, <1>3, <1>4, <1>5
<1>7. Connected # {}
  BY DEF Bite, Connected
<1> QED
  BY <1>2, <1>3, <1>5, <1>6, <1>7 DEF Bite, Types

LEMMA TypesStep ==
    ASSUME Types, Branches, Next
    PROVE  Types'
<1>1. CASE runScenario
  <2>1. Flow /\ Order /\ Spoken
    BY <1>1, RunFlow
  <2>2. Lowest(EL) \in Nat /\ Lowest(Majority) \in Nat
    BY LowestFacts, Clients
  <2>3. majorityTip.n \in Nat /\ None.n \in Nat
    BY <2>2, PbtScenarioAssumption DEF majorityTip, None
  <2> QED
    <3>1. bite' \in BOOLEAN /\ sent' \in BOOLEAN
      BY <2>1, Zenon DEF Flow, Types
    <3>2. start' \in Nat /\ want'.n \in Nat
      BY <2>1, <2>2, <2>3 DEF Flow, Spoken, Types
    <3> QED
      BY <2>1, <3>1, <3>2 DEF Flow, Types, Majority
<1>2. CASE Network
  <2>0. UNCHANGED <<pc, outcome, start, want, lonely>>
    BY <1>2 DEF Network, verdict
  <2>1. CASE Bite
    BY <2>0, <2>1, BiteFacts DEF Types, trouble, Majority
  <2>2. CASE Usurp
    BY <2>0, <2>2 DEF Usurp, Types, Majority
  <2>3. ASSUME NEW e \in EL, Grow(e) PROVE Types'
    BY <2>0, <2>3, PbtScenarioAssumption DEF Grow, Types, Majority, trouble
  <2>4. ASSUME NEW e \in EL, Unwind(e) PROVE Types'
    <3>1. Highest(winner) \in 0..MaxHeight /\ MaxHeight \in Nat
      BY <2>4, WinnerExists, HighestFacts, PbtScenarioAssumption DEF Unwind, Rejoins
    <3>2. PICK h \in (fork["B"] + 1)..Highest(winner) : height' = [height EXCEPT ![e] = h]
      BY <2>4 DEF Unwind
    <3>3. fork["B"] \in Nat
      BY DEF Types
    <3>4. h \in 0..MaxHeight
      BY <3>1, <3>2, <3>3
    <3> QED
      BY <2>0, <2>4, <3>2, <3>4 DEF Unwind, Types, trouble, Majority
  <2>5. ASSUME NEW e \in EL, Fault(e) PROVE Types'
    BY <2>0, <2>5 DEF Fault, Types, Majority
  <2> QED
    BY <1>2, <2>1, <2>2, <2>3, <2>4, <2>5 DEF Network
<1> QED
  BY <1>1, <1>2 DEF Next

LEMMA NetworkFacts ==
    ASSUME Network
    PROVE  /\ UNCHANGED <<pc, outcome, want, start, lonely>> /\ pc # "done" /\ excuse \subseteq excuse'
           /\ pc \in Before => pc \notin Reached /\ ~Healed
           /\ Bite => pc \in Before
<1>1. UNCHANGED <<pc, outcome, want, start, lonely>> /\ pc # "done"
  BY DEF Network, verdict
<1>2. excuse \subseteq excuse'
  BY DEF Network, Bite, Usurp, Grow, Unwind, Fault, trouble
<1> QED
  BY <1>1, <1>2 DEF Bite, Early, Before, Unsent, Seen, Reached, Healed

LEMMA BranchesStep ==
    ASSUME Types, Types', Branches, Split, Next
    PROVE  Branches'
<1>1. CASE runScenario
  <2>1. Flow
    BY <1>1, RunFlow
  <2>2. Connected' = Connected
    BY <2>1 DEF Flow, Connected, Majority
  <2>3. Clean' /\ sent' => Connected # {}
    BY <2>1 DEF Flow, Branches, Split, Before, Unsent, Clean
  <2> QED
    BY <2>1, <2>2, <2>3 DEF Flow, Branches
<1>2. CASE Network
  <2>0. UNCHANGED lonely /\ Connected' = Connected /\ (Clean' => Clean)
    BY <1>2, NetworkFacts DEF Connected, Majority, Clean
  <2>1. CASE Bite
    <3>1. pc \in Before /\ bite = FALSE
      BY <1>2, <2>1, NetworkFacts DEF Bite
    <3>2. winner = "A" /\ \A b \in {"B", "C"} : mined[b] = 0
      BY <3>1 DEF Split
    <3>3. /\ fork'["B"] = height[Minority] /\ \A e \in lonely : fork'["C"] <= height[e]
          /\ branch' = [e \in EL |-> IF e = Minority THEN "B" ELSE IF e \in lonely THEN "C" ELSE "A"]
          /\ Connected # {} /\ UNCHANGED <<height, mined, winner>>
      BY <2>0, <2>1, BiteFacts
    <3> QED
      BY <2>0, <3>2, <3>3 DEF Branches, Types
  <2>2. CASE Usurp
    <3>1. winner = "A" /\ On("B") # {} /\ winner' = "B" /\ fault' = [fault EXCEPT ![Minority] = "usurps"]
          /\ UNCHANGED <<branch, height, fork, sent, mined>>
      BY <2>2 DEF Usurp
    <3>2. branch[Minority] = "B"
      BY <3>1 DEF Branches, On
    <3> QED
      BY <2>0, <3>1, <3>2, Clients DEF Branches, Types
  <2>3. ASSUME NEW e \in EL, Grow(e) PROVE Branches'
    <3>1. UNCHANGED <<branch, fork, sent, winner, fault>> /\ height' = [height EXCEPT ![e] = @ + 1]
      BY <2>3 DEF Grow, trouble
    <3>2. mined' = mined \/ mined' = [mined EXCEPT ![branch[e]] = height[e] + 1]
      BY <2>3 DEF Grow
    <3>3. \A b \in {"B", "C"} : mined'[b] # 0 => mined'[b] > fork[b]
      BY <3>2 DEF Branches, Types
    <3> QED
      BY <2>0, <3>1, <3>3 DEF Branches, Types
  <2>4. ASSUME NEW e \in EL, Unwind(e) PROVE Branches'
    <3>1. /\ branch[e] # winner /\ branch' = [branch EXCEPT ![e] = winner]
          /\ UNCHANGED <<fork, sent, mined, winner, fault>>
      BY <2>4 DEF Unwind, Rejoins, trouble
    <3>2. PICK h \in (fork["B"] + 1)..Highest(winner) : height' = [height EXCEPT ![e] = h]
      BY <2>4 DEF Unwind
    <3>3. h > fork["B"]
      BY <3>2, <3>1, WinnerExists, HighestFacts, PbtScenarioAssumption DEF Types
    <3>4. winner # "A" => Connected # {}
      BY Clients DEF Branches, Types
    <3>5. \A o \in EL : branch'[o] = IF o = e THEN winner ELSE branch[o]
      BY <3>1 DEF Types
    <3>6. \A o \in EL : height'[o] = IF o = e THEN h ELSE height[o]
      BY <3>2 DEF Types
    <3>7. \A o \in EL : branch'[o] # "A" => Connected # {} /\ height'[o] >= fork[branch'[o]]
      BY <3>3, <3>4, <3>5, <3>6 DEF Branches, Types
    <3> QED
      BY <2>0, <3>1, <3>5, <3>7, Clients DEF Branches, Types
  <2>5. ASSUME NEW e \in EL, Fault(e) PROVE Branches'
    <3>1. UNCHANGED <<branch, height, fork, sent, mined, winner>>
      BY <2>5 DEF Fault
    <3>2. fault[Minority] = "usurps" => fault'[Minority] = "usurps"
      BY <2>5, Clients DEF Fault, Types
    <3> QED
      BY <2>0, <3>1, <3>2 DEF Branches, Types
  <2> QED
    BY <1>2, <2>1, <2>2, <2>3, <2>4, <2>5 DEF Network
<1> QED
  BY <1>1, <1>2 DEF Next

LEMMA SplitStep ==
    ASSUME Types, Types', Branches, Split, Next
    PROVE  Split'
<1>1. CASE runScenario
  <2>1. Flow /\ Order
    BY <1>1, RunFlow
  <2>2. SUFFICES ASSUME pc' \in Before PROVE Split'
    BY DEF Split
  <2>3. pc \in Before /\ bite' = bite /\ Connected' = Connected /\ Majority' = Majority
    BY <2>1, <2>2 DEF Flow, Order, Connected, Majority
  <2>4. want' # None => pc' = "clear"
    BY <2>1, <2>3, <2>2 DEF Flow, Order, Split, Before, Unsent, Seen
  <2>5. sent' = (pc' \notin Unsent)
    BY <2>1, <2>3, <2>2 DEF Flow, Order, Split, Before, Unsent, Seen
  <2>6. ~sent' => ~sent
    BY <2>1 DEF Flow
  <2>7. Clean' /\ sent' => bite' /\ mined'["A"] = 0
    BY <2>1, <2>3 DEF Flow, Split, Clean, Unsent
  <2> QED
    BY <2>1, <2>3, <2>4, <2>5, <2>6, <2>7 DEF Flow, Split
<1>2. CASE Network
  <2>0. UNCHANGED <<pc, want, lonely>> /\ Connected' = Connected /\ (Clean' => Clean) /\ Majority' = Majority
    BY <1>2, NetworkFacts DEF Connected, Majority, Clean
  <2>1. SUFFICES ASSUME pc' \in Before PROVE Split'
    BY DEF Split
  <2>2. pc \in Before /\ ~Healed /\ pc # "agree"
    BY <1>2, <2>0, <2>1, NetworkFacts DEF Before, Unsent, Seen
  <2>3. CASE Bite
    <3>1. /\ fork'["B"] = height[Minority]
          /\ fork'["C"] = 0 \/ \E e \in lonely : fork'["C"] = height[e]
          /\ branch' = [e \in EL |-> IF e = Minority THEN "B" ELSE IF e \in lonely THEN "C" ELSE "A"]
          /\ Connected # {} /\ bite' = TRUE /\ bite = FALSE
          /\ UNCHANGED <<height, sent, mined, winner, fault>>
      BY <2>0, <2>3, BiteFacts DEF trouble
    <3>2. \A e, o \in EL : height[e] <= height[o] + 1
      BY <2>2, <3>1 DEF Split
    <3>3. \A e \in EL : branch'[e] = IF e = Minority THEN "B" ELSE IF e \in lonely THEN "C" ELSE "A"
      BY <3>1
    <3>4. \A e \in Majority : fork'["B"] <= height[e] + 1 /\ fork'["C"] <= height[e] + 1
      BY <3>1, <3>2, Clients DEF Types
    <3>5. ~(Clean /\ sent)
      BY <2>2, <3>1 DEF Split
    <3> QED
      BY <2>0, <2>2, <3>1, <3>2, <3>3, <3>4, <3>5, Clients DEF Split
  <2>4. ASSUME NEW e \in EL, Grow(e) PROVE Split'
    <3>1. UNCHANGED <<branch, fork, sent, winner, fault, bite>> /\ height' = [height EXCEPT ![e] = @ + 1]
      BY <2>4 DEF Grow, trouble
    <3>2. \/ mined' = mined
          \/ sent /\ (branch[e] = "B" \/ ~bite) /\ mined' = [mined EXCEPT ![branch[e]] = height[e] + 1]
      BY <2>4 DEF Grow
    <3>3. \A o \in EL : branch[o] = branch[e] => height[e] <= height[o]
      BY <2>2, <2>4 DEF Split, Grow, On, Stands
    <3>4. \A o \in EL : height'[o] = IF o = e THEN height[e] + 1 ELSE height[o]
      BY <3>1 DEF Types
    <3>5. \A o, u \in EL : branch[o] = branch[u] => height'[o] <= height'[u] + 1
      BY <2>2, <3>3, <3>4 DEF Split, Types
    <3>6. \A o \in Majority : fork["B"] <= height'[o] + 1 /\ fork["C"] <= height'[o] + 1
      BY <2>2, <3>4, Clients DEF Split, Types
    <3>7. ~sent => mined' = mined
      BY <3>2
    <3>8. ~bite => mined'["B"] = mined["B"] /\ mined'["C"] = mined["C"]
      BY <2>2, <3>2 DEF Split, Types
    <3>9. Clean /\ sent => mined'["A"] = mined["A"]
      BY <2>2, <3>2 DEF Split, Types
    <3> QED
      BY <2>0, <2>2, <3>1, <3>5, <3>6, <3>7, <3>8, <3>9 DEF Split
  <2>5. ~Usurp /\ \A e \in EL : ~Unwind(e) /\ ~Fault(e)
    BY <2>2 DEF Usurp, Unwind, Rejoins, Fault
  <2> QED
    BY <1>2, <2>3, <2>4, <2>5 DEF Network
<1> QED
  BY <1>1, <1>2 DEF Next

-----------------------------------------------------------------------------
(* Up to the anchor. *)

LEMMA SeenOnMinority ==
    ASSUME Types, Branches, Split, pc = "applied", Visible(Minority, height[Minority])
    PROVE  /\ mined["B"] = 0 => mined["A"] # 0 /\ \A e \in Majority : mined["A"] <= height[e] + 1
           /\ Clean => height[Minority] > fork["B"]
<1>1. pc \in Before /\ sent = TRUE /\ fault[Minority] = "none" /\ Minority \in EL
  BY Clients DEF Split, Before, Unsent
<1>2. PICK b \in {"A", "B", "C"} :
          mined[b] \in 1..height[Minority] /\ Block(Minority, mined[b]) = <<b, mined[b]>>
  BY <1>1 DEF Visible, Types
<1>3. CASE ~bite
  <2>1. branch[Minority] = "A" /\ \A e \in Majority : height[Minority] <= height[e] + 1
    BY <1>1, <1>3, Clients DEF Split
  <2>2. b = "A"
    BY <1>2, <2>1 DEF Block
  <2>3. ~Clean
    BY <1>1, <1>3 DEF Split
  <2> QED
    BY <1>1, <1>2, <2>1, <2>2, <2>3, Clients DEF Types
<1>4. CASE bite
  <2>1. branch[Minority] = "B" /\ \A e \in Majority : fork["B"] <= height[e] + 1
    BY <1>1, <1>4 DEF Split
  <2>2. (b = "B" /\ mined["B"] > fork["B"]) \/ (b = "A" /\ mined["A"] <= fork["B"])
    BY <1>2, <2>1 DEF Block, Types
  <2>3. Clean => mined["A"] = 0
    BY <1>1 DEF Split
  <2>4. Clean => b = "B"
    BY <1>2, <2>2, <2>3
  <2> QED
    BY <1>1, <1>2, <2>1, <2>2, <2>4, Clients DEF Types
<1> QED
  BY <1>3, <1>4 DEF Types

LEMMA GrowMines ==
    ASSUME Types, NEW e \in EL, Grow(e)
    PROVE  /\ \/ mined' = mined
              \/ /\ sent /\ mined[branch[e]] = 0 /\ height[e] = Highest(branch[e])
                 /\ branch[e] = "B" \/ ~bite
                 /\ mined' = [mined EXCEPT ![branch[e]] = height[e] + 1]
           /\ \A b \in {"A", "B", "C"} : mined[b] # 0 => mined'[b] = mined[b]
           /\ height' = [height EXCEPT ![e] = @ + 1] /\ \A o \in EL : height[o] <= height'[o]
           /\ UNCHANGED <<branch, fork, sent, winner, fault, excuse, bite>>
<1>1. \/ mined' = mined
      \/ /\ sent /\ mined[branch[e]] = 0 /\ height[e] = Highest(branch[e])
         /\ branch[e] = "B" \/ ~bite
         /\ mined' = [mined EXCEPT ![branch[e]] = height[e] + 1]
  BY DEF Grow
<1>2. \A b \in {"A", "B", "C"} : mined[b] # 0 => mined'[b] = mined[b]
  BY <1>1 DEF Types
<1>3. height' = [height EXCEPT ![e] = @ + 1] /\ UNCHANGED <<branch, fork, sent, winner, fault, excuse, bite>>
  BY DEF Grow, trouble
<1> QED
  BY <1>1, <1>2, <1>3 DEF Types

LEMMA QuietBefore ==
    ASSUME Network, pc \in Before
    PROVE  Bite \/ \E e \in EL : Grow(e)
BY NetworkFacts DEF Network, Usurp, Unwind, Rejoins, Fault, Before, Unsent, Seen

LEMMA ConfirmedStep ==
    ASSUME Types, Types', Branches, Split, Confirmed, Next
    PROVE  Confirmed'
<1>1. CASE runScenario
  <2>1. Flow /\ Order
    BY <1>1, RunFlow
  <2>2. pc' \in Seen => pc \in Seen \/ (pc = "applied" /\ Visible(Minority, height[Minority]))
    BY <2>1 DEF Order, Seen
  <2>3. Majority' = Majority /\ (Clean' => Clean)
    BY <2>1 DEF Flow, Majority, Clean
  <2> QED
    BY <2>1, <2>2, <2>3, SeenOnMinority DEF Flow, Confirmed
<1>2. CASE Network
  <2>0. UNCHANGED pc /\ (Clean' => Clean) /\ Majority' = Majority
    BY <1>2, NetworkFacts DEF Majority, Clean
  <2>1. SUFFICES ASSUME pc \in Seen PROVE Confirmed'
    BY <2>0 DEF Confirmed
  <2>2. pc \in Before /\ pc \notin Unsent
    BY <2>1 DEF Before, Seen, Unsent
  <2>3. CASE Bite
    <3>1. ~Clean
      BY <2>2, <2>3 DEF Bite, Split
    <3> QED
      BY <2>0, <2>1, <2>3, <3>1 DEF Confirmed, Bite
  <2>4. ASSUME NEW e \in EL, Grow(e) PROVE Confirmed'
    BY <2>0, <2>1, <2>4, GrowMines, Clients DEF Confirmed, Types
  <2> QED
    BY <1>2, <2>2, <2>3, <2>4, QuietBefore
<1> QED
  BY <1>1, <1>2 DEF Next

LEMMA WaitingStep ==
    ASSUME Types, Types', Split, Confirmed, Waiting, Next
    PROVE  Waiting'
<1>1. CASE runScenario
  <2>1. Flow /\ Order
    BY <1>1, RunFlow
  <2>2. SUFFICES ASSUME pc' = "held" PROVE Waiting'
    BY DEF Waiting
  <2>3. pc = "depth" /\ start' = Lowest(Majority)
    BY <2>1, <2>2 DEF Order
  <2>4. Majority' = Majority /\ pc \in Before /\ pc \in Seen
    BY <2>3 DEF Majority, Before, Seen
  <2>5. PICK o \in Majority : Lowest(Majority) = height[o]
    BY LowestFacts, Clients
  <2>6. \A e \in Majority : Lowest(Majority) <= height[e]
    BY LowestFacts, Clients
  <2>7. mined["B"] = 0 => mined["A"] # 0 /\ mined["A"] <= height[o] + 1
    BY <2>4 DEF Confirmed
  <2>8. fork["B"] <= height[o] + 1 /\ fork["C"] <= height[o] + 1
    BY <2>4 DEF Split
  <2> QED
    BY <2>1, <2>3, <2>4, <2>5, <2>6, <2>7, <2>8, Clients DEF Flow, Waiting, Types
<1>2. CASE Network
  <2>0. UNCHANGED <<pc, start>> /\ Majority' = Majority
    BY <1>2, NetworkFacts DEF Majority
  <2>1. SUFFICES ASSUME pc = "held" PROVE Waiting'
    BY <2>0 DEF Waiting
  <2>2. PICK e \in EL : Grow(e)
    BY <1>2, <2>1, QuietBefore DEF Bite, Early, Before, Seen
  <2>3. \A o \in EL : height[o] <= height'[o] /\ height[o] \in Nat /\ height'[o] \in Nat
    BY <2>2, GrowMines DEF Types
  <2>4. \A o \in Majority : start <= height'[o]
    BY <2>1, <2>3, Clients DEF Waiting, Types
  <2> QED
    BY <2>0, <2>1, <2>2, <2>4, GrowMines DEF Waiting, Types
<1> QED
  BY <1>1, <1>2 DEF Next

LEMMA BuriedStep ==
    ASSUME Types, Types', Split, Waiting, Buried, Next
    PROVE  Buried'
<1>1. CASE runScenario
  <2>1. Flow /\ Order
    BY <1>1, RunFlow
  <2>2. SUFFICES ASSUME pc' = "anchor" /\ Deep' PROVE Buried'
    BY DEF Buried
  <2>3. pc = "held" /\ Lowest(Majority) >= start + Depth /\ Majority' = Majority
    BY <2>1, <2>2 DEF Order, Deep, Majority
  <2>4. Lowest(Majority) \in Nat /\ \A e \in Majority : Lowest(Majority) <= height[e]
    BY LowestFacts, Clients
  <2>5. \A e \in Majority : start + Depth <= height[e]
    BY <2>3, <2>4, Clients, PbtScenarioAssumption DEF Types
  <2> QED
    BY <2>1, <2>3, <2>5, Clients, PbtScenarioAssumption DEF Flow, Waiting, Buried, Types
<1>2. CASE Network
  <2>0. UNCHANGED pc /\ Majority' = Majority /\ (Deep' => Deep)
    BY <1>2, NetworkFacts DEF Majority, Deep
  <2>1. SUFFICES ASSUME pc = "anchor" /\ Deep PROVE Buried'
    BY <2>0 DEF Buried
  <2>2. PICK e \in EL : Grow(e)
    BY <1>2, <2>1, QuietBefore DEF Bite, Early, Before, Seen
  <2>3. \A o \in EL : height[o] <= height'[o] /\ height[o] \in Nat /\ height'[o] \in Nat
    BY <2>2, GrowMines DEF Types
  <2>4. \A b \in {"A", "B", "C"} : mined[b] # 0 => mined'[b] = mined[b]
    BY <2>2, GrowMines
  <2>5. mined["B"] # 0 \/ mined["A"] # 0
    BY <2>1 DEF Buried
  <2>6. mined'["B"] = 0 => mined["B"] = 0 /\ mined'["A"] = mined["A"] /\ mined["A"] # 0
    BY <2>4, <2>5
  <2>7. UNCHANGED fork
    BY <2>2, GrowMines
  <2>8. \A o \in Majority : fork["B"] + Depth <= height'[o] + 1 /\ fork["C"] + Depth <= height'[o] + 1
    BY <2>1, <2>3, Clients, PbtScenarioAssumption DEF Buried, Types
  <2>9. mined["B"] = 0 => \A o \in Majority : mined["A"] + Depth <= height'[o] + 1
    BY <2>1, <2>3, Clients, PbtScenarioAssumption DEF Buried, Types
  <2> QED
    BY <2>0, <2>4, <2>5, <2>6, <2>7, <2>8, <2>9 DEF Buried
<1> QED
  BY <1>1, <1>2 DEF Next

-----------------------------------------------------------------------------
(* The anchor. *)

LEMMA AnchorTaken ==
    ASSUME Types, Branches, Split, pc = "anchor", want' = majorityTip, want' # None
    PROVE  /\ want'.n > 0 /\ want'.hash = <<"A", want'.n>>
           /\ \A e \in EL : branch[e] = "C" => want'.n <= fork["C"]
           /\ \A e \in Majority : want'.n <= height[e]
           /\ \E e \in Majority : want'.n = height[e] - TipMargin
           /\ lonely # {} /\ bite => \E e \in EL : branch[e] = "C"
<1> DEFINE n == Lowest(Majority) - TipMargin
<1>1. /\ want' = [n |-> n, hash |-> Block(Ref, n)] /\ n > 0
      /\ \A e \in Majority : Block(e, n) = Block(Ref, n)
  <2>1. ~(n <= 0 \/ \E e \in Majority : Block(e, n) # Block(Ref, n))
    BY Zenon DEF majorityTip
  <2>2. want' = [n |-> n, hash |-> Block(Ref, n)]
    BY <2>1, Zenon DEF majorityTip
  <2>3. Lowest(Majority) \in Nat
    BY LowestFacts, Clients
  <2>4. n > 0
    BY <2>1, <2>3, PbtScenarioAssumption
  <2> QED
    BY <2>1, <2>2, <2>4
<1>2. pc \in Before /\ Ref \in Majority /\ Majority \subseteq EL
  BY Clients DEF Before, Seen
<1>3. Lowest(Majority) \in Nat /\ (\A e \in Majority : Lowest(Majority) <= height[e])
      /\ \E e \in Majority : Lowest(Majority) = height[e]
  BY <1>2, LowestFacts
<1>4. /\ ~bite => \A e \in EL : branch[e] = "A"
      /\ bite => /\ Connected # {} /\ branch[Minority] = "B"
                 /\ \A e \in Majority : branch[e] = IF e \in lonely THEN "C" ELSE "A"
  BY <1>2 DEF Split
<1>5. \E o \in Majority : branch[o] = "A"
  BY <1>2, <1>4 DEF Connected, Types
<1>6. Block(Ref, n) = <<"A", n>>
  BY <1>1, <1>5 DEF Block
<1>7. \A e \in EL : branch[e] = "C" => n <= fork["C"]
  <2> TAKE e \in EL
  <2> HAVE branch[e] = "C"
  <2>1. e \in Majority
    BY DEF Branches, Types
  <2>2. Block(e, n) = <<"A", n>>
    BY <1>1, <1>6, <2>1
  <2>3. n \in Int /\ fork["C"] \in Nat
    BY <1>3, PbtScenarioAssumption DEF Types
  <2> QED
    BY <2>2, <2>3 DEF Block
<1>8. lonely # {} /\ bite => \E e \in EL : branch[e] = "C"
  BY <1>2, <1>4 DEF Types
<1>9. want'.n = n /\ want'.hash = <<"A", want'.n>>
  BY <1>1, <1>6
<1>10. \A e \in Majority : n <= height[e]
  BY <1>2, <1>3, PbtScenarioAssumption DEF Types
<1>11. \E e \in Majority : n = height[e] - TipMargin
  BY <1>3
<1> HIDE DEF n
<1> QED
  BY <1>1, <1>7, <1>8, <1>9, <1>10, <1>11

LEMMA AnchoredRun ==
    ASSUME Types, Types', Branches, Split, Confirmed, Anchored, runScenario
    PROVE  Anchored'
<1>1. Flow
  BY RunFlow
<1>2. Connected' = Connected /\ (Clean' => Clean)
  BY <1>1 DEF Flow, Connected, Majority, Clean
<1>4. CASE want' = want
  BY <1>1, <1>2, <1>4 DEF Flow, Anchored, None
<1>5. CASE want' # want /\ want' # None
  <2>1. pc = "anchor" /\ want' = majorityTip
    BY <1>1, <1>5 DEF Flow, None
  <2>2. pc \in Before /\ pc \in Seen /\ pc \notin Unsent
    BY <2>1 DEF Before, Seen, Unsent
  <2>3. /\ want'.n > 0 /\ want'.hash = <<"A", want'.n>>
        /\ \A e \in EL : branch[e] = "C" => want'.n <= fork["C"]
        /\ \A e \in Majority : want'.n <= height[e]
    BY <1>5, <2>1, AnchorTaken
  <2>4. Clean => mined["A"] = 0 /\ height[Minority] > fork["B"]
    BY <2>2 DEF Split, Confirmed
  <2>5. Clean /\ want'.n > fork["B"] => \A e \in EL : height[e] > fork["B"]
    <3>1. \A e \in EL : e = Minority \/ e \in Majority
      BY DEF Majority
    <3> QED
      BY <2>3, <2>4, <3>1 DEF Types
  <2> QED
    BY <1>1, <1>2, <2>3, <2>4, <2>5 DEF Flow, Anchored, Connected
<1> QED
  BY <1>4, <1>5 DEF Anchored, None

LEMMA AnchoredDeepRun ==
    ASSUME Depth >= TipMargin + 2,
           Types, Types', Branches, Split, Buried, AnchoredDeep, runScenario
    PROVE  AnchoredDeep'
<1>1. Flow
  BY RunFlow
<1>2. (Deep' => Deep) /\ (Clean' => Clean)
  BY <1>1 DEF Flow, Deep, Clean
<1>3. CASE want' = want
  BY <1>1, <1>2, <1>3 DEF Flow, AnchoredDeep, None
<1>4. CASE want' # want /\ want' # None /\ Deep
  <2>1. pc = "anchor" /\ want' = majorityTip /\ pc \in Before /\ pc \notin Unsent
    BY <1>1, <1>4 DEF Flow, None, Before, Seen, Unsent
  <2>2. /\ \A e \in EL : branch[e] = "C" => want'.n <= fork["C"]
        /\ lonely # {} /\ bite => \E e \in EL : branch[e] = "C"
    BY <1>4, <2>1, AnchorTaken
  <2>3. PICK o \in Majority : want'.n = height[o] - TipMargin
    BY <1>4, <2>1, AnchorTaken
  <2>4. /\ fork["B"] + Depth <= height[o] + 1 /\ fork["C"] + Depth <= height[o] + 1
        /\ mined["B"] = 0 => mined["A"] # 0 /\ mined["A"] + Depth <= height[o] + 1
    BY <1>4, <2>1 DEF Buried
  <2>5. want'.n > fork["B"] /\ want'.n > fork["C"] /\ (mined["B"] # 0 \/ mined["A"] \in 1..want'.n)
    BY <2>3, <2>4, Clients, PbtScenarioAssumption DEF Types
  <2>6. \A e \in EL : branch[e] # "C"
    BY <2>2, <2>5 DEF Types
  <2>7. lonely # {} => winner = "A" /\ \A e \in EL : branch[e] = "A"
    BY <2>1, <2>2, <2>6 DEF Split
  <2>8. Clean => mined["A"] = 0
    BY <2>1 DEF Split
  <2> QED
    BY <1>1, <1>2, <2>5, <2>6, <2>7, <2>8 DEF Flow, AnchoredDeep
<1> QED
  BY <1>2, <1>3, <1>4 DEF AnchoredDeep, None

(* Fork choice and growth leave the anchor where it was.  A transaction    *)
(* mined again is mined on top of the winner, at or above the anchor.      *)
LEMMA MinedAbove ==
    ASSUME Types, Branches, Anchored, want # None, Clean, sent,
           winner = "A" \/ (AnchoredDeep /\ Deep),
           NEW e \in EL, branch[e] = "A", height[e] = Highest("A")
    PROVE  want.n <= height[e]
<1>1. PICK o \in Connected : branch[o] = "A"
  <2>1. CASE winner = "A"
    <3>1. PICK o : o \in Connected
      BY DEF Branches
    <3> QED
      BY <2>1, <3>1, Clients DEF Branches, Types, Connected
  <2>2. CASE winner # "A"
    <3>1. lonely = {} /\ e # Minority
      BY <2>2 DEF AnchoredDeep, Branches, Types
    <3> QED
      BY <3>1 DEF Connected, Majority
  <2> QED
    BY <2>1, <2>2
<1>2. o \in EL /\ want.n <= height[o]
  BY <1>1, Clients DEF Anchored, Connected
<1>3. Highest("A") \in Nat /\ height[o] <= Highest("A")
  BY <1>1, <1>2, HighestFacts DEF On
<1> QED
  BY <1>2, <1>3 DEF Types

LEMMA UnwindFacts ==
    ASSUME Types, Branches, NEW e \in EL, Unwind(e)
    PROVE  /\ branch[e] # winner /\ Healed
           /\ \A o \in EL : branch'[o] = IF o = e THEN winner ELSE branch[o]
           /\ \E h \in Nat : h > fork["B"] /\ \A o \in EL : height'[o] = IF o = e THEN h ELSE height[o]
           /\ UNCHANGED <<fork, sent, mined, winner, fault, excuse>>
<1>1. /\ branch[e] # winner /\ branch' = [branch EXCEPT ![e] = winner] /\ Healed
      /\ UNCHANGED <<fork, sent, mined, winner, fault, excuse>>
  BY DEF Unwind, Rejoins, trouble
<1>2. PICK h \in (fork["B"] + 1)..Highest(winner) : height' = [height EXCEPT ![e] = h]
  BY DEF Unwind
<1>3. Highest(winner) \in Nat
  BY <1>1, WinnerExists, HighestFacts
<1>4. h \in Nat /\ h > fork["B"]
  BY <1>2, <1>3 DEF Types
<1> QED
  BY <1>1, <1>2, <1>4 DEF Types

LEMMA AnchoredNetwork ==
    ASSUME Types, Types', Branches, Split, Anchored, Network
    PROVE  Anchored'
<1>0. UNCHANGED <<pc, want, lonely>> /\ Connected' = Connected /\ (Clean' => Clean) /\ (Deep' => Deep)
  BY NetworkFacts DEF Connected, Majority, Clean, Deep
<1>1. SUFFICES ASSUME want # None PROVE Anchored'
  BY <1>0 DEF Anchored, None
<1>2. CASE Bite
  BY <1>1, <1>2, NetworkFacts DEF Split, Bite, Early
<1>3. CASE Usurp
  BY <1>0, <1>1, <1>3 DEF Usurp, Anchored
<1>4. ASSUME NEW e \in EL, Grow(e) PROVE Anchored'
  <2>1. /\ UNCHANGED <<branch, fork, winner, excuse>>
        /\ \A o \in EL : height[o] <= height'[o] /\ height[o] \in Nat /\ height'[o] \in Nat
    BY <1>4, GrowMines DEF Types
  <2>2. \/ mined' = mined
        \/ /\ sent /\ height[e] = Highest(branch[e])
           /\ mined' = [mined EXCEPT ![branch[e]] = height[e] + 1]
    BY <1>4, GrowMines
  <2>3. Clean /\ winner = "A" => mined'["A"] = 0 \/ mined'["A"] > want.n
    <3>1. CASE mined'["A"] = mined["A"]
      BY <1>1, <3>1 DEF Anchored
    <3>2. CASE mined'["A"] # mined["A"]
      <4>1. branch[e] = "A" /\ sent /\ height[e] = Highest("A") /\ mined'["A"] = height[e] + 1
        BY <2>2, <3>2 DEF Types
      <4> QED
        BY <1>1, <4>1, MinedAbove DEF Types
    <3> QED
      BY <3>1, <3>2
  <2>4. \A o \in Connected : branch[o] = "A" => want.n <= height'[o]
    BY <1>1, <2>1, Clients DEF Anchored, Connected, Types
  <2>5. Clean /\ want.n > fork["B"] => \A o \in EL : height'[o] > fork["B"]
    BY <1>1, <2>1 DEF Anchored, Types
  <2> QED
    BY <1>0, <1>1, <2>1, <2>3, <2>4, <2>5 DEF Anchored, Clean, Deep
<1>5. ASSUME NEW e \in EL, Unwind(e) PROVE Anchored'
  <2>1. /\ branch[e] # winner /\ UNCHANGED <<fork, sent, mined, winner, excuse>>
        /\ \A o \in EL : branch'[o] = IF o = e THEN winner ELSE branch[o]
    BY <1>5, UnwindFacts
  <2>2. PICK h \in Nat : h > fork["B"] /\ \A o \in EL : height'[o] = IF o = e THEN h ELSE height[o]
    BY <1>5, UnwindFacts
  <2>3. winner = "A" => e \notin Connected
    BY <2>1 DEF Branches, Connected, Majority, Types
  <2>4. \A o \in Connected : branch'[o] = "A" => want.n <= height'[o]
    BY <1>1, <2>1, <2>2, <2>3, Clients DEF Anchored, Connected
  <2>5. \A o \in EL : branch'[o] = "C" => branch[o] = "C"
    BY <2>1 DEF Types
  <2> QED
    BY <1>0, <1>1, <2>1, <2>2, <2>4, <2>5 DEF Anchored, Clean, Deep
<1>6. ASSUME NEW e \in EL, Fault(e) PROVE Anchored'
  BY <1>0, <1>1, <1>6 DEF Fault, Anchored
<1> QED
  BY <1>2, <1>3, <1>4, <1>5, <1>6 DEF Network

LEMMA AnchoredDeepNetwork ==
    ASSUME Types, Types', Branches, Split, Anchored, AnchoredDeep, Network
    PROVE  AnchoredDeep'
<1>0. UNCHANGED <<pc, want, lonely>> /\ (Clean' => Clean) /\ (Deep' => Deep)
  BY NetworkFacts DEF Clean, Deep
<1>1. SUFFICES ASSUME want # None, Deep PROVE AnchoredDeep'
  BY <1>0 DEF AnchoredDeep, None
<1>2. CASE Bite
  BY <1>1, <1>2, NetworkFacts DEF Split, Bite, Early
<1>3. CASE Usurp
  BY <1>0, <1>1, <1>3 DEF Usurp, AnchoredDeep, On
<1>4. ASSUME NEW e \in EL, Grow(e) PROVE AnchoredDeep'
  <2>1. /\ UNCHANGED <<branch, fork, winner>>
        /\ \A b \in {"A", "B", "C"} : mined[b] # 0 => mined'[b] = mined[b]
    BY <1>4, GrowMines
  <2>2. Clean => mined'["A"] = 0 \/ mined'["A"] > want.n
    <3>1. CASE mined'["A"] = mined["A"]
      BY <1>1, <3>1 DEF AnchoredDeep
    <3>2. CASE mined'["A"] # mined["A"]
      <4>1. branch[e] = "A" /\ sent /\ height[e] = Highest("A") /\ mined'["A"] = height[e] + 1
        BY <1>4, <3>2, GrowMines DEF Types
      <4> QED
        BY <1>1, <4>1, MinedAbove DEF Types
    <3> QED
      BY <3>1, <3>2
  <2> QED
    BY <1>0, <1>1, <2>1, <2>2 DEF AnchoredDeep
<1>5. ASSUME NEW e \in EL, Unwind(e) PROVE AnchoredDeep'
  <2>1. /\ branch[e] # winner /\ UNCHANGED <<fork, sent, mined, winner>>
        /\ \A o \in EL : branch'[o] = IF o = e THEN winner ELSE branch[o]
    BY <1>5, UnwindFacts
  <2> QED
    BY <1>0, <1>1, <2>1 DEF AnchoredDeep, Types
<1>6. ASSUME NEW e \in EL, Fault(e) PROVE AnchoredDeep'
  BY <1>0, <1>1, <1>6 DEF Fault, AnchoredDeep
<1> QED
  BY <1>2, <1>3, <1>4, <1>5, <1>6 DEF Network

-----------------------------------------------------------------------------
(* The verdict. *)

LEMMA AgreedStep ==
    ASSUME Types, Branches, Anchored, Agreed, Next
    PROVE  Agreed'
<1>1. CASE runScenario
  <2>1. Flow /\ Order
    BY <1>1, RunFlow
  <2>2. SUFFICES ASSUME pc' \in Reached PROVE Agreed'
    BY DEF Agreed
  <2>3. want' = want /\ (Clean' => Clean)
    BY <2>1, <2>2 DEF Flow, Reached, Clean
  <2>4. CASE pc \in Reached
    BY <2>1, <2>3, <2>4 DEF Agreed, Flow, None
  <2>5. CASE pc \notin Reached
    <3> DEFINE n == Lowest(EL)
    <3>1. want # None /\ \A e \in EL : Block(e, n) = Block(Ref, n)
      BY <2>1, <2>2, <2>5 DEF Order, Reached
    <3>2. SUFFICES ASSUME winner = "A", Clean, want.n > fork["B"], NEW e \in EL, branch[e] = "B"
                   PROVE  FALSE
      BY <2>1, <2>3, <3>1 DEF Agreed, Flow, None
    <3>3. \A o \in EL : height[o] > fork["B"]
      BY <3>1, <3>2 DEF Anchored
    <3>4. PICK o \in EL : n = height[o]
      BY LowestFacts, Clients
    <3>5. n > fork["B"]
      BY <3>3, <3>4
    <3>6. branch[Ref] # "B" /\ Ref \in EL
      BY <3>2, Clients DEF Branches
    <3>7. Block(e, n) = <<"B", n>>
      BY <3>2, <3>5 DEF Block
    <3>8. Block(Ref, n) = <<"C", n>> \/ Block(Ref, n) = <<"A", n>>
      BY <3>6 DEF Block, Types
    <3>9. Block(e, n) = Block(Ref, n)
      BY <3>1
    <3> HIDE DEF n
    <3> QED
      BY <3>7, <3>8, <3>9
  <2> QED
    BY <2>4, <2>5
<1>2. CASE Network
  <2>0. UNCHANGED <<pc, want>> /\ (Clean' => Clean)
    BY <1>2, NetworkFacts DEF Clean
  <2>1. SUFFICES ASSUME pc \in Reached PROVE Agreed'
    BY <2>0 DEF Agreed
  <2>2. ~Bite /\ ~Usurp
    BY <2>1 DEF Bite, Usurp, Early, Reached
  <2>3. ASSUME NEW e \in EL, Grow(e) \/ Fault(e) PROVE Agreed'
    BY <2>0, <2>3, GrowMines DEF Agreed, Fault, None
  <2>4. ASSUME NEW e \in EL, Unwind(e) PROVE Agreed'
    BY <2>0, <2>4, UnwindFacts DEF Agreed, None
  <2> QED
    BY <1>2, <2>2, <2>3, <2>4 DEF Network
<1> QED
  BY <1>1, <1>2 DEF Next

(* With the winner settled and no leak, every client's block at the anchor *)
(* is on the winner's branch, and the transaction is on nobody's.          *)
LEMMA NoMismatch ==
    ASSUME Types, Branches, Anchored, Agreed, Clean, winner = "A", pc \in Reached, NEW e \in EL
    PROVE  /\ Block(e, want.n) = want.hash
           /\ Visible(e, want.n) => fault[e] = "keeps"
<1>1. /\ want.hash = <<"A", want.n>> /\ (branch[e] = "C" => want.n <= fork["C"])
      /\ mined["A"] = 0 \/ mined["A"] > want.n
      /\ branch[e] = "B" => want.n <= fork["B"]
  BY DEF Anchored, Agreed, Types
<1>2. Block(e, want.n) = want.hash
  BY <1>1 DEF Block, Types
<1>3. ASSUME NEW b \in {"A", "B", "C"}, mined[b] \in 1..want.n, Block(e, mined[b]) = <<b, mined[b]>>
      PROVE  FALSE
  <2>1. b # "A"
    BY <1>1, <1>3 DEF Types
  <2>2. branch[e] = b
    BY <1>3, <2>1 DEF Block
  <2>3. mined[b] > fork[b]
    BY <1>3, <2>1 DEF Branches, Types
  <2> QED
    BY <1>1, <1>3, <2>1, <2>2, <2>3 DEF Types
<1>4. Visible(e, want.n) => fault[e] = "keeps"
  BY <1>3 DEF Visible, Types
<1> QED
  BY <1>2, <1>4

LEMMA MismatchedStep ==
    ASSUME Types, Branches, Anchored, Agreed, Mismatched, Next
    PROVE  Mismatched'
<1>1. CASE runScenario
  <2>1. Flow /\ Spoken /\ outcome # "FINDING"
    BY <1>1, RunFlow DEF Flow, Types
  <2>2. SUFFICES ASSUME excuse' \subseteq {"shallow"}, outcome' = "FINDING"
                 PROVE  \E e \in EL : fault[e] \in {"keeps", "usurps"}
    BY <2>1 DEF Mismatched, MismatchIsEarned, Flow
  <2>3. Clean
    BY <2>1, <2>2 DEF Flow, Clean
  <2>4. \/ pc = "branch" /\ \E e \in EL : Block(e, want.n) # want.hash
        \/ pc = "gone" /\ \E e \in EL : Visible(e, want.n)
    BY <2>1, <2>2 DEF Spoken
  <2>5. CASE winner = "A"
    BY <2>3, <2>4, <2>5, NoMismatch DEF Reached
  <2>6. CASE winner = "B"
    BY <2>6, Clients DEF Branches
  <2> QED
    BY <2>5, <2>6 DEF Types
<1>2. CASE Network
  BY <1>2, NetworkFacts DEF Mismatched, MismatchIsEarned, Types
<1> QED
  BY <1>1, <1>2 DEF Next

LEMMA UnwoundStep ==
    ASSUME Types, Branches, Anchored, AnchoredDeep, Agreed, Unwound, Next
    PROVE  Unwound'
<1>1. CASE runScenario
  <2>1. Flow /\ Order
    BY <1>1, RunFlow
  <2>2. SUFFICES ASSUME pc' = "gone", Deep' PROVE winner = "A" /\ \A e \in EL : branch[e] = "A"
    BY <2>1 DEF Unwound, Flow
  <2>3. pc \in Reached /\ Deep /\ want # None /\ \A e \in EL : Block(e, want.n) = want.hash
    BY <2>1, <2>2 DEF Flow, Order, Deep, Agreed
  <2>4. want.hash = <<"A", want.n>> /\ want.n > fork["B"] /\ \A e \in EL : branch[e] # "C"
    BY <2>3 DEF Anchored, AnchoredDeep
  <2>5. ASSUME NEW e \in EL, branch[e] = "B" PROVE FALSE
    <3>1. Block(e, want.n) = <<"B", want.n>>
      BY <2>4, <2>5 DEF Block
    <3>2. Block(e, want.n) = <<"A", want.n>>
      BY <2>3, <2>4, Zenon
    <3> QED
      BY <3>1, <3>2
  <2> QED
    BY <2>4, <2>5, Clients DEF Branches, Types
<1>2. CASE Network
  <2>0. UNCHANGED <<pc, want>> /\ (Deep' => Deep)
    BY <1>2, NetworkFacts DEF Deep
  <2>1. SUFFICES ASSUME pc = "gone", Deep PROVE Unwound'
    BY <2>0 DEF Unwound
  <2>2. winner = "A" /\ (\A e \in EL : branch[e] = "A") /\ ~Bite /\ ~Usurp
    BY <2>1 DEF Unwound, Bite, Usurp, Early
  <2>3. ASSUME NEW e \in EL, Grow(e) \/ Fault(e) \/ Unwind(e) PROVE UNCHANGED <<branch, winner>>
    BY <2>2, <2>3, GrowMines, UnwindFacts DEF Fault
  <2> QED
    BY <1>2, <2>2, <2>3 DEF Network, Unwound
<1> QED
  BY <1>1, <1>2 DEF Next

LEMMA OkStep ==
    ASSUME Types, Branches, Anchored, AnchoredDeep, Agreed, Unwound, OkMeansUnwound, Next
    PROVE  OkMeansUnwound'
<1>1. CASE runScenario
  <2>1. Flow /\ Spoken /\ outcome # "ok"
    BY <1>1, RunFlow DEF Flow, Types
  <2>2. SUFFICES ASSUME outcome' = "ok", Deep'
                 PROVE  mined["B"] # 0 /\ \A e \in EL : branch[e] = "A" /\ fault[e] # "keeps"
    BY <2>1 DEF OkMeansUnwound, Flow, Deep
  <2>3. Deep /\ pc = "gone" /\ want # None /\ \A e \in EL : ~Visible(e, want.n)
    BY <2>1, <2>2 DEF Flow, Spoken, Deep, Agreed, Reached
  <2>4. (\A e \in EL : branch[e] = "A") /\ want.n > fork["B"] /\ (mined["B"] # 0 \/ mined["A"] \in 1..want.n)
    BY <2>3 DEF Unwound, AnchoredDeep
  <2>5. mined["A"] \notin 1..want.n
    <3>1. Ref \in EL /\ Block(Ref, mined["A"]) = <<"A", mined["A"]>>
      BY <2>4, Clients DEF Block
    <3> QED
      BY <2>3, <3>1 DEF Visible, Types
  <2>6. \A e \in EL : fault[e] # "keeps"
    BY <2>3, <2>4, <2>5 DEF Visible, Types
  <2> QED
    BY <2>4, <2>5, <2>6
<1>2. CASE Network
  BY <1>2, NetworkFacts DEF OkMeansUnwound, Types
<1> QED
  BY <1>1, <1>2 DEF Next

-----------------------------------------------------------------------------
(* Whatever the depth: IInv holds throughout. *)
LEMMA IInvHolds == Spec => []IInv
<1>1. Init => IInv
  BY InitIInv
<1>2. IInv /\ [Next]_vars => IInv'
  <2>1. ASSUME IInv, Next PROVE IInv'
    <3>1. Types /\ Branches /\ Split /\ Confirmed /\ Waiting /\ Buried /\ Anchored /\ Agreed /\ Mismatched
      BY <2>1 DEF IInv
    <3>2. Types'
      BY <2>1, <3>1, TypesStep
    <3>3. Branches' /\ Split' /\ Confirmed' /\ Waiting' /\ Buried'
      BY <2>1, <3>1, <3>2, BranchesStep, SplitStep, ConfirmedStep, WaitingStep, BuriedStep
    <3>4. Anchored'
      BY <2>1, <3>1, <3>2, AnchoredRun, AnchoredNetwork DEF Next
    <3>5. Agreed' /\ Mismatched'
      BY <2>1, <3>1, AgreedStep, MismatchedStep
    <3> QED
      BY <3>2, <3>3, <3>4, <3>5 DEF IInv
  <2>2. ASSUME IInv, UNCHANGED vars PROVE IInv'
    <3>1. UNCHANGED <<pc, outcome, want, start, bite, branch, height, fork, lonely, sent, mined, winner,
                      fault, excuse>>
      BY <2>2 DEF vars, verdict, rules, chain, trouble
    <3>2. Types' /\ Branches' /\ Split' /\ Confirmed' /\ Waiting' /\ Buried'
      BY <2>2, <3>1 DEF IInv, Types, Branches, Split, Confirmed, Waiting, Buried, Majority, Connected,
         Clean, Deep
    <3>3. Anchored' /\ Agreed' /\ Mismatched'
      BY <2>2, <3>1 DEF IInv, Anchored, Agreed, Mismatched, MismatchIsEarned, Majority, Connected,
         Clean, None
    <3> QED
      BY <3>2, <3>3 DEF IInv
  <2> QED
    BY <2>1, <2>2
<1> QED
  BY <1>1, <1>2, PTL DEF Spec

(* A FINDING is a client's doing: a client kept the doomed state, or fork  *)
(* choice kept the other branch.  checkBranch and checkGone never blame a  *)
(* network that reconverged, even on an anchor that was not waited for.    *)
THEOREM MismatchesAreEarned == Spec => [](excuse \subseteq {"shallow"} => MismatchIsEarned)
<1>1. IInv => (excuse \subseteq {"shallow"} => MismatchIsEarned)
  BY DEF IInv, Mismatched
<1> QED
  BY <1>1, IInvHolds, PTL

(* With a depth that clears the tip's margin, IDeep holds with it. *)
LEMMA IDeepHolds ==
    ASSUME Depth >= TipMargin + 2
    PROVE  Spec => []IDeep
<1>1. Init => IDeep
  BY InitIInv
<1>2. IInv /\ IInv' /\ IDeep /\ [Next]_vars => IDeep'
  <2>1. ASSUME IInv, IInv', IDeep, Next PROVE IDeep'
    <3>1. /\ Types /\ Types' /\ Branches /\ Split /\ Buried /\ Anchored /\ Agreed
          /\ AnchoredDeep /\ Unwound /\ OkMeansUnwound
      BY <2>1 DEF IInv, IDeep
    <3>2. AnchoredDeep'
      BY <2>1, <3>1, AnchoredDeepRun, AnchoredDeepNetwork DEF Next
    <3>3. Unwound' /\ OkMeansUnwound'
      BY <2>1, <3>1, UnwoundStep, OkStep
    <3> QED
      BY <3>2, <3>3 DEF IDeep
  <2>2. ASSUME IDeep, UNCHANGED vars PROVE IDeep'
    BY <2>2 DEF IDeep, AnchoredDeep, Unwound, OkMeansUnwound, Clean, Deep, None,
       vars, verdict, chain, trouble
  <2> QED
    BY <2>1, <2>2
<1> QED
  BY <1>1, <1>2, IInvHolds, PTL DEF Spec

(* verdict.go's ok: whatever was cut, leaked, mined twice or kept, and in  *)
(* whatever order the clients came back, ok is said only of a transaction  *)
(* that was on the dead branch and that no client has any trace of.        *)
THEOREM OkIsUnwound ==
    ASSUME Depth >= TipMargin + 2
    PROVE  Spec => []OkMeansUnwound
<1>1. IDeep => OkMeansUnwound
  BY DEF IDeep
<1> QED
  BY <1>1, IDeepHolds, PTL

(* majorityTip, read after waitBlocks: the anchor is above the fork, and   *)
(* stays below any block in which the transaction comes back.              *)
THEOREM AnchorTells ==
    ASSUME Depth >= TipMargin + 2
    PROVE  Spec => []AnchorTellsThemApart
<1>1. IDeep => AnchorTellsThemApart
  BY DEF IDeep, AnchoredDeep, AnchorTellsThemApart, Clean, Deep
<1> QED
  BY <1>1, IDeepHolds, PTL

-----------------------------------------------------------------------------
(* Types, with the bounds: every counter of the scenario stays in its      *)
(* range. *)
Outcomes == {"running", "skipped", "error", "inconclusive", "finding", "FINDING", "ok"}

Concluded ==
    /\ outcome \in Outcomes /\ (outcome = "running" => pc # "done")
    /\ cut \in BOOLEAN /\ frozen \subseteq EL /\ fails \in 0..MaxFails

Tracked == last \in [EL -> 0..Unseen] /\ stuck \in [EL -> 0..WedgeTicks]

Placed ==
    /\ start \in 0..MaxHeight /\ want.n \in 0..MaxHeight
    /\ fork \in [{"B", "C"} -> 0..MaxHeight] /\ mined \in [{"A", "B", "C"} -> 0..MaxHeight]

Ranges == Concluded /\ Tracked /\ Placed

LEMMA Bounds ==
    /\ {MinHeight, Depth, TipMargin, WedgeTicks, MaxHeight, MaxFails} \subseteq Nat
    /\ 0 \in 0..MaxHeight /\ Unseen \in 0..Unseen /\ 0 \in 0..WedgeTicks /\ 0 \in 0..MaxFails
    /\ 0..MaxHeight \subseteq 0..Unseen
BY PbtScenarioAssumption DEF Unseen

LEMMA LowestIsAHeight ==
    ASSUME Types, NEW S, S \subseteq EL, S # {}
    PROVE  Lowest(S) \in 0..MaxHeight
<1>1. PICK o \in S : Lowest(S) = height[o]
  BY LowestFacts
<1> QED
  BY <1>1 DEF Types

LEMMA InitRanges == Init => Ranges
<1> SUFFICES ASSUME Init PROVE Ranges
  OBVIOUS
<1>1. cut \in BOOLEAN
  BY Zenon DEF Init
<1>2. Concluded
  BY <1>1, Bounds DEF Init, Concluded, Outcomes
<1>3. Tracked
  BY Bounds DEF Init, Tracked
<1>4. Placed
  BY Bounds DEF Init, Placed, None
<1> QED
  BY <1>2, <1>3, <1>4 DEF Ranges

(* One round of samples: a client's stall is counted up to WedgeTicks, and *)
(* a failed answer is one of the calls that may fail. *)
LEMMA ObserveTyped ==
    ASSUME Types, Tracked, NEW S, observe(S)
    PROVE  Tracked'
<1>1. last' \in [EL -> 0..Unseen]
  BY Bounds DEF observe, Tracked, Types
<1>2. \A e \in EL : Counted(stuck[e]) \in 0..WedgeTicks
  BY Bounds DEF Counted, Tracked
<1>3. stuck' \in [EL -> 0..WedgeTicks]
  BY <1>2, Bounds DEF observe, Tracked
<1> QED
  BY <1>1, <1>3 DEF Tracked, Unseen

LEMMA NoTrackerTyped ==
    ASSUME NoTracker
    PROVE  Tracked'
BY Bounds DEF NoTracker, Tracked, Unseen

LEMMA ChargedTyped ==
    ASSUME fails \in 0..MaxFails, NEW S \in Samples, Charged(S)
    PROVE  fails' \in 0..MaxFails
BY Bounds DEF Samples, Charged

LEMMA FailingTyped ==
    ASSUME fails \in 0..MaxFails, Failing
    PROVE  fails' \in 0..MaxFails
BY Bounds DEF Failing

(* Before the heal nothing is tracked and nobody is frozen. *)
EarlySteps ==
    \/ Young \/ Refused \/ Mesh \/ Setup \/ Partition
    \/ awaitDivergence \/ Apply \/ NotApplied \/ Confined \/ Held \/ Anchor \/ Clear \/ Cancelled

LEMMA EarlyConcluded ==
    ASSUME Concluded, EarlySteps
    PROVE  Concluded' /\ UNCHANGED tracker
<1> USE DEF EarlySteps, Young, Refused, Mesh, Setup, Partition, awaitDivergence, Apply, NotApplied,
        Confined, Held, Anchor, Clear, Cancelled, Look, Waited, Step, healQuietly, Concludes,
        verdict, rules, trouble
<1>1. UNCHANGED <<tracker, frozen>>
  OBVIOUS
<1>2. cut' = cut \/ cut' \in BOOLEAN
  OBVIOUS
<1>3. fails' = fails \/ Failing
  OBVIOUS
<1>4. \/ outcome' = outcome /\ pc' # "done"
      \/ outcome' \in {"skipped", "error", "inconclusive", "finding"} /\ pc' = "done"
  OBVIOUS
<1>5. cut' \in BOOLEAN
  BY <1>2, Zenon DEF Concluded
<1>6. fails' \in 0..MaxFails
  BY <1>3, FailingTyped DEF Concluded
<1>7. outcome' \in Outcomes /\ (outcome' = "running" => pc' # "done")
  BY <1>4 DEF Concluded, Outcomes
<1> QED
  BY <1>1, <1>5, <1>6, <1>7 DEF Concluded

LEMMA LateConcluded ==
    ASSUME Types, Concluded, Tracked,
           waitAgreement \/ agreed \/ awaitHeight \/ Classify \/ CheckBranch \/ checkGone
    PROVE  Concluded' /\ Tracked'
<1>1. CASE waitAgreement
  <2>1. PICK S \in Samples : observe(S) /\ Charged(S)
    BY <1>1 DEF waitAgreement
  <2>2. Tracked' /\ fails' \in 0..MaxFails
    BY <2>1, ObserveTyped, ChargedTyped DEF Concluded
  <2>3. frozen' \subseteq EL
    BY <1>1 DEF waitAgreement, Frozen
  <2> QED
    BY <1>1, <2>2, <2>3 DEF waitAgreement, Concluded, rules
<1>2. CASE agreed
  <2>1. fails' \in 0..MaxFails
    BY <1>2, FailingTyped DEF agreed, Concluded
  <2>2. Tracked'
    BY <1>2, NoTrackerTyped DEF agreed, Tracked, tracker, Unseen
  <2>3. outcome' \in Outcomes /\ (outcome' = "running" => pc' # "done")
    BY <1>2 DEF agreed, Types, Outcomes
  <2> QED
    BY <1>2, <2>1, <2>2, <2>3 DEF agreed, Concluded, rules
<1>3. CASE awaitHeight
  <2>1. PICK S \in Samples, T \in Samples :
           /\ S = EL \/ T = EL
           /\ Charged(S \cap T)
           /\ \/ NoTracker /\ UNCHANGED frozen
              \/ observe(S) /\ (UNCHANGED frozen \/ frozen' \subseteq Frozen(stuck'))
    BY <1>3 DEF awaitHeight
  <2>2. S \cap T \in Samples
    BY <2>1 DEF Samples
  <2>3. fails' \in 0..MaxFails
    BY <2>1, <2>2, ChargedTyped DEF Concluded
  <2>4. Tracked' /\ frozen' \subseteq EL
    BY <2>1, NoTrackerTyped, ObserveTyped DEF Frozen, Concluded
  <2>5. UNCHANGED <<outcome, cut>> /\ pc' # "done"
    BY <1>3 DEF awaitHeight, rules
  <2> QED
    BY <2>3, <2>4, <2>5 DEF Concluded
<1>4. CASE Classify
  <2>1. PICK S \in Samples : Charged(S)
    BY <1>4 DEF Classify
  <2>2. fails' \in 0..MaxFails /\ Tracked'
    BY <1>4, <2>1, ChargedTyped, NoTrackerTyped DEF Classify, Concluded
  <2>3. outcome' \in {"finding", "inconclusive"} /\ UNCHANGED <<frozen, cut>>
    BY <1>4 DEF Classify, rules
  <2> QED
    BY <2>2, <2>3 DEF Concluded, Outcomes
<1>5. CASE CheckBranch
  <2>1. PICK S \in Samples : Charged(S)
    BY <1>5 DEF CheckBranch
  <2>2. fails' \in 0..MaxFails
    BY <2>1, ChargedTyped DEF Concluded
  <2>3. UNCHANGED <<frozen, cut, last, stuck>>
    BY <1>5 DEF CheckBranch, rules, tracker
  <2>4. \/ outcome' = "FINDING"
        \/ outcome' = outcome /\ pc' = "gone"
    BY <1>5 DEF CheckBranch
  <2> QED
    BY <2>2, <2>3, <2>4 DEF Concluded, Outcomes, Tracked, Unseen
<1>6. CASE checkGone
  <2>1. PICK S \in Samples : Charged(S)
    BY <1>6 DEF checkGone
  <2>2. fails' \in 0..MaxFails
    BY <2>1, ChargedTyped DEF Concluded
  <2>3. UNCHANGED <<frozen, cut, last, stuck>> /\ outcome' \in {"ok", "FINDING"}
    BY <1>6 DEF checkGone, rules, tracker
  <2> QED
    BY <2>2, <2>3 DEF Concluded, Outcomes, Tracked, Unseen
<1> QED
  BY <1>1, <1>2, <1>3, <1>4, <1>5, <1>6

LEMMA PlacedStep ==
    ASSUME Types, Placed, Next
    PROVE  Placed'
<1>1. CASE runScenario
  <2>1. Flow /\ Order /\ Spoken
    BY <1>1, RunFlow
  <2>2. Lowest(EL) \in 0..MaxHeight /\ Lowest(Majority) \in 0..MaxHeight
    BY LowestIsAHeight, Clients
  <2>3. majorityTip.n \in 0..MaxHeight /\ None.n \in 0..MaxHeight
    BY <2>2, Bounds DEF majorityTip, None
  <2>4. start' \in 0..MaxHeight /\ want'.n \in 0..MaxHeight
    BY <2>1, <2>2, <2>3, Bounds DEF Flow, Spoken, Placed
  <2> QED
    BY <2>1, <2>4 DEF Flow, Placed
<1>2. CASE Network
  <2>0. UNCHANGED <<start, want, lonely>>
    BY <1>2 DEF Network, verdict
  <2>1. CASE Bite
    <3>1. /\ fork' \in [{"B", "C"} -> Nat] /\ fork'["B"] = height[Minority]
          /\ fork'["C"] = 0 \/ \E e \in lonely : fork'["C"] = height[e]
          /\ mined' = mined
      BY <2>0, <2>1, BiteFacts
    <3>2. \A b \in {"B", "C"} : fork'[b] \in 0..MaxHeight
      BY <3>1, Bounds, Clients DEF Types
    <3>3. fork' \in [{"B", "C"} -> 0..MaxHeight]
      BY <3>1, <3>2
    <3> QED
      BY <2>0, <3>1, <3>3 DEF Placed
  <2>2. CASE Usurp
    BY <2>0, <2>2 DEF Usurp, Placed
  <2>3. ASSUME NEW e \in EL, Grow(e) PROVE Placed'
    <3>1. height[e] + 1 \in 0..MaxHeight
      BY <2>3, Bounds DEF Grow, Types
    <3>2. \/ mined' = mined
          \/ mined' = [mined EXCEPT ![branch[e]] = height[e] + 1]
      BY <2>3 DEF Grow
    <3> QED
      BY <2>0, <2>3, <3>1, <3>2 DEF Grow, Placed
  <2>4. ASSUME NEW e \in EL, Unwind(e) PROVE Placed'
    BY <2>0, <2>4 DEF Unwind, Placed
  <2>5. ASSUME NEW e \in EL, Fault(e) PROVE Placed'
    BY <2>0, <2>5 DEF Fault, Placed
  <2> QED
    BY <1>2, <2>1, <2>2, <2>3, <2>4, <2>5 DEF Network
<1> QED
  BY <1>1, <1>2 DEF Next

LEMMA RangesStep ==
    ASSUME Types, Ranges, [Next]_vars
    PROVE  Ranges'
<1> Concluded /\ Tracked /\ Placed
  BY DEF Ranges
<1>1. CASE UNCHANGED vars
  BY <1>1 DEF vars, verdict, tracker, rules, chain, trouble, Ranges, Concluded, Tracked, Placed,
     Unseen
<1>2. CASE Network
  <2>1. UNCHANGED <<pc, verdict, tracker, cut, fails>>
    BY <1>2 DEF Network, Bite, Usurp, Grow, Unwind, Fault, trouble
  <2> QED
    BY <1>2, <2>1, PlacedStep DEF Next, Ranges, Concluded, Tracked, verdict, tracker, Unseen
<1>3. CASE EarlySteps
  <2>1. Concluded' /\ UNCHANGED tracker
    BY <1>3, EarlyConcluded
  <2>2. runScenario
    BY <1>3 DEF EarlySteps, runScenario
  <2> QED
    BY <2>1, <2>2, PlacedStep DEF Next, Ranges, Tracked, tracker, Unseen
<1>4. CASE waitAgreement \/ agreed \/ awaitHeight \/ Classify \/ CheckBranch \/ checkGone
  <2>1. runScenario
    BY <1>4 DEF runScenario
  <2> QED
    BY <1>4, <2>1, LateConcluded, PlacedStep DEF Next, Ranges
<1> QED
  BY <1>1, <1>2, <1>3, <1>4 DEF Next, runScenario, EarlySteps

(* The type invariant of the scenario and its chain. *)
THEOREM ScenarioTypeCorrect == Spec => []TypeOK
<1>1. IInv /\ Ranges /\ [Next]_vars => Ranges'
  BY RangesStep DEF IInv
<1>2. IInv /\ Ranges => TypeOK
  <2> SUFFICES ASSUME Types, Ranges PROVE TypeOK
    BY DEF IInv
  <2>1. (outcome = "running") = (pc # "done")
    BY DEF Types, Ranges, Concluded
  <2>2. {cut, bite, sent} \subseteq BOOLEAN
    BY Zenon DEF Types, Ranges, Concluded
  <2> QED
    BY <2>1, <2>2 DEF Types, Ranges, Concluded, Tracked, Placed, Outcomes, TypeOK
<1> QED
  BY <1>1, <1>2, InitRanges, IInvHolds, PTL DEF Spec

-----------------------------------------------------------------------------
(* Stalls.  A client is frozen when WedgeTicks rounds found it standing    *)
(* still while another moved.  Looks are five seconds apart, so a healthy  *)
(* client that stands still is at the top of the winning branch (AtTop),   *)
(* and the others have only so much left to catch up with it (Lag): each   *)
(* round they move in takes some of it, unless their answer was lost, and  *)
(* a lost answer is a failed call.  A healthy client's stall is thus at    *)
(* most two more than the calls that failed (Catching).                    *)

Well(e)  == fault[e] \in {"none", "keeps"}
Known(e) == last[e] # Unseen

(* Nobody is at fault but for want of peers. *)
Innocent == excuse \subseteq {"shallow"} /\ \A e \in EL : Well(e) \/ fault[e] = "starved"

AtTop(e) ==
    /\ Known(e) /\ last[e] = height[e] /\ branch[e] = winner
    /\ \A o \in EL : branch[o] = winner => height[o] <= height[e]

(* The rounds in which p may still be seen to move, the winner being at h. *)
Lag(p, h) ==
    IF ~Known(p) THEN IF Well(p) THEN 3 ELSE 0
    ELSE IF ~Well(p) THEN IF last[p] < height[p] THEN 1 ELSE 0
    ELSE IF branch[p] # winner \/ height[p] < last[p] \/ last[p] + 1 < h THEN 2
    ELSE IF last[p] < h THEN 1 ELSE 0

Patient  == Innocent => \A e \in EL : Well(e) => stuck[e] <= fails + 2

Restless ==
    Innocent => \A e \in EL :
        Well(e) /\ (~Known(e) \/ branch[e] # winner \/ height[e] < last[e]) => stuck[e] = 0

Catching ==
    Innocent => \A e, p \in EL :
        Well(e) /\ AtTop(e) => stuck[e] + Lag(p, last[e]) <= fails + 2

(* Only a failed answer leaves one client unseen and another seen. *)
Answered == (\E e \in EL : Known(e)) /\ (\E e \in EL : ~Known(e)) => fails >= 1

Untracked == pc \in Before => \A e \in EL : ~Known(e) /\ stuck[e] = 0

Suspected ==
    /\ pc \in {"classify", "lagging"} /\ Innocent => \A e \in frozen : Well(e) => WedgeTicks <= fails + 2
    /\ pc = "classify" /\ frozen = {} => Late

Fed == \A e \in EL : fault[e] = "fed" => "fed" \in excuse

Stalled == excuse \subseteq {"shallow"} /\ fails + 2 < WedgeTicks => StallIsEarned

Tracking == Patient /\ Restless /\ Catching /\ Answered

IStall == Tracking /\ Untracked /\ Suspected /\ Fed /\ Stalled

Counts ==
    /\ Types /\ Tracked /\ Concluded /\ MaxHeight \in Nat

LEMMA CountFacts ==
    ASSUME Counts
    PROVE  /\ \A e \in EL : /\ last[e] \in Nat /\ stuck[e] \in Nat /\ height[e] \in Nat
                            /\ height[e] < Unseen /\ last[e] <= Unseen
           /\ fails \in Nat /\ Unseen \in Nat /\ WedgeTicks \in Nat
BY Bounds DEF Counts, Types, Tracked, Concluded, Unseen

LEMMA LagFacts ==
    ASSUME NEW p \in EL, NEW h
    PROVE  Lag(p, h) \in 0..3 /\ (Lag(p, h) = 3 => Well(p) /\ ~Known(p))
BY DEF Lag

LEMMA InitStall ==
    ASSUME Init
    PROVE  IStall
<1>1. \A e \in EL : ~Known(e) /\ stuck[e] = 0 /\ fault[e] = "none"
  BY DEF Init, Known
<1>2. fails = 0 /\ outcome = "running" /\ pc = "begin"
  BY DEF Init
<1> QED
  BY <1>1, <1>2 DEF IStall, Tracking, Patient, Restless, Catching, AtTop, Answered, Untracked,
     Suspected, Fed, Stalled, StallIsEarned

(* Nothing is tracked: nothing to show. *)
LEMMA FreshTracking ==
    ASSUME fails' \in Nat, \A e \in EL : ~Known(e)' /\ stuck'[e] = 0
    PROVE  Tracking'
BY DEF Tracking, Patient, Restless, Catching, AtTop, Answered

(* A step that leaves the chains and the tracker alone. *)
LEMMA SameTracking ==
    ASSUME Counts, Counts', Tracking, fails <= fails', excuse \subseteq excuse',
           UNCHANGED <<branch, height, winner, fault, last, stuck>>
    PROVE  Tracking'
<1>1. /\ Innocent' => Innocent
      /\ \A e \in EL : Well(e)' = Well(e) /\ Known(e)' = Known(e) /\ AtTop(e)' = AtTop(e)
      /\ \A e, p \in EL : Lag(p, last[e])' = Lag(p, last[e])
  BY DEF Innocent, Well, Known, AtTop, Lag, Unseen
<1>2. fails \in Nat /\ fails' \in Nat /\ \A e \in EL : stuck[e] \in Nat
  BY CountFacts DEF Counts, Concluded
<1>3. Patient'
  BY <1>1, <1>2 DEF Tracking, Patient
<1>4. Restless'
  BY <1>1 DEF Tracking, Restless
<1>5. Catching'
  <2> SUFFICES ASSUME Innocent', NEW e \in EL, NEW p \in EL, Well(e)', AtTop(e)'
               PROVE  stuck'[e] + Lag(p, last[e])' <= fails' + 2
    BY DEF Catching
  <2>1. stuck[e] + Lag(p, last[e]) <= fails + 2
    BY <1>1 DEF Tracking, Catching
  <2> QED
    BY <1>1, <1>2, <2>1, LagFacts
<1>6. Answered'
  BY <1>1, <1>2 DEF Tracking, Answered
<1> QED
  BY <1>3, <1>4, <1>5, <1>6 DEF Tracking

(* A well client that was seen is within a block of the winner's highest,  *)
(* and there if it stands still. *)
LEMMA PromptFacts ==
    ASSUME Counts, Innocent, Prompt, Healed, NEW e \in EL, Well(e), Known(e)
    PROVE  /\ branch[e] = winner
           /\ \A o \in EL : branch[o] = winner => height[o] <= height[e] + 1
           /\ last[e] = height[e] => AtTop(e)
<1>1. ~Stands(e) /\ fault[e] # "splits"
  BY DEF Stands, Well
<1>2. /\ last[e] = height[e] => height[e] = Highest(branch[e])
      /\ ~Rejoins(e) /\ height[e] + 1 >= Highest(branch[e])
  BY <1>1 DEF Prompt, Known
<1>3. branch[e] = winner
  BY <1>1, <1>2 DEF Rejoins
<1>4. Highest(winner) \in Nat /\ \A o \in EL : branch[o] = winner => height[o] <= Highest(winner)
  BY <1>3, HighestFacts DEF On, Counts
<1>5. \A o \in EL : branch[o] = winner => height[o] <= height[e] + 1
  BY <1>2, <1>3, <1>4, CountFacts
<1> QED
  BY <1>2, <1>3, <1>4, <1>5 DEF AtTop

(* What one round does to one client's count. *)
LEMMA ObserveFacts ==
    ASSUME Counts, NEW S, observe(S)
    PROVE  /\ \A e \in EL : last'[e] = IF e \in S THEN height[e] ELSE last[e]
           /\ \A e \in EL : \/ stuck'[e] = stuck[e]
                            \/ stuck'[e] = 0
                            \/ /\ e \in S /\ last[e] = height[e] /\ stuck'[e] <= stuck[e] + 1
                               /\ \E p \in S : last[p] < height[p]
           /\ \A e \in S : e \in EL /\ last[e] # height[e] =>
                 stuck'[e] = 0 \/ (stuck'[e] = stuck[e] /\ height[e] <= last[e])
           /\ \A e \in EL : e \notin S => stuck'[e] = stuck[e]
<1> DEFINE moved == \E p \in S : last[p] < height[p]
<1>1. \A e \in EL : last'[e] = IF e \in S THEN height[e] ELSE last[e]
  BY DEF observe
<1>2. \A e \in EL : stuck'[e] = IF ~moved \/ e \notin S THEN stuck[e]
                                ELSE IF last[e] = height[e] THEN Counted(stuck[e]) ELSE 0
  BY DEF observe
<1>3. \A e \in EL : Counted(stuck[e]) <= stuck[e] + 1
  BY CountFacts DEF Counted
<1>4. ~moved => \A e \in EL : e \in S => height[e] <= last[e]
  BY CountFacts
<1> HIDE DEF moved
<1>5. \A e \in EL : \/ stuck'[e] = stuck[e]
                    \/ stuck'[e] = 0
                    \/ e \in S /\ last[e] = height[e] /\ stuck'[e] <= stuck[e] + 1 /\ moved
  BY <1>2, <1>3
<1>6. \A e \in S : e \in EL /\ last[e] # height[e] =>
          stuck'[e] = 0 \/ (stuck'[e] = stuck[e] /\ height[e] <= last[e])
  BY <1>2, <1>4
<1>7. \A e \in EL : e \notin S => stuck'[e] = stuck[e]
  BY <1>2
<1> QED
  BY <1>1, <1>5, <1>6, <1>7 DEF moved

(* One round of samples, five seconds after the last: whoever moved had    *)
(* something left to catch up with, and has less of it now. *)
LEMMA RoundTracking ==
    ASSUME Counts, Counts', Tracking, Prompt, Healed,
           NEW S \in SUBSET EL, observe(S),
           UNCHANGED <<branch, height, winner, fault, excuse>>,
           fails' = fails \/ fails' = fails + 1,
           S # EL => fails' = fails + 1 /\ \E x \in EL : S = EL \ {x}
    PROVE  Tracking'
<1>1. /\ \A e \in EL : last'[e] = IF e \in S THEN height[e] ELSE last[e]
      /\ \A e \in EL : \/ stuck'[e] = stuck[e]
                       \/ stuck'[e] = 0
                       \/ /\ e \in S /\ last[e] = height[e] /\ stuck'[e] <= stuck[e] + 1
                          /\ \E p \in S : last[p] < height[p]
      /\ \A e \in S : e \in EL /\ last[e] # height[e] =>
            stuck'[e] = 0 \/ (stuck'[e] = stuck[e] /\ height[e] <= last[e])
      /\ \A e \in EL : e \notin S => stuck'[e] = stuck[e]
  BY ObserveFacts
<1>2. /\ \A e \in EL : /\ last[e] \in Nat /\ stuck[e] \in Nat /\ height[e] \in Nat
                       /\ height[e] < Unseen /\ last[e] <= Unseen
      /\ fails \in Nat /\ Unseen \in Nat
  BY CountFacts
<1>3. /\ fails' \in Nat /\ \A e \in EL : last'[e] \in Nat /\ stuck'[e] \in Nat
  <2>1. Unseen' = Unseen
    BY DEF Unseen
  <2> QED
    BY <1>1, <1>2 DEF Counts, Tracked, Concluded, Unseen
<1>4. Innocent' = Innocent /\ \A e \in EL : Well(e)' = Well(e)
  BY DEF Innocent, Well
<1>5. \A e \in EL : Known(e)' = (last'[e] # Unseen)
  BY DEF Known, Unseen
<1>6. \A e \in EL : (e \in S => Known(e)') /\ (e \notin S => Known(e)' = Known(e) /\ last'[e] = last[e])
  BY <1>1, <1>2, <1>5 DEF Known
<1>7. Answered'
  BY <1>2, <1>6 DEF Answered
(* A client whose count rises is at the top, and somebody had a lag. *)
<1>8. ASSUME Innocent, NEW e \in EL, Well(e), e \in S, last[e] = height[e], NEW p \in S, last[p] < height[p]
      PROVE  /\ Known(e) /\ AtTop(e) /\ stuck[e] + 1 <= fails + 2
  <2>1. Known(e) /\ Known(p)
    BY <1>2, <1>8 DEF Known
  <2>2. AtTop(e)
    BY <1>8, <2>1, PromptFacts
  <2>3. Lag(p, last[e]) >= 1
    <3>1. CASE ~Well(p)
      BY <1>8, <2>1, <3>1 DEF Lag
    <3>2. CASE Well(p)
      <4>1. branch[p] = winner
        BY <1>8, <2>1, <3>2, PromptFacts
      <4>2. last[p] < last[e]
        BY <1>2, <1>8, <2>2, <4>1 DEF AtTop
      <4> QED
        BY <2>1, <3>2, <4>2 DEF Lag
    <3> QED
      BY <3>1, <3>2
  <2>4. stuck[e] + Lag(p, last[e]) <= fails + 2
    BY <1>8, <2>2 DEF Tracking, Catching
  <2> QED
    BY <1>2, <2>1, <2>2, <2>3, <2>4, LagFacts
<1>9. Patient'
  <2> SUFFICES ASSUME Innocent, NEW e \in EL, Well(e) PROVE stuck'[e] <= fails' + 2
    BY <1>4 DEF Patient
  <2>1. stuck[e] <= fails + 2
    BY DEF Tracking, Patient
  <2>2. CASE stuck'[e] = stuck[e] \/ stuck'[e] = 0
    BY <1>2, <1>3, <2>1, <2>2
  <2>3. CASE /\ e \in S /\ last[e] = height[e] /\ stuck'[e] <= stuck[e] + 1
             /\ \E p \in S : last[p] < height[p]
    <3>1. stuck[e] + 1 <= fails + 2
      BY <1>8, <2>3
    <3> QED
      BY <1>2, <1>3, <2>3, <3>1
  <2> QED
    BY <1>1, <2>2, <2>3
<1>10. Restless'
  <2> SUFFICES ASSUME Innocent, NEW e \in EL, Well(e),
                      ~Known(e)' \/ branch[e] # winner \/ height[e] < last'[e]
               PROVE  stuck'[e] = 0
    BY <1>4 DEF Restless
  <2>1. ~Known(e) \/ branch[e] # winner \/ height[e] < last[e] => stuck[e] = 0
    BY DEF Tracking, Restless
  <2>2. CASE e \in S
    <3>1. ~Known(e)
      BY <1>1, <1>2, <1>6, <2>2, PromptFacts
    <3>2. last[e] # height[e]
      BY <1>2, <3>1 DEF Known
    <3> QED
      BY <1>1, <2>1, <2>2, <3>1, <3>2
  <2>3. CASE e \notin S
    BY <1>1, <1>6, <2>1, <2>3
  <2> QED
    BY <2>2, <2>3
<1>11. Catching'
  <2> SUFFICES ASSUME Innocent, NEW e \in EL, NEW p \in EL, Well(e), AtTop(e)'
               PROVE  stuck'[e] + Lag(p, last[e])' <= fails' + 2
    BY <1>4 DEF Catching
  <2> DEFINE lag == Lag(p, last[e])'
  <2>1. /\ Known(e)' /\ last'[e] = height[e] /\ branch[e] = winner
        /\ \A o \in EL : branch[o] = winner => height[o] <= height[e]
    BY DEF AtTop
  <2>2. lag = IF ~Known(p)' THEN IF Well(p) THEN 3 ELSE 0
              ELSE IF ~Well(p) THEN IF last'[p] < height[p] THEN 1 ELSE 0
              ELSE IF branch[p] # winner \/ height[p] < last'[p] \/ last'[p] + 1 < last'[e] THEN 2
              ELSE IF last'[p] < last'[e] THEN 1 ELSE 0
    BY <1>4 DEF Lag
  <2>3. lag \in 0..3 /\ (lag = 3 => ~Known(p)')
    BY <2>2
  <2>0. SUFFICES stuck'[e] + lag <= fails' + 2
    OBVIOUS
  <2> HIDE DEF lag
  <2>4. stuck'[e] <= fails' + 2
    BY <1>4, <1>9 DEF Patient
  <2>5. AtTop(e) => stuck[e] + Lag(p, last[e]) <= fails + 2
    BY DEF Tracking, Catching
  <2>6. CASE e \notin S
    <3>1. AtTop(e) /\ stuck'[e] = stuck[e] /\ fails' = fails + 1 /\ last'[e] = last[e]
      BY <1>1, <1>6, <2>1, <2>6 DEF AtTop
    <3>2. lag <= Lag(p, last[e]) + 1
      <4>1. CASE p \notin S
        BY <1>6, <2>2, <3>1, <4>1 DEF Lag
      <4>2. CASE p \in S /\ Known(p) /\ Well(p)
        <5>1. branch[p] = winner /\ height[e] <= height[p] + 1
          BY <2>1, <4>2, PromptFacts
        <5>2. last'[p] = height[p] /\ Known(p)'
          BY <1>1, <1>6, <4>2
        <5>3. lag <= 1
          BY <1>2, <2>1, <2>2, <4>2, <5>1, <5>2
        <5> QED
          BY <2>3, <5>3, LagFacts
      <4>3. CASE p \in S /\ Known(p) /\ ~Well(p)
        BY <1>1, <1>2, <1>6, <2>2, <4>3, LagFacts
      <4>4. CASE p \in S /\ ~Known(p)
        BY <1>1, <1>2, <1>6, <2>2, <4>4 DEF Lag
      <4> QED
        BY <4>1, <4>2, <4>3, <4>4
    <3> QED
      BY <1>2, <2>3, <2>5, <3>1, <3>2, LagFacts
  <2>7. CASE e \in S /\ last[e] # height[e]
    <3>1. stuck'[e] = 0
      <4>1. CASE height[e] <= last[e]
        <5>1. ~Known(e) \/ height[e] < last[e]
          BY <1>2, <2>7, <4>1
        <5>2. stuck[e] = 0
          BY <5>1 DEF Tracking, Restless
        <5> QED
          BY <1>1, <2>7, <5>2
      <4>2. CASE ~(height[e] <= last[e])
        BY <1>1, <2>7, <4>2
      <4> QED
        BY <4>1, <4>2
    <3>2. lag = 3 => fails' >= 1
      BY <1>7, <2>1, <2>3 DEF Answered
    <3> QED
      BY <1>3, <2>3, <3>1, <3>2
  <2>8. CASE e \in S /\ last[e] = height[e]
    <3>1. Known(e) /\ AtTop(e) /\ last'[e] = last[e]
      BY <1>1, <1>2, <2>1, <2>8 DEF Known, AtTop
    <3>2. stuck'[e] <= stuck[e] + 1
      BY <1>1, <1>2
    <3>3. stuck[e] + Lag(p, last[e]) <= fails + 2
      BY <2>5, <3>1
    <3>4. CASE p \notin S
      <4>1. lag = Lag(p, last[e]) /\ fails' = fails + 1
        BY <1>6, <2>2, <3>1, <3>4 DEF Lag
      <4> QED
        BY <1>2, <1>3, <3>2, <3>3, <4>1, LagFacts
    <3>5. CASE p \in S /\ ~Well(p)
      <4>1. lag = 0
        BY <1>1, <1>2, <1>6, <2>2, <3>5
      <4> QED
        BY <1>3, <2>4, <4>1
    <3>6. CASE p \in S /\ Well(p) /\ ~Known(p)
      <4>1. Lag(p, last[e]) = 3 /\ lag <= 2
        BY <1>6, <2>3, <3>6 DEF Lag
      <4> QED
        BY <1>2, <1>3, <2>3, <3>2, <3>3, <4>1
    <3>7. CASE p \in S /\ Well(p) /\ Known(p)
      <4>1. /\ branch[p] = winner /\ height[e] <= height[p] + 1
            /\ last[p] = height[p] => height[e] <= height[p]
        BY <2>1, <3>7, PromptFacts DEF AtTop
      <4>2. height[p] <= height[e] /\ last'[p] = height[p] /\ Known(p)'
        BY <1>1, <1>6, <2>1, <3>7, <4>1
      <4>3. lag = IF height[p] < height[e] THEN 1 ELSE 0
        BY <1>2, <2>1, <2>2, <3>7, <4>1, <4>2
      <4>4. height[p] < height[e] => Lag(p, last[e]) >= 2
        <5>1. SUFFICES ASSUME height[p] < height[e] PROVE height[p] < last[p] \/ last[p] + 1 < last[e]
          BY <3>7 DEF Lag
        <5>2. last[p] # height[p]
          BY <1>2, <4>1, <5>1
        <5> QED
          BY <1>2, <2>8, <5>1, <5>2
      <4> QED
        BY <1>2, <1>3, <2>4, <3>2, <3>3, <4>3, <4>4, LagFacts
    <3> QED
      BY <3>4, <3>5, <3>6, <3>7
  <2> QED
    BY <2>6, <2>7, <2>8
<1> QED
  BY <1>7, <1>9, <1>10, <1>11 DEF Tracking

(* Between the looks.  A client that comes to be at the top without having *)
(* been sampled there was below, or on another branch, with no count.      *)
LEMMA GrowTracking ==
    ASSUME Counts, Counts', Tracking, NEW g \in EL, Grow(g), UNCHANGED <<last, stuck>>
    PROVE  Tracking'
<1>1. /\ UNCHANGED <<branch, winner, fault, excuse, fails>> /\ ~Stands(g)
      /\ \A o \in EL : height'[o] = IF o = g THEN height[g] + 1 ELSE height[o]
  BY DEF Grow, trouble, Counts, Types
<1>2. /\ \A e \in EL : /\ last[e] \in Nat /\ stuck[e] \in Nat /\ height[e] \in Nat
                       /\ height[e] < Unseen /\ last[e] <= Unseen
      /\ fails \in Nat /\ Unseen \in Nat
  BY CountFacts
<1>3. /\ Innocent' = Innocent
      /\ \A e \in EL : Well(e)' = Well(e) /\ Known(e)' = Known(e)
  BY <1>1 DEF Innocent, Well, Known, Unseen
<1>4. Patient' /\ Answered'
  BY <1>1, <1>3 DEF Tracking, Patient, Answered
<1>5. Restless'
  BY <1>1, <1>2, <1>3 DEF Tracking, Restless
<1>6. Catching'
  <2> SUFFICES ASSUME Innocent, NEW e \in EL, NEW p \in EL, Well(e), AtTop(e)'
               PROVE  stuck[e] + Lag(p, last[e])' <= fails + 2
    BY <1>1, <1>3 DEF Catching
  <2> DEFINE lag == Lag(p, last[e])'
  <2>0. SUFFICES stuck[e] + lag <= fails + 2
    OBVIOUS
  <2>1. /\ Known(e) /\ last[e] = height'[e] /\ branch[e] = winner
        /\ \A o \in EL : branch[o] = winner => height'[o] <= height'[e]
    BY <1>1, <1>3 DEF AtTop
  <2>2. lag = IF ~Known(p) THEN IF Well(p) THEN 3 ELSE 0
              ELSE IF ~Well(p) THEN IF last[p] < height'[p] THEN 1 ELSE 0
              ELSE IF branch[p] # winner \/ height'[p] < last[p] \/ last[p] + 1 < last[e] THEN 2
              ELSE IF last[p] < last[e] THEN 1 ELSE 0
    BY <1>1, <1>3 DEF Lag
  <2>3. lag \in 0..3 /\ (lag = 3 => ~Known(p))
    BY <2>2
  <2> HIDE DEF lag
  <2>4. CASE e = g
    <3>1. height[e] < last[e]
      BY <1>1, <1>2, <2>1, <2>4
    <3>2. stuck[e] = 0
      BY <3>1 DEF Tracking, Restless
    <3>3. lag = 3 => fails >= 1
      BY <2>1, <2>3 DEF Tracking, Answered
    <3> QED
      BY <1>2, <2>3, <3>2, <3>3
  <2>5. CASE e # g
    <3>1. AtTop(e)
      BY <1>1, <1>2, <2>1, <2>5 DEF AtTop
    <3>2. lag <= Lag(p, last[e])
      <4>1. CASE p # g
        BY <1>1, <2>2, <4>1, LagFacts DEF Lag
      <4>2. CASE p = g
        <5>1. Innocent => Well(p)
          BY <1>1, <4>2 DEF Stands, Innocent
        <5>2. height'[p] < last[p] => height[p] < last[p]
          BY <1>1, <1>2, <4>2
        <5> QED
          BY <2>2, <5>1, <5>2 DEF Lag
      <4> QED
        BY <4>1, <4>2
    <3>3. stuck[e] + Lag(p, last[e]) <= fails + 2
      BY <3>1 DEF Tracking, Catching
    <3> QED
      BY <1>2, <2>3, <3>2, <3>3, LagFacts
  <2> QED
    BY <2>4, <2>5
<1> QED
  BY <1>4, <1>5, <1>6 DEF Tracking

LEMMA UnwindTracking ==
    ASSUME Counts, Counts', Branches, Tracking, NEW g \in EL, Unwind(g), UNCHANGED <<last, stuck, fails>>
    PROVE  Tracking'
<1>1. /\ branch[g] # winner /\ UNCHANGED <<winner, fault, excuse>> /\ ~Stands(g)
      /\ \A o \in EL : branch'[o] = IF o = g THEN winner ELSE branch[o]
  BY UnwindFacts DEF Counts, Unwind, Rejoins
<1>0. PICK h \in Nat : \A o \in EL : height'[o] = IF o = g THEN h ELSE height[o]
  BY UnwindFacts DEF Counts
<1>2. /\ \A e \in EL : /\ last[e] \in Nat /\ stuck[e] \in Nat /\ height[e] \in Nat
                       /\ height[e] < Unseen /\ last[e] <= Unseen
      /\ fails \in Nat /\ Unseen \in Nat
  BY CountFacts
<1>3. /\ Innocent' = Innocent
      /\ \A e \in EL : Well(e)' = Well(e) /\ Known(e)' = Known(e)
  BY <1>1 DEF Innocent, Well, Known, Unseen
<1>4. Patient' /\ Answered'
  BY <1>1, <1>3 DEF Tracking, Patient, Answered
<1>7. Innocent => Well(g)
  BY <1>1 DEF Stands, Innocent
<1>8. Innocent => stuck[g] = 0
  BY <1>1, <1>7 DEF Tracking, Restless
<1>5. Restless'
  <2> SUFFICES ASSUME Innocent, NEW e \in EL, Well(e),
                      ~Known(e) \/ branch'[e] # winner \/ height'[e] < last[e]
               PROVE  stuck[e] = 0
    BY <1>1, <1>3 DEF Restless
  <2>1. CASE e = g
    BY <1>8, <2>1
  <2>2. CASE e # g
    BY <1>1, <1>0, <2>2 DEF Tracking, Restless
  <2> QED
    BY <2>1, <2>2
<1>6. Catching'
  <2> SUFFICES ASSUME Innocent, NEW e \in EL, NEW p \in EL, Well(e), AtTop(e)'
               PROVE  stuck[e] + Lag(p, last[e])' <= fails + 2
    BY <1>1, <1>3 DEF Catching
  <2> DEFINE lag == Lag(p, last[e])'
  <2>0. SUFFICES stuck[e] + lag <= fails + 2
    OBVIOUS
  <2>1. /\ Known(e) /\ last[e] = height'[e] /\ branch'[e] = winner
        /\ \A o \in EL : branch'[o] = winner => height'[o] <= height'[e]
    BY <1>1, <1>3 DEF AtTop
  <2>2. lag = IF ~Known(p) THEN IF Well(p) THEN 3 ELSE 0
              ELSE IF ~Well(p) THEN IF last[p] < height'[p] THEN 1 ELSE 0
              ELSE IF branch'[p] # winner \/ height'[p] < last[p] \/ last[p] + 1 < last[e] THEN 2
              ELSE IF last[p] < last[e] THEN 1 ELSE 0
    BY <1>1, <1>3 DEF Lag
  <2>3. lag \in 0..3 /\ (lag = 3 => ~Known(p))
    BY <2>2
  <2> HIDE DEF lag
  <2>4. CASE e = g
    <3>1. lag = 3 => fails >= 1
      BY <2>1, <2>3 DEF Tracking, Answered
    <3> QED
      BY <1>2, <1>8, <2>3, <2>4, <3>1
  <2>5. CASE e # g
    <3>1. AtTop(e)
      BY <1>1, <1>0, <1>2, <2>1, <2>5 DEF AtTop
    <3>2. lag <= Lag(p, last[e])
      <4>1. CASE p # g
        BY <1>1, <1>0, <2>2, <4>1, LagFacts DEF Lag
      <4>2. CASE p = g
        BY <1>1, <1>7, <2>2, <2>3, <4>2 DEF Lag
      <4> QED
        BY <4>1, <4>2
    <3>3. stuck[e] + Lag(p, last[e]) <= fails + 2
      BY <3>1 DEF Tracking, Catching
    <3> QED
      BY <1>2, <2>3, <3>2, <3>3, LagFacts
  <2> QED
    BY <2>4, <2>5
<1> QED
  BY <1>4, <1>5, <1>6 DEF Tracking

(* A client that loses its peers stands where it was: what it had left to  *)
(* catch up with is the block it has not been seen at. *)
LEMMA FaultTracking ==
    ASSUME Counts, Counts', Tracking, NEW g \in EL, Fault(g), UNCHANGED <<last, stuck>>
    PROVE  Tracking'
<1>1. UNCHANGED <<branch, height, winner, fails>> /\ \A e \in EL : e # g => fault'[e] = fault[e]
  BY DEF Fault, Counts, Types
<1>2. /\ \A e \in EL : /\ last[e] \in Nat /\ stuck[e] \in Nat /\ height[e] \in Nat
      /\ fails \in Nat
  BY CountFacts
<1>3. \A e \in EL : Known(e)' = Known(e) /\ AtTop(e)' = AtTop(e)
  BY <1>1 DEF Known, AtTop, Unseen
<1>4. Answered'
  BY <1>1, <1>3 DEF Tracking, Answered
<1>5. SUFFICES ASSUME Innocent' PROVE Tracking'
  BY <1>4 DEF Tracking, Patient, Restless, Catching
<1>6. fault[g] = "none" /\ fault'[g] \in {"starved", "keeps"} /\ UNCHANGED excuse
  BY <1>5 DEF Innocent, Well, Fault, Counts, Types
<1>7. Innocent /\ \A e \in EL : Well(e)' => Well(e)
  BY <1>1, <1>5, <1>6 DEF Innocent, Well
<1>8. Patient' /\ Restless'
  BY <1>1, <1>3, <1>7 DEF Tracking, Patient, Restless
<1>9. Catching'
  <2> SUFFICES ASSUME NEW e \in EL, NEW p \in EL, Well(e), AtTop(e)
               PROVE  stuck[e] + Lag(p, last[e])' <= fails + 2
    BY <1>1, <1>3, <1>7 DEF Catching
  <2> DEFINE lag == Lag(p, last[e])'
  <2>0. SUFFICES stuck[e] + lag <= fails + 2
    OBVIOUS
  <2>1. lag = IF ~Known(p) THEN IF Well(p)' THEN 3 ELSE 0
              ELSE IF ~Well(p)' THEN IF last[p] < height[p] THEN 1 ELSE 0
              ELSE IF branch[p] # winner \/ height[p] < last[p] \/ last[p] + 1 < last[e] THEN 2
              ELSE IF last[p] < last[e] THEN 1 ELSE 0
    BY <1>1, <1>3 DEF Lag
  <2> HIDE DEF lag
  <2>2. lag <= Lag(p, last[e]) /\ lag \in 0..3
    <3>0. lag \in 0..3
      BY <2>1
    <3>1. CASE Well(p)' = Well(p)
      BY <2>1, <3>0, <3>1 DEF Lag
    <3>2. CASE ~Well(p)' /\ Well(p)
      <4>1. Known(p) /\ last[p] < height[p] => Lag(p, last[e]) >= 1
        <5>1. ASSUME branch[p] = winner, last[p] < height[p] PROVE last[p] < last[e]
          BY <1>2, <5>1 DEF AtTop
        <5> QED
          BY <3>2, <5>1 DEF Lag
      <4> QED
        BY <2>1, <3>0, <3>2, <4>1, LagFacts
    <3> QED
      BY <1>7, <3>0, <3>1, <3>2 DEF Well
  <2>3. stuck[e] + Lag(p, last[e]) <= fails + 2
    BY <1>7 DEF Tracking, Catching
  <2> QED
    BY <1>2, <2>2, <2>3, LagFacts
<1> QED
  BY <1>4, <1>8, <1>9 DEF Tracking

LEMMA FailsGrow ==
    ASSUME runScenario
    PROVE  \/ fails' = fails \/ fails' = fails + 1
<1> USE DEF Failing, Charged, trouble
<1>1. CASE Young \/ Refused \/ Mesh \/ Setup \/ Partition
  BY <1>1 DEF Young, Refused, Mesh, Setup, Partition, Look, Waited, Step
<1>2. CASE awaitDivergence \/ Apply \/ NotApplied \/ Confined \/ Held \/ Anchor \/ Clear \/ Cancelled
  BY <1>2 DEF awaitDivergence, Apply, NotApplied, Confined, Held, Anchor, Clear, Cancelled, healQuietly,
     Look, Waited, Step
<1>3. CASE waitAgreement \/ agreed \/ awaitHeight \/ Classify \/ CheckBranch \/ checkGone
  BY <1>3 DEF waitAgreement, agreed, awaitHeight, Classify, CheckBranch, checkGone
<1> QED
  BY <1>1, <1>2, <1>3 DEF runScenario

(* Up to the heal, and when the job ends: no verdict but a cancelled one's. *)
LEMMA EarlyStalls ==
    ASSUME EarlySteps
    PROVE  /\ pc' \notin {"classify", "lagging"}
           /\ outcome' = "finding" => outcome = "finding" \/ "cancelled" \in excuse'
BY DEF EarlySteps, Young, Refused, Mesh, Setup, Partition, awaitDivergence, Apply, NotApplied,
   Confined, Held, Anchor, Clear, Cancelled, Look, Waited, Step, healQuietly, Concludes, verdict

(* Whoever is not innocent is at fault. *)
LEMMA GuiltyOrInnocent ==
    ASSUME Types, Fed, excuse \subseteq {"shallow"}, ~Innocent
    PROVE  \E e \in EL : fault[e] \in {"wedged", "splits", "usurps"}
BY DEF Types, Fed, Innocent, Well

LEMMA NetworkStall ==
    ASSUME Counts, Counts', Branches, IStall, Network
    PROVE  IStall'
<1>1. UNCHANGED <<pc, outcome, frozen, last, stuck>> /\ pc \notin {"classify", "lagging", "done"}
  BY DEF Network, verdict, tracker
<1>2. UNCHANGED fails /\ excuse \subseteq excuse'
  BY DEF Network, Bite, Usurp, Grow, Unwind, Fault, trouble
<1>3. Untracked' /\ Suspected'
  BY <1>1 DEF IStall, Untracked, Suspected, Known, Unseen
<1>4. Stalled'
  BY <1>1 DEF Stalled, StallIsEarned, Counts, Types
<1>5. Tracking' /\ Fed'
  <2>1. CASE Bite
    <3>1. \A e \in EL : ~Known(e) /\ stuck[e] = 0
      BY <2>1, NetworkFacts DEF IStall, Untracked
    <3>2. Tracking'
      BY <1>1, <3>1, FreshTracking DEF Known, Unseen, Counts, Concluded
    <3> QED
      BY <2>1, <3>2 DEF Bite, trouble, IStall, Fed
  <2>2. CASE Usurp
    <3>1. fault' = [fault EXCEPT ![Minority] = "usurps"] /\ UNCHANGED excuse
      BY <2>2 DEF Usurp
    <3>2. ~Innocent'
      BY <3>1, Clients DEF Innocent, Well, Counts, Types
    <3>3. Answered'
      BY <1>1, <1>2 DEF IStall, Tracking, Answered, Known, Unseen
    <3>4. Fed'
      BY <3>1 DEF IStall, Fed, Counts, Types
    <3> QED
      BY <3>2, <3>3, <3>4 DEF Tracking, Patient, Restless, Catching
  <2>3. ASSUME NEW e \in EL, Grow(e) PROVE Tracking' /\ Fed'
    BY <1>1, <2>3, GrowTracking DEF IStall, Fed, Grow, trouble
  <2>4. ASSUME NEW e \in EL, Unwind(e) PROVE Tracking' /\ Fed'
    BY <1>1, <1>2, <2>4, UnwindTracking DEF IStall, Fed, Unwind, trouble
  <2>5. ASSUME NEW e \in EL, Fault(e) PROVE Tracking' /\ Fed'
    <3>1. Tracking'
      BY <1>1, <2>5, FaultTracking DEF IStall
    <3>2. Fed'
      BY <2>5 DEF IStall, Fed, Fault, Counts, Types
    <3> QED
      BY <3>1, <3>2
  <2> QED
    BY <2>1, <2>2, <2>3, <2>4, <2>5 DEF Network
<1> QED
  BY <1>3, <1>4, <1>5 DEF IStall

LEMMA Between ==
    ASSUME NEW a \in Nat, NEW b \in Nat, NEW c \in Nat, a <= b, b <= c + 2
    PROVE  a <= c + 2
OBVIOUS

LEMMA RunStall ==
    ASSUME Counts, Counts', IStall, runScenario
    PROVE  IStall'
<1>1. Flow /\ Order
  BY RunFlow
<1>2. (fails' = fails \/ fails' = fails + 1) /\ fails \in Nat /\ fails' \in Nat
  BY FailsGrow DEF Counts, Concluded
<1>3. UNCHANGED <<branch, height, winner, fault>> /\ excuse \subseteq excuse' /\ outcome = "running"
  BY <1>1 DEF Flow, Counts, Types
<1>4. Fed'
  BY <1>3 DEF IStall, Fed
<1>5. \A x \in {"wedged", "splits", "usurps"} : \A e \in EL : (fault[e] = x) = (fault'[e] = x)
  BY <1>3
<1>6. UNCHANGED <<last, stuck>> => Tracking'
  BY <1>2, <1>3, SameTracking DEF IStall
<1>7. NoTracker => Tracking'
  BY <1>2, FreshTracking DEF NoTracker, Known, Unseen
<1>8. \A S \in Samples : S \in SUBSET EL /\ (S # EL => \E x \in EL : S = EL \ {x})
  BY DEF Samples
<1>9. CASE EarlySteps
  <2>1. UNCHANGED <<last, stuck>>
    BY <1>9, EarlyConcluded DEF Counts, tracker
  <2>2. Untracked'
    BY <1>1, <2>1 DEF Order, IStall, Untracked, Known, Unseen
  <2>3. Suspected' /\ Stalled'
    BY <1>3, <1>9, EarlyStalls DEF Suspected, Stalled, StallIsEarned
  <2> QED
    BY <1>4, <1>6, <2>1, <2>2, <2>3 DEF IStall
<1>10. CASE waitAgreement
  <2>1. PICK S \in Samples : observe(S) /\ Charged(S)
    BY <1>10 DEF waitAgreement
  <2>2. Healed /\ Prompt /\ UNCHANGED excuse
    BY <1>10 DEF waitAgreement, Healed
  <2>3. Tracking'
    <3>1. S # EL => fails' = fails + 1
      BY <2>1 DEF Charged
    <3> QED
      BY <1>2, <1>3, <1>8, <2>1, <2>2, <3>1, RoundTracking DEF IStall
  <2>4. Untracked' /\ Stalled'
    BY <1>3, <1>10 DEF waitAgreement, Untracked, Stalled, StallIsEarned, Before, Unsent, Seen
  <2>5. Suspected'
    <3>1. pc' = "classify" /\ frozen' = {} => Late'
      BY <1>3, <1>10 DEF waitAgreement, Late
    <3>2. \A e \in frozen' : e \in EL /\ stuck'[e] >= WedgeTicks
      BY <1>10 DEF waitAgreement, Frozen
    <3>3. Innocent' => \A e \in frozen' : Well(e)' => WedgeTicks <= fails' + 2
      <4>1. SUFFICES ASSUME Innocent', NEW e \in frozen', Well(e)' PROVE WedgeTicks <= fails' + 2
        OBVIOUS
      <4>2. stuck'[e] <= fails' + 2
        BY <2>3, <3>2, <4>1 DEF Tracking, Patient
      <4>3. stuck'[e] \in Nat /\ WedgeTicks \in Nat /\ fails' \in Nat
        BY <1>2, <3>2, Bounds DEF Counts, Tracked
      <4>4. WedgeTicks <= stuck'[e]
        BY <3>2, <4>3
      <4> QED
        BY <4>2, <4>3, <4>4, Between
    <3> QED
      BY <3>1, <3>3 DEF Suspected
  <2> QED
    BY <1>4, <2>3, <2>4, <2>5 DEF IStall
<1>11. CASE agreed
  <2>1. Tracking'
    BY <1>6, <1>7, <1>11 DEF agreed, tracker
  <2>2. pc' \in {"done", "reach", "agree"} /\ outcome' # "finding"
    BY <1>3, <1>11 DEF agreed
  <2> QED
    BY <1>4, <2>1, <2>2 DEF IStall, Untracked, Suspected, Stalled, StallIsEarned, Before, Unsent, Seen
<1>12. CASE awaitHeight
  <2>1. PICK S \in Samples, T \in Samples :
           /\ S = EL \/ T = EL
           /\ Charged(S \cap T)
           /\ \/ NoTracker /\ pc' = "branch"
              \/ /\ observe(S)
                 /\ \/ pc' = "reach"
                    \/ pc' = "lagging" /\ frozen' \subseteq Frozen(stuck')
    BY <1>12 DEF awaitHeight
  <2>2. Healed /\ Prompt /\ UNCHANGED <<excuse, outcome>>
    BY <1>12 DEF awaitHeight, Healed
  <2>3. Tracking'
    <3>1. S # EL => fails' = fails + 1
      BY <1>8, <2>1 DEF Charged
    <3>2. observe(S) => Tracking'
      BY <1>2, <1>3, <1>8, <2>1, <2>2, <3>1, RoundTracking DEF IStall
    <3> QED
      BY <1>7, <2>1, <3>2
  <2>4. Untracked' /\ Stalled'
    BY <1>3, <2>1, <2>2 DEF Untracked, Stalled, StallIsEarned, Before, Unsent, Seen
  <2>5. Suspected'
    <3>1. pc' \in {"branch", "reach"} \/ (pc' = "lagging" /\ frozen' \subseteq Frozen(stuck'))
      BY <2>1
    <3>2. SUFFICES ASSUME Innocent', NEW e \in frozen', frozen' \subseteq Frozen(stuck'), Well(e)'
                   PROVE  WedgeTicks <= fails' + 2
      BY <3>1 DEF Suspected
    <3>3. e \in EL /\ stuck'[e] >= WedgeTicks
      BY <3>2 DEF Frozen
    <3>4. stuck'[e] <= fails' + 2
      BY <2>3, <3>2, <3>3 DEF Tracking, Patient
    <3>5. stuck'[e] \in Nat /\ WedgeTicks \in Nat /\ fails' \in Nat
      BY <1>2, <3>3, Bounds DEF Counts, Tracked
    <3>6. WedgeTicks <= stuck'[e]
      BY <3>3, <3>5
    <3> QED
      BY <3>4, <3>5, <3>6, Between
  <2> QED
    BY <1>4, <2>3, <2>4, <2>5 DEF IStall
<1>13. CASE Classify
  <2>1. Tracking' /\ pc' = "done" /\ UNCHANGED frozen
    BY <1>7, <1>13 DEF Classify
  <2>2. PICK known \in Samples :
          /\ excuse' = IF frozen \subseteq known THEN excuse ELSE excuse \cup {"unknown"}
          /\ outcome' = IF \/ classifyFrozen(known) # {}
                           \/ frozen = {} /\ pc = "classify" THEN "finding" ELSE "inconclusive"
    BY <1>13 DEF Classify
  <2>3. pc \in {"classify", "lagging"}
    BY <1>13 DEF Classify
  <2>4. Stalled'
    <3>1. SUFFICES ASSUME excuse' \subseteq {"shallow"}, fails' + 2 < WedgeTicks, outcome' = "finding"
                   PROVE  \E e \in EL : fault[e] \in {"wedged", "splits", "usurps"}
      BY <1>3 DEF Stalled, StallIsEarned
    <3>2. excuse \subseteq {"shallow"} /\ frozen \subseteq known
      BY <2>2, <3>1
    <3>3. CASE frozen = {} /\ pc = "classify"
      BY <3>3 DEF IStall, Suspected, Late
    <3>4. CASE classifyFrozen(known) # {}
      <4>1. PICK e \in frozen : fault[e] # "starved"
        BY <3>2, <3>4 DEF classifyFrozen
      <4>2. e \in EL
        BY DEF Counts, Concluded
      <4>3. Innocent => Well(e)
        BY <4>1, <4>2 DEF Innocent
      <4>4. Innocent => WedgeTicks <= fails + 2
        BY <2>3, <4>1, <4>3 DEF IStall, Suspected
      <4>5. ~(WedgeTicks <= fails + 2)
        BY <1>2, <3>1, Bounds
      <4> QED
        BY <3>2, <4>4, <4>5, GuiltyOrInnocent DEF Counts, IStall
    <3> QED
      BY <2>2, <3>1, <3>3, <3>4
  <2> QED
    BY <1>4, <2>1, <2>4 DEF IStall, Untracked, Suspected, Before, Unsent, Seen
<1>14. CASE CheckBranch \/ checkGone
  <2>1. UNCHANGED <<last, stuck>> /\ pc' \in {"gone", "done"} /\ outcome' # "finding"
    BY <1>3, <1>14 DEF CheckBranch, checkGone, tracker
  <2> QED
    BY <1>4, <1>6, <2>1 DEF IStall, Untracked, Suspected, Stalled, StallIsEarned, Before, Unsent, Seen
<1> QED
  BY <1>9, <1>10, <1>11, <1>12, <1>13, <1>14 DEF runScenario, EarlySteps

LEMMA IStallHolds == Spec => []IStall
<1>1. Init => IStall
  BY InitStall
<1>2. IInv /\ IInv' /\ Ranges /\ Ranges' => Counts /\ Counts' /\ Branches
  BY Bounds DEF IInv, Ranges, Counts
<1>3. IInv /\ IInv' /\ Ranges /\ Ranges' /\ IStall /\ [Next]_vars => IStall'
  <2>1. ASSUME IInv, IInv', Ranges, Ranges', IStall, Next PROVE IStall'
    BY <1>2, <2>1, NetworkStall, RunStall DEF Next
  <2>2. ASSUME IStall, UNCHANGED vars PROVE IStall'
    <3>1. UNCHANGED <<pc, outcome, frozen, last, stuck, branch, height, winner, fault, fails, excuse>>
      BY <2>2 DEF vars, verdict, tracker, chain, trouble
    <3>2. /\ Innocent' = Innocent
          /\ \A e \in EL : Well(e)' = Well(e) /\ Known(e)' = Known(e) /\ AtTop(e)' = AtTop(e)
          /\ \A e, p \in EL : Lag(p, last[e])' = Lag(p, last[e])
      BY <3>1 DEF Innocent, Well, Known, AtTop, Lag, Unseen
    <3>3. Tracking'
      BY <2>2, <3>1, <3>2 DEF IStall, Tracking, Patient, Restless, Catching, Answered
    <3>4. Untracked' /\ Suspected' /\ Fed' /\ Stalled'
      BY <2>2, <3>1, <3>2 DEF IStall, Untracked, Suspected, Late, Fed, Stalled, StallIsEarned, Well
    <3> QED
      BY <3>3, <3>4 DEF IStall
  <2> QED
    BY <2>1, <2>2
<1>4. IInv /\ Ranges /\ [Next]_vars => Ranges'
  BY RangesStep DEF IInv
<1> QED
  BY <1>1, <1>3, <1>4, InitRanges, IInvHolds, PTL DEF Spec

(* headTracker.observe and classifyFrozen: whatever the order in which the *)
(* clients come back, go on and are asked, a client that does not move is  *)
(* held against a network with nobody at fault only after wedgeTicks less  *)
(* two calls have failed. *)
THEOREM StallsTakeFailures ==
    Spec => [](excuse \subseteq {"shallow"} /\ fails + 2 < WedgeTicks => StallIsEarned)
<1>1. IStall => (excuse \subseteq {"shallow"} /\ fails + 2 < WedgeTicks => StallIsEarned)
  BY DEF IStall, Stalled
<1> QED
  BY <1>1, IStallHolds, PTL

(* A finding of either kind is a client's doing, as long as fewer calls    *)
(* fail than a stall takes. *)
THEOREM FindingsEarned ==
    ASSUME WedgeTicks > MaxFails + 2
    PROVE  Spec => []FindingsAreEarned
<1>1. IInv /\ IStall /\ Ranges => FindingsAreEarned
  <2>1. fails \in 0..MaxFails => fails + 2 < WedgeTicks
    BY Bounds
  <2> QED
    BY <2>1 DEF IInv, Mismatched, IStall, Stalled, Ranges, Concluded, FindingsAreEarned
<1>2. IInv /\ Ranges /\ [Next]_vars => Ranges'
  BY RangesStep DEF IInv
<1> QED
  BY <1>1, <1>2, InitRanges, IInvHolds, IStallHolds, PTL DEF Spec
=============================================================================
