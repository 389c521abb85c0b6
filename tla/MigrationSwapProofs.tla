------------------------- MODULE MigrationSwapProofs -------------------------
(***************************************************************************)
(* Proofs about the swaps, for any queue of consumers, any producers, any  *)
(* chaos windows and any pattern of failures, timeouts and signals.        *)
(***************************************************************************)
EXTENDS MigrationSwap, FiniteSetTheorems, WellFoundedInduction, TLAPS

(* Where the queue stands; until the swaps begin nothing was stopped. *)
Place ==
    /\ InBody \/ mpc \in {"looking", "waiting"} => k <= Len(Queue)
    /\ mpc \in {"exporting", "producing"} => stops = {}

(* Nobody has touched a consumer whose turn has not come. *)
Untouched ==
    \A i \in DOMAIN Queue :
        i > k \/ (i = k /\ ~InBody) =>
            /\ node[Queue[i]] = "up" /\ marker[Queue[i]] = "none"
            /\ status[Queue[i]] = "skipped" /\ Queue[i] \notin stops

(* The consumer whose turn it is. *)
Current ==
    /\ InBody => status[c] = "skipped" /\ prev = None /\ anchor[Source[c]] = "final"
    /\ mpc \in {"staging", "stopping"} => c \notin stops
    /\ mpc \in {"polling", "asking"} =>
         /\ marker[c] # "none"
         /\ marker[c] = "pending" => node[c] \in {"stopped", "importing", "dead"}
         /\ node[c] = "importing" => marker[c] = "pending"
    /\ mpc = "starting" => node[c] = "stopped" /\ marker[c] = "pending"
    /\ mpc = "copying" => node[c] = "stopped"
    /\ mpc = "asking" /\ marker[c] = "failed" => node[c] # "up"

(* Who is off the head is being swapped, or is whom the next gate waits    *)
(* for. *)
BehindIsKnown == \A n \in Consumers : Behind(n) => n = prev \/ (InBody /\ n = c)

OkIsUp == \A n \in Consumers : status[n] = "ok" => node[n] = "up" /\ marker[n] = "done"

StopsAreFinal == \A n \in stops : anchor[Source[n]] = "final"

Queued == Place /\ Untouched /\ Current /\ BehindIsKnown /\ OkIsUp /\ StopsAreFinal

Mid == {p \in Producers : ppc[p] \notin {"idle", "over"}}

LockCounts ==
    /\ mpc # "producing" => Mid = {}
    /\ lockN = IF InBody THEN 1 ELSE Cardinality(Mid)
    /\ lockFile <=> lockN # 0

(* No window from t on, for d. *)
FreeFor(t, d) ==
    \A w \in Windows : \A s \in Nat : t <= s /\ s < t + d => ~(w[1] <= s /\ s < w[2])

Clocks ==
    /\ mpc \in {"looking", "staging", "stopping"} => gnow <= now /\ now <= gnow + swapSlack
    /\ mpc \in {"staging", "stopping"} => FreeFor(gnow, Expected + swapSlack)
    /\ InBody /\ c \in stops => FreeFor(since, Expected) /\ since <= now

Goals == OneDown /\ OkMeansImported /\ DownOutsideChaos

IInv ==
    /\ TypeOK
    /\ Goals
    /\ mpc # "killed" => Queued /\ LockCounts /\ Clocks

-----------------------------------------------------------------------------
LEMMA QueueFacts ==
    /\ Len(Queue) \in Nat /\ DOMAIN Queue = 1..Len(Queue) /\ None \notin Consumers
    /\ \A i \in DOMAIN Queue : Queue[i] \in Consumers
    /\ \A n \in Consumers : Source[n] \in Producers
    /\ \A i, j \in DOMAIN Queue : Queue[i] = Queue[j] => i = j
    /\ \A n \in Consumers : \E i \in DOMAIN Queue : n = Queue[i]
<1>1. Len(Queue) \in Nat /\ DOMAIN Queue = 1..Len(Queue) /\ None \notin Consumers
  BY SwapAssumption
<1>2. \A i \in DOMAIN Queue : Queue[i] \in Consumers
  BY Zenon DEF Consumers
<1>3. \A n \in Consumers : \E i \in DOMAIN Queue : n = Queue[i]
  BY Zenon DEF Consumers
<1>4. Source \in [Consumers -> Producers] /\ \A i, j \in DOMAIN Queue : Queue[i] = Queue[j] => i = j
  BY Zenon, SwapAssumption
<1>5. \A n \in Consumers : Source[n] \in Producers
  BY <1>4
<1> QED
  BY <1>1, <1>2, <1>3, <1>4, <1>5, Zenon

LEMMA TheCurrent ==
    ASSUME TypeOK, Place, InBody \/ mpc \in {"looking", "waiting"}
    PROVE  k \in DOMAIN Queue /\ c \in Consumers /\ Source[c] \in Producers
<1>1. k \in 1..(Len(Queue) + 1)
  BY Zenon DEF TypeOK
<1>2. k <= Len(Queue)
  BY Zenon DEF Place
<1>3. Len(Queue) \in Nat /\ DOMAIN Queue = 1..Len(Queue)
  BY Zenon, QueueFacts
<1>4. k \in 1..Len(Queue)
  <2> DEFINE n == Len(Queue)
  <2>1. k \in 1..(n + 1) /\ k <= n /\ n \in Nat
    BY <1>1, <1>2, <1>3, Zenon
  <2> HIDE DEF n
  <2>2. k \in 1..n
    BY <2>1
  <2> QED
    BY <2>2, Zenon DEF n
<1>5. k \in DOMAIN Queue
  BY <1>3, <1>4, Zenon
<1>6. c \in Consumers
  BY <1>5, QueueFacts, Zenon DEF c
<1> QED
  BY <1>5, <1>6, QueueFacts, Zenon

LEMMA LeastNatural ==
    ASSUME NEW T, T \subseteq Nat, T # {}
    PROVE  \E d \in T : \A e \in T : d <= e
<1> DEFINE below == {0..e : e \in T}
<1>1. below \subseteq FiniteSubsetsOf(Nat) /\ below # {}
  <2>1. \A e \in T : 0..e \in SUBSET Nat /\ IsFiniteSet(0..e)
    BY FS_Interval
  <2> QED
    BY <2>1, Zenon DEF FiniteSubsetsOf
<1>2. PICK x \in below : \A y \in below : ~(<<y, x>> \in StrictSubsetOrdering(Nat))
  BY <1>1, WFMin, FS_StrictSubsetOrderingWellFounded
<1>3. PICK d \in T : x = 0..d
  OBVIOUS
<1>4. ASSUME NEW e \in T, e < d PROVE FALSE
  <2>1. 0..e \in below /\ 0..e \subseteq 0..d /\ 0..e # 0..d /\ 0..d \subseteq Nat
    BY <1>4
  <2> QED
    BY <1>2, <1>3, <2>1 DEF StrictSubsetOrdering
<1> QED
  BY <1>4

(* A window far enough ahead, and none now, leave the time free. *)
LEMMA ChaosFreeIsFree ==
    ASSUME NEW t \in Nat, NEW d \in Nat, d > 0, chaosFree(t) >= d
    PROVE  FreeFor(t, d)
<1> DEFINE ahead == {w[1] - t : w \in {v \in Windows : v[1] > t}} \cup {gapHorizon}
<1>1. ~\E w \in Windows : w[1] <= t /\ t < w[2]
  BY DEF chaosFree
<1>2. chaosFree(t) = CHOOSE x \in ahead : \A e \in ahead : x <= e
  BY <1>1 DEF chaosFree
<1>3. ahead \subseteq Nat /\ ahead # {}
  BY SwapAssumption DEF gapHorizon
<1>4. \E x \in ahead : \A e \in ahead : x <= e
  BY <1>3, LeastNatural
<1>5. chaosFree(t) \in ahead /\ \A e \in ahead : chaosFree(t) <= e
  BY <1>2, <1>4
<1>6. \A w \in Windows : w[1] > t => w[1] - t >= d
  <2>1. \A w \in Windows : w[1] > t => w[1] - t \in ahead
    OBVIOUS
  <2>2. \A w \in Windows : w[1] > t => chaosFree(t) <= w[1] - t
    BY <1>5, <2>1
  <2>3. chaosFree(t) \in Nat
    BY <1>3, <1>5
  <2>4. \A w \in Windows : w[1] \in Nat
    BY SwapAssumption
  <2> QED
    BY <2>2, <2>3, <2>4
<1>7. \A w \in Windows : w[1] \in Nat /\ w[2] \in Nat
  BY SwapAssumption
<1>8. ASSUME NEW w \in Windows, NEW s \in Nat, t <= s, s < t + d, w[1] <= s, s < w[2]
      PROVE  FALSE
  <2>1. w[1] \in Nat /\ w[2] \in Nat /\ (w[1] > t => w[1] - t >= d)
    BY <1>6, <1>7, Zenon
  <2>2. ~(w[1] > t)
    BY <1>8, <2>1
  <2>3. w[1] <= t /\ t < w[2]
    BY <1>8, <2>1, <2>2
  <2> QED
    BY <1>1, <2>3, Zenon
<1> QED
  BY <1>8, Zenon DEF FreeFor

-----------------------------------------------------------------------------
(* Types. *)

LEMMA Steps ==
    /\ DOMAIN After = {"stoppingCL", "reading", "stoppingEL", "streaming", "startingEL",
                       "startingCL"}
    /\ \A s \in DOMAIN After : After[s] \in DOMAIN After \cup {"converting"}
BY DEF After

LEMMA MidIsFinite == IsFiniteSet(Mid) /\ Cardinality(Mid) \in Nat /\ (Cardinality(Mid) = 0 <=> Mid = {})
<1>1. Mid \in SUBSET Producers
  BY DEF Mid
<1> QED
  BY <1>1, SwapAssumption, FS_Subset, FS_CardinalityType, FS_EmptySet

LEMMA LockedMidway ==
    ASSUME LockCounts
    PROVE  /\ \A p \in Mid : lockN >= 1
           /\ InBody => lockN = 1
<1>1. InBody => lockN = 1 /\ Mid = {}
  BY DEF LockCounts, InBody
<1>2. ~InBody => lockN = Cardinality(Mid)
  BY DEF LockCounts
<1> QED
  BY <1>1, <1>2, MidIsFinite

LEMMA TypesProduce ==
    ASSUME TypeOK, LockCounts, NEW p \in Producers, Produce(p)
    PROVE  TypeOK'
<1> USE Steps DEF TypeOK, begin, end
<1>l. p \in Mid => lockN >= 1
  BY LockedMidway
<1>0. UNCHANGED <<mpc, gate, status, stop, node, marker, now>>
  BY DEF Produce
<1>1. CASE Begins(p)
  BY <1>0, <1>1 DEF Begins, gate, stop
<1>2. CASE Advances(p)
  <2>1. Effect(p) \in SUBSET {"CL", "EL"}
    BY DEF Effect
  <2> QED
    BY <1>0, <1>2, <2>1 DEF Advances, gate, stop, lock
<1>3. CASE ExportFails(p)
  <2>1. Effect(p) \in SUBSET {"CL", "EL"}
    BY DEF Effect
  <2> QED
    BY <1>0, <1>3, <1>l, <2>1 DEF ExportFails, Mid, gate, stop
<1>4. CASE Exports(p)
  BY <1>0, <1>4, <1>l DEF Exports, Mid, gate, stop
<1> QED
  BY <1>1, <1>2, <1>3, <1>4 DEF Produce

LEMMA TypesWorld ==
    ASSUME TypeOK, World
    PROVE  TypeOK'
<1> USE DEF TypeOK, gate, exp, stop, lock, Becomes
<1>0. UNCHANGED <<mpc, gate, exp, exported, status, stop, lock>>
  BY DEF World
<1>1. CASE \E n \in Consumers :
             ImportEnds(n) \/ ImportDies(n) \/ AtHead(n) \/ Replayed(n) \/ Revived(n)
  BY <1>0, <1>1 DEF ImportEnds, ImportDies, AtHead, Replayed, Revived
<1>2. CASE \E p \in Producers : Finalized(p)
  BY <1>0, <1>2 DEF Finalized
<1>3. CASE Tick
  BY <1>0, <1>3, SwapAssumption DEF Tick
<1> QED
  BY <1>1, <1>2, <1>3 DEF World

(* What a swap's end leaves of the world: a stop that failed may have       *)
(* stopped the node. *)
BodyWorld ==
    /\ node' \in {node, [node EXCEPT ![c] = "stopped"]}
    /\ UNCHANGED <<marker, anchor, now>>

Finishes ==
    StagingFails \/ StopFails \/ CopyFails \/ NotRunning \/ ImportFailed \/ TimedOut \/ CaughtUp

LEMMA FinishesShape ==
    ASSUME Finishes
    PROVE  \E s \in {"ok", "failed", "timeout"} :
             /\ InBody /\ Finish(s) /\ BodyWorld
             /\ s = "ok" => mpc = "asking" /\ node[c] = "up" /\ node' = node
BY DEF Finishes, StagingFails, StopFails, CopyFails, NotRunning, ImportFailed, TimedOut, CaughtUp,
       InBody, BodyWorld, world

LEMMA TypesMain ==
    ASSUME TypeOK, Place, LockCounts, Main
    PROVE  TypeOK'
<1> USE QueueFacts DEF TypeOK, gate, exp, stop, lock, world
<1>1. CASE ExportOpens \/ ExportTooLate \/ Produced \/ Drained
  BY <1>1 DEF ExportOpens, ExportTooLate, Produced, Drained, Goes
<1>2. CASE NoArtifact \/ Looks \/ TooLate \/ Reorged \/ GivesUp \/ Waits
  BY <1>2 DEF NoArtifact, Looks, TooLate, Reorged, GivesUp, Waits, Skips, Goes, Place
<1>3. CASE Proceeds
  BY <1>3 DEF Proceeds, begin
<1>4. CASE Staged \/ Unmarked \/ PollsAgain
  BY <1>4 DEF Staged, Unmarked, PollsAgain, Body
<1>5. CASE Stopped \/ Copied \/ Started
  <2>1. c \in Consumers
    BY <1>5, TheCurrent DEF InBody, Stopped, Copied, Started
  <2>2. CASE Stopped
    BY <2>1, <2>2 DEF Stopped
  <2>3. CASE Copied
    BY <2>1, <2>3 DEF Copied, Body
  <2>4. CASE Started
    BY <2>1, <2>4 DEF Started, Body
  <2> QED
    BY <1>5, <2>2, <2>3, <2>4
<1>6. CASE \E s \in {"ok", "failed", "timeout"} : InBody /\ Finish(s) /\ BodyWorld
  <2>1. c \in Consumers /\ k \in DOMAIN Queue /\ lockN = 1
    BY <1>6, TheCurrent, LockedMidway
  <2>2. PICK s \in {"ok", "failed", "timeout"} : Finish(s) /\ BodyWorld
    BY <1>6
  <2>3. node' \in [Consumers -> {"up", "stopped", "importing", "dead", "behind", "replaying"}]
    BY <2>1, <2>2 DEF BodyWorld
  <2>4. status' \in [Consumers -> {"skipped", "ok", "failed", "timeout"}]
    BY <2>1, <2>2 DEF Finish
  <2>5. prev' \in Consumers \cup {None} /\ anyFailed' \in BOOLEAN
    BY <2>1, <2>2 DEF Finish
  <2>6. lockN' \in Nat /\ lockFile' \in BOOLEAN
    BY <2>1, <2>2 DEF Finish, end
  <2>7. k' \in 1..Len(Queue) + 1 /\ gnow' \in Nat /\ mpc' = "next" /\ since' \in Nat
    BY <2>1, <2>2 DEF Finish
  <2>8. UNCHANGED <<stops, exp, exported, marker, anchor, now>>
    BY <2>2 DEF Finish, BodyWorld
  <2> QED
    BY <2>3, <2>4, <2>5, <2>6, <2>7, <2>8
<1> QED
  BY <1>1, <1>2, <1>3, <1>4, <1>5, <1>6, FinishesShape DEF Main, Finishes

-----------------------------------------------------------------------------
(* The lock counts whoever is mid-operation. *)

LEMMA CountsUp ==
    ASSUME begin, lockN \in Nat, lockFile <=> lockN # 0
    PROVE  lockN' = lockN + 1 /\ (lockFile' <=> lockN' # 0)
<1>1. lockN' = lockN + 1 /\ lockN' # 0
  BY DEF begin
<1>2. lockFile'
  BY DEF begin
<1> QED
  BY <1>1, <1>2, Zenon

LEMMA CountsDown ==
    ASSUME end, lockN \in Nat, lockN # 0, lockFile <=> lockN # 0
    PROVE  lockN' = lockN - 1 /\ (lockFile' <=> lockN' # 0)
<1>1. lockN' = lockN - 1 /\ (lockN # 1 <=> lockN' # 0)
  BY DEF end
<1>2. lockFile' <=> lockFile /\ lockN # 1
  BY Zenon DEF end
<1> QED
  BY <1>1, <1>2, Zenon

LEMMA LockProduce ==
    ASSUME TypeOK, LockCounts, NEW p \in Producers, Produce(p)
    PROVE  LockCounts'
<1>0. /\ mpc = "producing" /\ mpc' = "producing" /\ ~InBody /\ ~InBody'
      /\ lockN \in Nat /\ lockN = Cardinality(Mid) /\ (lockFile <=> lockN # 0)
      /\ DOMAIN ppc = Producers
  BY DEF Produce, InBody, LockCounts, TypeOK
<1>1. SUFFICES lockN' = Cardinality(Mid') /\ (lockFile' <=> lockN' # 0)
  BY <1>0, Zenon DEF LockCounts
<1>2. CASE Begins(p)
  <2>1. p \notin Mid /\ Mid' = Mid \cup {p}
    BY <1>0, <1>2 DEF Begins, Mid
  <2>2. Cardinality(Mid') = Cardinality(Mid) + 1
    BY <2>1, MidIsFinite, FS_AddElement
  <2>3. lockN' = lockN + 1 /\ (lockFile' <=> lockN' # 0)
    BY <1>0, <1>2, CountsUp DEF Begins
  <2> QED
    BY <1>0, <2>2, <2>3
<1>3. CASE Advances(p)
  <2>1. Mid' = Mid /\ lockN' = lockN /\ lockFile' = lockFile
    BY <1>0, <1>3, Steps DEF Advances, Mid, lock
  <2> QED
    BY <1>0, <2>1
<1>4. CASE ExportFails(p) \/ Exports(p)
  <2>1. p \in Mid /\ Mid' = Mid \ {p} /\ end
    BY <1>0, <1>4, Steps DEF ExportFails, Exports, Mid
  <2>2. Cardinality(Mid') = Cardinality(Mid) - 1 /\ Cardinality(Mid) # 0
    BY <2>1, MidIsFinite, FS_RemoveElement
  <2>3. lockN' = lockN - 1 /\ (lockFile' <=> lockN' # 0)
    BY <1>0, <2>1, <2>2, CountsDown
  <2> QED
    BY <1>0, <2>2, <2>3
<1> QED
  BY <1>2, <1>3, <1>4 DEF Produce

LEMMA LockMain ==
    ASSUME TypeOK, LockCounts, Main
    PROVE  LockCounts'
<1>0. lockN \in Nat /\ (lockFile <=> lockN # 0) /\ Mid' = Mid /\ IsFiniteSet(Mid)
  <2>1. ppc' = ppc
    BY FinishesShape
       DEF Main, Finishes, ExportOpens, ExportTooLate, Produced, Drained, NoArtifact, Looks, TooLate,
           Reorged, GivesUp, Waits, Skips, Goes, Proceeds, Staged, Stopped, Copied, Started, Unmarked,
           PollsAgain, Body, Finish, exp
  <2> QED
    BY <2>1, MidIsFinite DEF LockCounts, TypeOK, Mid
<1>1. CASE Proceeds
  <2>1. Mid = {} /\ lockN = 0 /\ InBody' /\ mpc' # "producing"
    BY <1>1, MidIsFinite DEF Proceeds, LockCounts, InBody
  <2>2. lockN' = 1 /\ (lockFile' <=> lockN' # 0)
    BY <1>0, <1>1, <2>1, CountsUp DEF Proceeds
  <2> QED
    BY <1>0, <2>1, <2>2, Zenon DEF LockCounts
<1>2. CASE Finishes
  <2>1. Mid = {} /\ lockN = 1 /\ ~InBody' /\ mpc' # "producing" /\ end
    BY <1>2, FinishesShape DEF Finish, LockCounts, InBody
  <2>2. lockN' = 0 /\ (lockFile' <=> lockN' # 0)
    BY <1>0, <2>1, CountsDown
  <2>3. Cardinality(Mid') = 0
    BY <1>0, <2>1, FS_EmptySet
  <2> QED
    BY <1>0, <2>1, <2>2, <2>3, Zenon DEF LockCounts
<1>3. CASE ~(Proceeds \/ Finishes)
  <2>1. /\ lockN' = lockN /\ lockFile' = lockFile /\ InBody' = InBody
        /\ mpc' # "producing" => mpc # "producing" \/ Mid = {}
    BY <1>3
       DEF Main, Finishes, ExportOpens, ExportTooLate, Produced, Drained, NoArtifact, Looks, TooLate,
           Reorged, GivesUp, Waits, Skips, Goes, Staged, Stopped, Copied, Started, Unmarked,
           PollsAgain, Body, lock, InBody, Mid
  <2> QED
    BY <1>0, <2>1, Zenon DEF LockCounts
<1> QED
  BY <1>1, <1>2, <1>3

-----------------------------------------------------------------------------
(* What the steps of the main goroutine touch. *)

(* Waiting, looking, skipping. *)
GateStep ==
    /\ ~InBody /\ ~InBody'
    /\ UNCHANGED <<prev, status, stop, world>>
    /\ k' = k \/ k' = k + 1
    /\ mpc' \in {"looking", "waiting"} => k' = k /\ (mpc \in {"looking", "waiting"} \/ k <= Len(Queue))
    /\ mpc' \in {"exporting", "producing"} => mpc \in {"exporting", "producing"}
    /\ mpc' = "looking" => gnow' = now

(* A step of the body that does not end it. *)
BodyStep == Staged \/ Stopped \/ Copied \/ Started \/ Unmarked \/ PollsAgain

LEMMA MainShape ==
    ASSUME Main
    PROVE  GateStep \/ Proceeds \/ BodyStep \/ Finishes
<1> USE DEF GateStep, InBody, Goes, gate, stop, world
<1>1. CASE ExportOpens \/ ExportTooLate \/ Produced \/ Drained
  BY <1>1 DEF ExportOpens, ExportTooLate, Produced, Drained
<1>2. CASE NoArtifact \/ TooLate \/ Reorged \/ GivesUp
  BY <1>2 DEF NoArtifact, TooLate, Reorged, GivesUp, Skips
<1>3. CASE Looks \/ Waits
  BY <1>3 DEF Looks, Waits
<1> QED
  BY <1>1, <1>2, <1>3, Zenon DEF Main, BodyStep, Finishes

BodyFrame ==
    /\ InBody /\ InBody'
    /\ UNCHANGED <<k, prev, status, anchor, now>>
    /\ \A n \in Consumers : n # c => node'[n] = node[n] /\ marker'[n] = marker[n]

LEMMA BodyShape ==
    ASSUME TypeOK, BodyStep
    PROVE  BodyFrame
<1> USE DEF BodyFrame, InBody, Body, TypeOK, gate, world
<1>1. CASE Staged \/ Unmarked \/ PollsAgain
  BY <1>1 DEF Staged, Unmarked, PollsAgain
<1>2. CASE Stopped
  BY <1>2 DEF Stopped
<1>3. CASE Copied
  BY <1>3 DEF Copied
<1>4. CASE Started
  BY <1>4 DEF Started
<1> QED
  BY <1>1, <1>2, <1>3, <1>4 DEF BodyStep

-----------------------------------------------------------------------------
(* The consumers. *)

LEMMA QueuedGate ==
    ASSUME TypeOK, Queued, GateStep
    PROVE  Queued'
<1> USE QueueFacts DEF TypeOK, Queued, GateStep, stop, world
<1>1. Place'
  BY DEF Place
<1>2. Untouched'
  BY DEF Untouched
<1>3. Current'
  BY DEF Current, InBody
<1>4. BehindIsKnown'
  BY DEF BehindIsKnown, Behind, Off
<1>5. OkIsUp' /\ StopsAreFinal'
  BY DEF OkIsUp, StopsAreFinal
<1> QED
  BY <1>1, <1>2, <1>3, <1>4, <1>5

LEMMA QueuedProceeds ==
    ASSUME TypeOK, Queued, Proceeds
    PROVE  Queued'
<1> USE QueueFacts DEF Queued
<1>0. /\ mpc = "looking" /\ mpc' = "staging" /\ prev' = None /\ k' = k /\ ~InBody /\ InBody'
      /\ UNCHANGED <<status, stop, world>>
      /\ anchor[Source[c]] = "final"
      /\ prev # None => ~Behind(prev)
  BY DEF Proceeds, Settled, InBody
<1>1. k \in DOMAIN Queue /\ c \in Consumers
  BY <1>0, TheCurrent
<1>2. status[c] = "skipped" /\ c \notin stops
  BY <1>0, <1>1 DEF Untouched, c
<1>3. Place'
  BY <1>0 DEF Place
<1>4. Untouched'
  BY <1>0 DEF Untouched, stop, world
<1>5. Current'
  BY <1>0, <1>2 DEF Current, stop, world, c
<1>6. \A n \in Consumers : ~Behind(n)
  BY <1>0 DEF BehindIsKnown
<1>7. BehindIsKnown'
  BY <1>0, <1>6 DEF BehindIsKnown, Behind, Off, world
<1>8. OkIsUp' /\ StopsAreFinal'
  BY <1>0 DEF OkIsUp, StopsAreFinal, stop, world
<1> QED
  BY <1>3, <1>4, <1>5, <1>7, <1>8

LEMMA QueuedBody ==
    ASSUME TypeOK, Queued, BodyStep
    PROVE  Queued'
<1> USE QueueFacts DEF Queued
<1>0. BodyFrame
  BY BodyShape
<1>1. k \in DOMAIN Queue /\ c \in Consumers /\ c' = c /\ k \in 1..Len(Queue)
  BY <1>0, TheCurrent DEF BodyFrame, c
<1>2. /\ status[c] = "skipped" /\ prev = None /\ anchor[Source[c]] = "final"
  BY <1>0 DEF Current, BodyFrame
<1>3. stops' \subseteq stops \cup {c}
  BY DEF BodyStep, Staged, Stopped, Copied, Started, Unmarked, PollsAgain, stop
<1>4. Place'
  BY <1>0, <1>1 DEF BodyFrame, Place, InBody
<1>5. Untouched'
  <2>1. \A i \in DOMAIN Queue : i > k => Queue[i] # c
    BY <1>1 DEF c
  <2> QED
    BY <1>0, <1>1, <1>3, <2>1 DEF BodyFrame, Untouched
<1>6. BehindIsKnown'
  BY <1>0, <1>1 DEF BodyFrame, BehindIsKnown, Behind, Off
<1>7. OkIsUp' /\ StopsAreFinal'
  BY <1>0, <1>1, <1>2, <1>3 DEF BodyFrame, OkIsUp, StopsAreFinal
<1>8. Current'
  <2>1. InBody' => status'[c'] = "skipped" /\ prev' = None /\ anchor'[Source[c']] = "final"
    BY <1>0, <1>1, <1>2 DEF BodyFrame
  <2>2. CASE Staged \/ Unmarked \/ PollsAgain
    BY <1>1, <2>1, <2>2 DEF Current, Staged, Unmarked, PollsAgain, Body, Marked, stop, world, InBody
  <2>3. CASE Stopped
    BY <1>1, <2>1, <2>3 DEF Current, Stopped, TypeOK, InBody
  <2>4. CASE Copied
    BY <1>1, <2>1, <2>4 DEF Current, Copied, Body, TypeOK, InBody
  <2>5. CASE Started
    BY <1>1, <2>1, <2>5 DEF Current, Started, Body, TypeOK, InBody
  <2> QED
    BY <2>2, <2>3, <2>4, <2>5 DEF BodyStep
<1> QED
  BY <1>4, <1>5, <1>6, <1>7, <1>8

LEMMA QueuedFinish ==
    ASSUME TypeOK, Queued, Finishes
    PROVE  Queued'
<1> USE QueueFacts DEF Queued
<1>0. PICK s \in {"ok", "failed", "timeout"} :
        /\ InBody /\ Finish(s) /\ BodyWorld
        /\ s = "ok" => mpc = "asking" /\ node[c] = "up" /\ node' = node
  BY FinishesShape
<1>1. k \in DOMAIN Queue /\ c \in Consumers /\ k' = k + 1 /\ k \in 1..Len(Queue)
  BY <1>0, TheCurrent DEF Finish
<1>2. /\ ~InBody' /\ mpc' = "next" /\ UNCHANGED <<stops, marker, anchor>>
      /\ status' = [status EXCEPT ![c] = s]
  BY <1>0 DEF Finish, BodyWorld, InBody
<1>3. \A n \in Consumers : n # c => node'[n] = node[n] /\ status'[n] = status[n]
  BY <1>0, <1>1 DEF BodyWorld, Finish, TypeOK
<1>4. \A n \in Consumers : Behind(n) => n = c
  BY <1>0 DEF BehindIsKnown, Current
<1>5. Place'
  BY <1>2 DEF Place, InBody
<1>6. Untouched'
  <2>1. \A i \in DOMAIN Queue : i > k => Queue[i] # c
    BY <1>1 DEF c
  <2> QED
    BY <1>1, <1>2, <1>3, <2>1 DEF Untouched
<1>7. Current'
  BY <1>2 DEF Current
<1>8. BehindIsKnown'
  <2>1. s # "ok" => prev' = c
    BY <1>0 DEF Finish
  <2>2. s = "ok" => ~Behind(c)
    BY <1>0 DEF Behind, Off
  <2> QED
    BY <1>0, <1>3, <1>4, <2>1, <2>2 DEF BehindIsKnown, Behind, Off
<1>9. OkIsUp'
  <2>1. s = "ok" => marker[c] = "done"
    BY <1>0, <1>1 DEF Current, TypeOK
  <2>2. status'[c] = s
    BY <1>1, <1>2 DEF TypeOK
  <2> QED
    BY <1>0, <1>2, <1>3, <2>1, <2>2 DEF OkIsUp
<1>10. StopsAreFinal'
  BY <1>2 DEF StopsAreFinal
<1> QED
  BY <1>5, <1>6, <1>7, <1>8, <1>9, <1>10

LEMMA QueuedProduce ==
    ASSUME TypeOK, Queued, NEW p \in Producers, Produce(p)
    PROVE  Queued'
<1> USE DEF Queued
<1>1. /\ ~InBody /\ ~InBody' /\ mpc = "producing" /\ stops = {}
      /\ UNCHANGED <<mpc, gate, status, stop, node, marker>>
  BY DEF Produce, InBody, Place
<1>2. Place' /\ Untouched' /\ Current'
  BY <1>1 DEF Place, Untouched, Current, gate, stop, InBody
<1>3. BehindIsKnown'
  BY <1>1 DEF BehindIsKnown, Behind, Off, gate
<1>4. OkIsUp' /\ StopsAreFinal'
  BY <1>1 DEF OkIsUp, StopsAreFinal, stop
<1> QED
  BY <1>2, <1>3, <1>4

(* A consumer that moves on its own is off the head already, or just back. *)
LEMMA QueuedNode ==
    ASSUME TypeOK, Queued, World, NEW n \in Consumers,
           ImportEnds(n) \/ ImportDies(n) \/ AtHead(n) \/ Replayed(n) \/ Revived(n)
    PROVE  Queued'
<1> USE QueueFacts DEF Queued, Becomes
<1>0. /\ UNCHANGED <<mpc, k, prev, status, stops, anchor>> /\ c' = c /\ InBody' = InBody
  BY DEF World, gate, stop, c, InBody, ImportEnds, ImportDies, AtHead, Replayed, Revived
<1>1. /\ node' = [node EXCEPT ![n] = node'[n]]
      /\ \A m \in Consumers : m # n => node'[m] = node[m] /\ marker'[m] = marker[m]
  BY DEF ImportEnds, ImportDies, AtHead, Replayed, Revived, TypeOK
<1>2. Behind(n)' => Behind(n)
  BY DEF ImportEnds, ImportDies, AtHead, Replayed, Revived, TypeOK, Behind, Off
<1>3. node[n] # "up" /\ (node'[n] = "up" => node[n] = "replaying" /\ mpc # "asking")
  BY DEF ImportEnds, ImportDies, AtHead, Replayed, Revived, TypeOK
<1>4. Place'
  BY <1>0 DEF Place
<1>5. Untouched'
  BY <1>0, <1>1, <1>3 DEF Untouched
<1>6. BehindIsKnown'
  BY <1>0, <1>1, <1>2 DEF BehindIsKnown, Behind, Off
<1>7. OkIsUp' /\ StopsAreFinal'
  BY <1>0, <1>1, <1>3 DEF OkIsUp, StopsAreFinal
<1>8. Current'
  <2>1. CASE ~InBody \/ c # n
    <3>1. InBody => c \in Consumers
      BY TheCurrent
    <3> QED
      BY <1>0, <1>1, <2>1, <3>1 DEF Current, InBody
  <2>2. CASE InBody /\ c = n
    BY <1>0, <2>2 DEF Current, ImportEnds, ImportDies, AtHead, Replayed, Revived, TypeOK
  <2> QED
    BY <2>1, <2>2
<1> QED
  BY <1>4, <1>5, <1>6, <1>7, <1>8

LEMMA QueuedWorld ==
    ASSUME TypeOK, Queued, World
    PROVE  Queued'
<1>1. CASE \E p \in Producers : Finalized(p)
  <2>1. PICK p \in Producers : Finalized(p)
    BY <1>1
  <2>2. /\ \A q \in Producers : anchor[q] = "final" => anchor'[q] = "final"
        /\ UNCHANGED <<node, marker>>
    BY <2>1 DEF Finalized, TypeOK
  <2>3. UNCHANGED <<mpc, gate, status, stop>>
    BY DEF World
  <2>4. InBody => Source[c] \in Producers
    BY TheCurrent DEF Queued
  <2>5. Place' /\ Untouched' /\ Current'
    BY <2>2, <2>3, <2>4 DEF Queued, Place, Untouched, Current, gate, stop, InBody, c
  <2>6. BehindIsKnown' /\ OkIsUp'
    BY <2>2, <2>3 DEF Queued, BehindIsKnown, Behind, Off, OkIsUp, gate, InBody, c
  <2>7. StopsAreFinal'
    BY <2>2, <2>3, QueueFacts DEF Queued, StopsAreFinal, stop, TypeOK
  <2> QED
    BY <2>5, <2>6, <2>7 DEF Queued
<1>2. CASE Tick
  BY <1>2 DEF Tick, World, Queued, Place, Untouched, Current, BehindIsKnown, Behind, Off, OkIsUp,
              StopsAreFinal, gate, stop, InBody, c
<1> QED
  BY <1>1, <1>2, QueuedNode DEF World

-----------------------------------------------------------------------------
(* The clock. *)

LEMMA ClocksMain ==
    ASSUME TypeOK, Queued, Clocks, Main
    PROVE  Clocks'
<1> USE SwapAssumption DEF Clocks, swapSlack
<1>1. CASE GateStep
  BY <1>1 DEF GateStep, TypeOK, world, InBody
<1>2. CASE Proceeds
  <2>1. /\ chaosFree(gnow) >= Expected + swapSlack /\ gnow' = gnow /\ now' = now /\ mpc = "looking"
        /\ mpc' = "staging" /\ k' = k /\ stops' = stops /\ ~InBody
    BY <1>2 DEF Proceeds, WindowAhead, stop, world, InBody
  <2>2. FreeFor(gnow, Expected + swapSlack)
    BY <2>1, ChaosFreeIsFree DEF TypeOK
  <2>3. c' \notin stops'
    BY <2>1, TheCurrent DEF Queued, Untouched, c
  <2> QED
    BY <2>1, <2>2, <2>3
<1>3. CASE Finishes
  BY <1>3, FinishesShape DEF Finish, InBody
<1>4. CASE Staged \/ Copied \/ Started \/ Unmarked \/ PollsAgain
  BY <1>4 DEF Staged, Copied, Started, Unmarked, PollsAgain, Body, gate, stop, world, InBody, c
<1>5. CASE Stopped
  <2>1. /\ since' = now /\ now' = now /\ gnow <= now /\ now <= gnow + swapSlack
        /\ FreeFor(gnow, Expected + swapSlack) /\ mpc' = "copying"
    BY <1>5 DEF Stopped
  <2>2. gnow \in Nat /\ now \in Nat /\ Expected \in Nat
    BY DEF TypeOK
  <2>3. \A s \in Nat : now <= s /\ s < now + Expected =>
          gnow <= s /\ s < gnow + (Expected + swapSlack)
    BY <2>1, <2>2
  <2>4. FreeFor(now, Expected)
    BY <2>1, <2>3, Zenon DEF FreeFor
  <2> QED
    BY <2>1, <2>2, <2>4
<1> QED
  BY <1>1, <1>2, <1>3, <1>4, <1>5, MainShape DEF BodyStep

LEMMA ClocksRest ==
    ASSUME TypeOK, Clocks, World \/ \E p \in Producers : Produce(p)
    PROVE  Clocks'
<1> USE DEF Clocks
<1>1. CASE \E p \in Producers : Produce(p)
  BY <1>1 DEF Produce, InBody
<1>2. CASE World
  <2>1. /\ UNCHANGED <<mpc, gnow, stops, since, k>> /\ now' >= now /\ now' \in Nat /\ now \in Nat
        /\ mpc \in {"looking", "staging", "stopping"} => now' = now \/ now' <= gnow + swapSlack
    BY <1>2, SwapAssumption
       DEF World, gate, stop, TypeOK, Tick, ImportEnds, ImportDies, AtHead, Replayed, Revived, Finalized
  <2> QED
    BY <2>1 DEF InBody, c, TypeOK, swapSlack
<1> QED
  BY <1>1, <1>2

-----------------------------------------------------------------------------
LEMMA GoalsFollow == TypeOK /\ Queued /\ LockCounts /\ Clocks => Goals
<1> SUFFICES ASSUME TypeOK, Queued, LockCounts, Clocks PROVE Goals
  OBVIOUS
<1>1. \A m, n \in Consumers : Behind(m) /\ Behind(n) => m = n
  BY QueueFacts DEF Queued, BehindIsKnown, Current
<1>2. Midway <=> lockFile
  <2>1. Midway <=> InBody \/ Mid # {}
    BY DEF Midway, Mid
  <2>2. InBody \/ Mid # {} <=> lockN # 0
    BY MidIsFinite DEF LockCounts
  <2> QED
    BY <2>1, <2>2, Zenon DEF LockCounts
<1>3. OkMeansImported
  BY DEF OkMeansImported, Queued, OkIsUp, StopsAreFinal
<1>4. DownOutsideChaos
  BY DEF DownOutsideChaos, Clocks, FreeFor, TypeOK
<1> QED
  BY <1>1, <1>2, <1>3, <1>4, Zenon DEF Goals, OneDown

LEMMA GoalsFollowNext == TypeOK' /\ Queued' /\ LockCounts' /\ Clocks' => Goals'
BY GoalsFollow, PTL

LEMMA InvInit == Init => IInv
<1> SUFFICES ASSUME Init PROVE IInv
  OBVIOUS
<1>1. TypeOK
  <2>1. k \in 1..Len(Queue) + 1 /\ prev \in Consumers \cup {None}
    BY QueueFacts DEF Init
  <2>2. ppc \in [Producers -> {"idle", "exporting", "converting", "over"} \cup DOMAIN After]
    BY DEF Init
  <2>3. anyFailed \in BOOLEAN /\ lockFile \in BOOLEAN
    BY Zenon DEF Init
  <2> QED
    BY <2>1, <2>2, <2>3 DEF Init, TypeOK
<1>2. Queued
  BY QueueFacts DEF Init, Queued, Place, Untouched, Current, BehindIsKnown, Behind, Off, OkIsUp,
                    StopsAreFinal, InBody
<1>3. LockCounts
  <2>1. Mid = {} /\ ~InBody /\ lockN = 0 /\ ~lockFile
    BY DEF Init, Mid, InBody
  <2> QED
    BY <2>1, MidIsFinite, Zenon DEF LockCounts
<1>4. Clocks
  BY DEF Init, Clocks, InBody
<1> QED
  BY <1>1, <1>2, <1>3, <1>4, GoalsFollow DEF IInv

LEMMA InvNext == IInv /\ [Next]_vars => IInv'
<1> SUFFICES ASSUME IInv, [Next]_vars PROVE IInv'
  OBVIOUS
<1>1. CASE Main
  <2>1. mpc # "killed"
    BY <1>1, FinishesShape
       DEF Main, ExportOpens, ExportTooLate, Produced, Drained, NoArtifact, Looks, TooLate, Reorged,
           GivesUp, Waits, Proceeds, Staged, Stopped, Copied, Started, Unmarked, PollsAgain,
           Finishes, InBody
  <2>2. TypeOK' /\ LockCounts' /\ Clocks'
    BY <1>1, <2>1, TypesMain, LockMain, ClocksMain DEF IInv, Queued
  <2>3. Queued'
    BY <1>1, <2>1, MainShape, QueuedGate, QueuedProceeds, QueuedBody, QueuedFinish DEF IInv
  <2> QED
    BY <2>2, <2>3, GoalsFollowNext DEF IInv
<1>2. CASE \E p \in Producers : Produce(p)
  <2>1. mpc # "killed"
    BY <1>2 DEF Produce
  <2>2. TypeOK' /\ LockCounts' /\ Clocks' /\ Queued'
    BY <1>2, <2>1, TypesProduce, LockProduce, ClocksRest, QueuedProduce DEF IInv
  <2> QED
    BY <2>2, GoalsFollowNext DEF IInv
<1>3. CASE World
  <2>1. mpc # "killed"
    BY <1>3 DEF World, Ended
  <2>2. LockCounts'
    BY <1>3, <2>1 DEF World, IInv, LockCounts, Mid, exp, lock, InBody
  <2>3. TypeOK' /\ Clocks' /\ Queued'
    BY <1>3, <2>1, TypesWorld, ClocksRest, QueuedWorld DEF IInv
  <2> QED
    BY <2>2, <2>3, GoalsFollowNext DEF IInv
<1>4. CASE Killed
  <2>1. /\ mpc' = "killed" /\ ~InBody'
        /\ UNCHANGED <<gate, exp, exported, status, stop, lock, world>>
    BY <1>4 DEF Killed, InBody
  <2>2. TypeOK'
    BY <2>1 DEF IInv, TypeOK, gate, exp, stop, lock, world
  <2>3. OneDown'
    BY <2>1, Zenon DEF IInv, Goals, OneDown, Midway, Behind, Off, exp, lock, world
  <2>4. OkMeansImported' /\ DownOutsideChaos'
    BY <2>1 DEF IInv, Goals, OkMeansImported, DownOutsideChaos, stop, world
  <2> QED
    BY <2>1, <2>2, <2>3, <2>4 DEF IInv, Goals
<1>5. CASE UNCHANGED vars
  <2>1. TypeOK' /\ Goals'
    BY <1>5 DEF IInv, TypeOK, Goals, OneDown, Midway, OkMeansImported, DownOutsideChaos, InBody, Behind, Off,
                c, vars, gate, exp, stop, lock, world
  <2>2. mpc' # "killed" => Queued' /\ LockCounts' /\ Clocks'
    BY <1>5 DEF IInv, Queued, Place, Untouched, Current, BehindIsKnown, OkIsUp, StopsAreFinal, LockCounts,
                Mid, Clocks, InBody, Behind, Off, c, vars, gate, exp, stop, lock, world
  <2> QED
    BY <2>1, <2>2 DEF IInv
<1> QED
  BY <1>1, <1>2, <1>3, <1>4, <1>5 DEF Next

LEMMA Invariant == Spec => []IInv
BY InvInit, InvNext, PTL DEF Spec

-----------------------------------------------------------------------------
(* Every variable of the swaps keeps its type. *)
THEOREM SwapsTypeCorrect == Spec => []TypeOK
<1>1. IInv => TypeOK
  BY DEF IInv
<1> QED
  BY <1>1, Invariant, PTL

(* README: "One light down at a time": at most one consumer is off the     *)
(* head, and swap.lock exists exactly while somebody is mid-operation, for *)
(* any queue and any number of producers. *)
THEOREM OneLightDown == Spec => []OneDown
<1>1. IInv => OneDown
  BY DEF IInv, Goals
<1> QED
  BY <1>1, Invariant, PTL

(* A swap recorded as ok imported its artifact, and no node is stopped for *)
(* an artifact whose anchor finality could still orphan. *)
THEOREM OkIsImported == Spec => []OkMeansImported
<1>1. IInv => OkMeansImported
  BY DEF IInv, Goals
<1> QED
  BY <1>1, Invariant, PTL

(* "strictly one at a time inside chaos-free gaps": for any windows, the    *)
(* gate's answer covers the expected time from the stop on. *)
THEOREM SwapsMissTheChaos == Spec => []DownOutsideChaos
<1>1. IInv => DownOutsideChaos
  BY DEF IInv, Goals
<1> QED
  BY <1>1, Invariant, PTL

=============================================================================
