-------------------------- MODULE PbtMonitorProofs --------------------------
(***************************************************************************)
(* Proof that pbtmonitor counts no disagreement that a partition made and  *)
(* disruptoor told it about, for any number of clients and partitions, any *)
(* pattern of failing clients, and tails that cover what a fork outlives   *)
(* its partition by.                                                       *)
(***************************************************************************)
EXTENDS PbtMonitor, TLAPS

Values ==
    /\ cut \in BOOLEAN /\ polled \in BOOLEAN
    /\ healed \in Nat /\ lastDisruption \in Nat
    /\ at \in Seq(BOOLEAN)

(* A partition the monitor has polled under was noted, and after the heal  *)
(* the note is no older than the heal. *)
Noted ==
    /\ cut /\ polled => Blind \/ lastDisruption = 0
    /\ ~cut /\ healed <= Settle => Blind \/ lastDisruption <= healed

(* Whoever compareHeads sees, or has seen, on another branch is there by a *)
(* partition that is noted, or too young to have been polled under: that   *)
(* one is still applied when the heads are judged. *)
Seen(c) == c \in DOMAIN at /\ at[c]

SplitIsOurs ==
    pc = "compare" /\ (side # {} \/ \E c \in Client : Seen(c)) =>
        \/ wedged # {} \/ Blind
        \/ lastDisruption < DTail
        \/ cut /\ ~polled

IInv ==
    /\ Values
    /\ Noted
    /\ SplitIsOurs
    /\ ForksOfOursAreExcused

-----------------------------------------------------------------------------
LEMMA InvInit == Init => IInv
<1> SUFFICES ASSUME Init PROVE IInv
  OBVIOUS
<1>1. healed \in Nat /\ lastDisruption \in Nat /\ at \in Seq(BOOLEAN) /\ ~(healed <= Settle)
  BY MonitorAssumption DEF Init
<1>2. cut \in BOOLEAN /\ polled \in BOOLEAN /\ ~cut
  BY Zenon DEF Init
<1> QED
  BY <1>1, <1>2 DEF Init, IInv, Values, Noted, SplitIsOurs, ForksOfOursAreExcused

(* The network moves: only Cut, Heal and Fork touch what the monitor's     *)
(* notes are about. *)
LEMMA NetworkKeeps ==
    ASSUME IInv, Network, Settle < DTail
    PROVE  IInv'
<1> USE MonitorAssumption
    DEF IInv, Values, Noted, SplitIsOurs, Seen, ForksOfOursAreExcused, Blind, monitor, Client
<1>1. CASE Cut
  BY <1>1 DEF Cut
<1>2. CASE Heal
  <2>1. /\ cut /\ polled /\ ~cut' /\ cut' \in BOOLEAN /\ healed' = 0
        /\ UNCHANGED <<polled, side, wedged, monitor>>
    BY <1>2, Zenon DEF Heal
  <2> QED
    BY <2>1
<1>3. CASE Fork
  BY <1>3 DEF Fork
<1>4. CASE Unwind
  BY <1>4 DEF Unwind
<1>5. CASE Fail \/ Recover \/ Reject
  BY <1>5 DEF Fail, Recover, Reject
<1> QED
  BY <1>1, <1>2, <1>3, <1>4, <1>5 DEF Network

LEMMA StartupKeeps ==
    ASSUME IInv, Startup \/ summarise
    PROVE  IInv'
BY DEF IInv, Values, Noted, SplitIsOurs, ForksOfOursAreExcused, Blind, env, Startup, summarise,
       Exit, preflight, Baseline, selfTest, proveOracle, baselineBadBlocks, degrade

(* What a finding of any kind does to the notes. *)
LEMMA Finding ==
    ASSUME IInv, NEW msg, NEW skipped, finding(msg, skipped), UNCHANGED env
    PROVE  /\ lastDisruption' \in {0, lastDisruption}
           /\ Blind => Blind'
           /\ msg = "heads" \/ ("heads" \in found' <=> "heads" \in found)
BY DEF finding, noted, sampled, degrade, Blind

LEMMA LoopKeeps ==
    ASSUME IInv, Loop, Settle < DTail
    PROVE  IInv'
<1> USE MonitorAssumption
<1>1. CASE follow
  <2>1. UNCHANGED <<cut, side, wedged, found>> /\ at' = <<>> /\ pc' = "compare" /\ polled' = TRUE
    BY <1>1 DEF follow
  <2>2. /\ lastDisruption' \in Nat /\ healed' \in Nat
        /\ lastDisruption' <= lastDisruption + 1
        /\ healed <= Settle => healed' = healed + 1
        /\ healed' <= Settle => healed < Settle
    <3>1. lastDisruption \in Nat /\ healed \in Nat /\ Settle \in Nat /\ DTail \in Nat
      BY DEF IInv, Values
    <3>2. /\ healed' = Capped(healed, Settle + 1)
          /\ lastDisruption' \in {0, Capped(lastDisruption, DTail)}
      BY <1>1, Zenon DEF follow, noted
    <3>3. /\ lastDisruption' \in Nat
          /\ lastDisruption' <= lastDisruption + 1
      BY <3>1, <3>2 DEF Capped
    <3>4. /\ healed' \in Nat
          /\ healed <= Settle => healed' = healed + 1
          /\ healed' <= Settle => healed < Settle
      BY <3>1, <3>2 DEF Capped
    <3> QED
      BY <3>3, <3>4, Zenon
  <2>3. cut => Blind' \/ lastDisruption' = 0
    BY <1>1 DEF follow, noted, disrupted, sampled, degrade, Blind
  <2>4. Blind => Blind'
    BY <1>1 DEF follow, sampled, degrade, Blind
  <2>5. cut \/ healed < Settle \/ side \subseteq wedged
    BY <1>1 DEF follow, OnTime
  <2> QED
    BY <2>1, <2>2, <2>3, <2>4, <2>5
       DEF IInv, Values, Noted, SplitIsOurs, Seen, ForksOfOursAreExcused
<1>2. CASE ReadHead
  <2> DEFINE onSide == Asked \in side
  <2>1. onSide \in BOOLEAN
    <3>1. onSide = TRUE \/ onSide = FALSE
      OBVIOUS
    <3> QED
      BY <3>1
  <2>2. at' = Append(at, onSide) /\ UNCHANGED <<env, pc, degraded, lastDisruption, found>>
    BY <1>2, Zenon DEF ReadHead
  <2>3. at \in Seq(BOOLEAN)
    BY DEF IInv, Values
  <2>4. \A c \in Client : Seen(c)' => Seen(c) \/ onSide
    <3> HIDE DEF onSide
    <3> QED
      BY <2>1, <2>2, <2>3 DEF Seen, Client
  <2>5. at' \in Seq(BOOLEAN)
    <3> HIDE DEF onSide
    <3> QED
      BY <2>1, <2>2, <2>3
  <2>6. onSide => side # {}
    OBVIOUS
  <2> QED
    BY <1>2, <2>2, <2>4, <2>5, <2>6
       DEF ReadHead, IInv, Values, Noted, SplitIsOurs, ForksOfOursAreExcused, Blind, env
<1>3. CASE Unreachable
  BY <1>3
     DEF Unreachable, AfterHeads, IInv, Values, Noted, SplitIsOurs, ForksOfOursAreExcused,
         Blind, env
<1>4. CASE TimedOut
  <2>1. finding("hung", {}) /\ UNCHANGED <<env, at>> /\ pc' # "compare"
    BY <1>4 DEF TimedOut, AfterHeads
  <2> QED
    BY <2>1, Finding DEF IInv, Values, Noted, SplitIsOurs, ForksOfOursAreExcused, env
<1>5. CASE compareHeads
  <2>1. UNCHANGED <<env, at>> /\ pc' # "compare" /\ pc = "compare" /\ Asked \notin Client
    BY <1>5 DEF compareHeads, AfterHeads
  <2>2. CASE \A c \in Client : at[c] = at[1]
    BY <1>5, <2>1, <2>2
       DEF compareHeads, IInv, Values, Noted, SplitIsOurs, ForksOfOursAreExcused, Blind, env
  <2>3. CASE \E c \in Client : at[c] # at[1]
    <3>1. finding("heads", {})
      BY <1>5, <2>3 DEF compareHeads
    <3>2. \A c \in Client : c \in DOMAIN at /\ at[c] \in BOOLEAN
      BY <2>1 DEF Asked, Client, IInv, Values
    <3>3. \E c \in Client : Seen(c)
      <4>1. 1 \in Client
        BY MonitorAssumption DEF Client
      <4>2. PICK c \in Client : at[c] # at[1]
        BY <2>3
      <4>3. at[c] \/ at[1]
        BY <3>2, <4>1, <4>2, Zenon
      <4> QED
        BY <3>2, <4>1, <4>3, Zenon DEF Seen
    <3>4. \/ wedged # {} \/ Blind
          \/ lastDisruption < DTail
          \/ cut
      BY <2>1, <3>3 DEF IInv, SplitIsOurs
    <3>5. cut => disUp \/ Blind'
      BY <3>1 DEF finding, sampled, degrade, Blind
    <3>6. wedged # {} \/ Blind' \/ disruptedRecently
      BY <3>1, <3>4, <3>5, Finding, <2>1 DEF disruptedRecently, noted, disrupted
    <3>7. ForksOfOursAreExcused'
      BY <2>1, <3>1, <3>6, Finding DEF finding, IInv, ForksOfOursAreExcused, env
    <3> QED
      BY <2>1, <3>1, <3>7, Finding DEF IInv, Values, Noted, SplitIsOurs, env
  <2> QED
    BY <2>2, <2>3
<1>6. CASE assertNoBadBlocks
  <2>1. UNCHANGED <<env, at>> /\ pc' # "compare"
    BY <1>6 DEF assertNoBadBlocks
  <2>2. \/ \E skipped : finding("bad", skipped)
        \/ UNCHANGED <<lastDisruption, found>> /\ degraded \subseteq degraded'
    BY <1>6 DEF assertNoBadBlocks, degrade
  <2> QED
    BY <2>1, <2>2, Finding
       DEF IInv, Values, Noted, SplitIsOurs, ForksOfOursAreExcused, Blind, env
<1>7. CASE probe
  <2>1. UNCHANGED <<env, at>> /\ pc' # "compare"
    BY <1>7 DEF probe
  <2>2. \/ finding("probe", {})
        \/ UNCHANGED <<lastDisruption, found>> /\ degraded \subseteq degraded'
    BY <1>7 DEF probe, degrade
  <2> QED
    BY <2>1, <2>2, Finding
       DEF IInv, Values, Noted, SplitIsOurs, ForksOfOursAreExcused, Blind, env
<1> QED
  BY <1>1, <1>2, <1>3, <1>4, <1>5, <1>6, <1>7 DEF Loop

(* The fork of a partition outlives its heal, but not by longer than       *)
(* disruptionTail: then a disagreement between heads is counted only if a  *)
(* client is wedged or disruptoor could not be asked. *)
THEOREM OursAreExcused ==
    ASSUME Settle < DTail PROVE Spec => []ForksOfOursAreExcused
<1>1. IInv /\ [Next]_vars => IInv'
  <2> SUFFICES ASSUME IInv, [Next]_vars PROVE IInv'
    OBVIOUS
  <2>1. CASE UNCHANGED vars
    BY <2>1
       DEF vars, env, monitor, IInv, Values, Noted, SplitIsOurs, Seen, ForksOfOursAreExcused,
           Blind
  <2> QED
    BY <2>1, NetworkKeeps, StartupKeeps, LoopKeeps DEF Next
<1>2. IInv => ForksOfOursAreExcused
  BY DEF IInv
<1> QED
  BY <1>1, <1>2, InvInit, PTL DEF Spec

-----------------------------------------------------------------------------
(* Types. *)
Blocks == {"old", "planted", "new"}

NetworkTypes ==
    /\ cut \in BOOLEAN /\ disUp \in BOOLEAN /\ polled \in BOOLEAN
    /\ healed \in 0..(Settle + 1) /\ cuts \in 0..MaxCuts /\ faults \in 0..MaxFaults
    /\ cond \in [Client -> {"ok", "down", "hung"}]
    /\ side \subseteq Client /\ wedged \subseteq side
    /\ bad \in [Client -> SUBSET Blocks]

LoopTypes ==
    /\ pc \in {"preflight", "baseline", "selftest", "rebaseline", "poll", "compare", "bad",
               "probe", "stopped"}
    /\ ticks \in 0..(ProbeEvery - 1)
    /\ at \in Seq(BOOLEAN) /\ Len(at) \in 0..Clients
    /\ knownBad \in [Client -> SUBSET Blocks]
    /\ told \subseteq Client \X Blocks

NoteTypes ==
    /\ degraded \subseteq (Client \X {"baseline", "bad", "proof"}) \cup {<<0, "state">>}
    /\ lastDisruption \in 0..DTail
    /\ lastExpected \in [msg : {"", "hung", "bad", "probe"}, age : 0..ETail]
    /\ found \subseteq {"heads", "hung", "bad", "probe"}

Typed == NetworkTypes /\ LoopTypes /\ NoteTypes

LEMMA MonitorBounds ==
    /\ DTail \in Nat /\ DTail > 0 /\ ETail \in Nat /\ ETail > 0
    /\ ProbeEvery \in Nat /\ ProbeEvery > 0
    /\ Settle \in Nat /\ MaxCuts \in Nat /\ MaxFaults \in Nat /\ Clients \in Nat
BY MonitorAssumption

LEMMA NoneTyped == None \in [msg : {"", "hung", "bad", "probe"}, age : 0..ETail]
<1>1. 0 \in 0..ETail
  BY MonitorBounds
<1> QED
  BY <1>1 DEF None

LEMMA CappedTyped ==
    ASSUME NEW top \in Nat, NEW n \in 0..top
    PROVE  Capped(n, top) \in 0..top
BY DEF Capped

LEMMA NotedTyped ==
    ASSUME NEW age \in 0..DTail
    PROVE  noted(age) \in 0..DTail
<1>1. 0 \in 0..DTail
  BY MonitorBounds
<1> QED
  BY <1>1, Zenon DEF noted

LEMMA TypedIsTypeOK == Typed <=> TypeOK
BY DEF Typed, NetworkTypes, LoopTypes, NoteTypes, TypeOK, Blocks

LEMMA TypedAtFirst == Init => Typed
<1> SUFFICES ASSUME Init PROVE Typed
  OBVIOUS
<1> USE MonitorAssumption
<1>1. cut \in BOOLEAN /\ disUp \in BOOLEAN /\ polled \in BOOLEAN
  BY Zenon DEF Init
<1>2. NetworkTypes
  BY <1>1 DEF Init, NetworkTypes, Blocks
<1>3. at \in Seq(BOOLEAN) /\ Len(at) = 0
  BY DEF Init
<1>4. LoopTypes
  BY <1>3 DEF Init, LoopTypes
<1>5. NoteTypes
  <2>1. DTail \in 0..DTail
    BY MonitorBounds
  <2> QED
    BY <2>1, NoneTyped DEF Init, NoteTypes
<1> QED
  BY <1>2, <1>4, <1>5 DEF Typed

LEMMA NetworkTyped ==
    ASSUME Typed, Network
    PROVE  Typed'
<1> USE MonitorAssumption DEF NetworkTypes
<1>1. NetworkTypes /\ UNCHANGED monitor
  BY DEF Typed, Network, Cut, Heal, Fork, Unwind, Fail, Recover, Reject
<1>2. cut' \in BOOLEAN /\ disUp' \in BOOLEAN /\ polled' \in BOOLEAN
  BY <1>1, Zenon DEF Network, Cut, Heal, Fork, Unwind, Fail, Recover, Reject
<1>3. healed' \in 0..(Settle + 1) /\ cuts' \in 0..MaxCuts /\ faults' \in 0..MaxFaults
  BY <1>1 DEF Network, Cut, Heal, Fork, Unwind, Fail, Recover, Reject
<1>4. cond' \in [Client -> {"ok", "down", "hung"}]
  BY <1>1 DEF Network, Cut, Heal, Fork, Unwind, Fail, Recover, Reject
<1>5. side' \subseteq Client /\ wedged' \subseteq side'
  BY <1>1 DEF Network, Cut, Heal, Fork, Unwind, Fail, Recover, Reject
<1>6. bad' \in [Client -> SUBSET Blocks]
  BY <1>1 DEF Network, Cut, Heal, Fork, Unwind, Fail, Recover, Reject, Blocks
<1> QED
  BY <1>1, <1>2, <1>3, <1>4, <1>5, <1>6 DEF Typed, monitor, LoopTypes, NoteTypes

(* What a client is degraded for is a call of the monitor's. *)
LEMMA DegradeTyped ==
    ASSUME NoteTypes, NEW clients \in SUBSET Client, NEW call \in {"baseline", "bad", "proof"}
    PROVE  /\ degrade(clients, call) \subseteq (Client \X {"baseline", "bad", "proof"}) \cup {<<0, "state">>}
           /\ sampled \subseteq (Client \X {"baseline", "bad", "proof"}) \cup {<<0, "state">>}
<1>1. \A c \in clients : <<c, call>> \in Client \X {"baseline", "bad", "proof"}
  OBVIOUS
<1>2. degrade(clients, call) \subseteq (Client \X {"baseline", "bad", "proof"}) \cup {<<0, "state">>}
  <2>1. \A x \in {<<c, call>> : c \in clients} : x \in Client \X {"baseline", "bad", "proof"}
    BY <1>1
  <2> QED
    BY <2>1 DEF NoteTypes, degrade
<1>3. sampled \subseteq degraded \cup {<<0, "state">>}
  BY DEF degrade, sampled
<1> QED
  BY <1>2, <1>3 DEF NoteTypes

LEMMA FindingTyped ==
    ASSUME NoteTypes, NEW msg \in {"heads", "hung", "bad", "probe"}, NEW skipped, finding(msg, skipped),
           skipped \subseteq (Client \X {"baseline", "bad", "proof"}) \cup {<<0, "state">>},
           lastExpected' \in [msg : {"", "hung", "bad", "probe"}, age : 0..ETail]
    PROVE  NoteTypes'
<1>1. lastDisruption' \in 0..DTail
  BY NotedTyped DEF finding, NoteTypes
<1>2. degraded' \subseteq (Client \X {"baseline", "bad", "proof"}) \cup {<<0, "state">>}
  BY DegradeTyped DEF finding
<1>3. found' \subseteq {"heads", "hung", "bad", "probe"}
  BY DEF finding, NoteTypes
<1> QED
  BY <1>1, <1>2, <1>3 DEF NoteTypes

LEMMA AttributedTyped ==
    ASSUME NoteTypes, NEW msg \in {"hung", "bad", "probe"}
    PROVE  attributed(msg) \in [msg : {"", "hung", "bad", "probe"}, age : 0..ETail]
<1>1. [msg |-> msg, age |-> 0] \in [msg : {"", "hung", "bad", "probe"}, age : 0..ETail]
  <2>1. 0 \in 0..ETail
    BY MonitorBounds
  <2> QED
    BY <2>1
<1> QED
  BY <1>1 DEF attributed, NoteTypes

LEMMA StartupTyped ==
    ASSUME Typed, Startup \/ summarise
    PROVE  Typed'
<1> NetworkTypes /\ LoopTypes /\ NoteTypes
  BY DEF Typed
<1>1. CASE Exit
  BY <1>1 DEF Exit, env, Typed, NetworkTypes, LoopTypes, NoteTypes
<1>2. CASE preflight /\ ~Exit
  BY <1>2 DEF preflight, env, Typed, NetworkTypes, LoopTypes, NoteTypes
<1>3. ASSUME NEW next \in {"selftest", "poll"}, baselineBadBlocks(next) PROVE Typed'
  <2>1. knownBad' \in [Client -> SUBSET Blocks]
    BY <1>3 DEF baselineBadBlocks, NetworkTypes
  <2>2. degraded' \subseteq (Client \X {"baseline", "bad", "proof"}) \cup {<<0, "state">>}
    BY <1>3, DegradeTyped DEF baselineBadBlocks
  <2> QED
    BY <1>3, <2>1, <2>2 DEF baselineBadBlocks, env, Typed, NetworkTypes, LoopTypes, NoteTypes
<1>4. CASE selfTest /\ ~Exit
  <2>1. bad' \in [Client -> SUBSET Blocks]
    BY <1>4 DEF selfTest, NetworkTypes, Blocks
  <2> QED
    BY <1>4, <2>1 DEF selfTest, Typed, NetworkTypes, LoopTypes, NoteTypes
<1> QED
  BY <1>1, <1>2, <1>3, <1>4 DEF Startup, Baseline, proveOracle, summarise, preflight, selfTest

LEMMA LoopTyped ==
    ASSUME Typed, Loop
    PROVE  Typed'
<1> NetworkTypes /\ LoopTypes /\ NoteTypes
  BY DEF Typed
<1>1. CASE follow
  <2> USE <1>1, MonitorAssumption DEF follow
  <2>1. NetworkTypes'
    <3>1. healed' \in 0..(Settle + 1)
      BY DEF Capped, NetworkTypes
    <3>2. polled' \in BOOLEAN
      BY Zenon
    <3> QED
      BY <3>1, <3>2 DEF NetworkTypes
  <2>2. LoopTypes'
    <3>1. ticks' \in 0..(ProbeEvery - 1)
      BY DEF LoopTypes
    <3>2. at' \in Seq(BOOLEAN) /\ Len(at') = 0
      OBVIOUS
    <3> QED
      BY <3>1, <3>2 DEF LoopTypes
  <2>3. lastDisruption' \in 0..DTail
    <3>1. lastDisruption \in 0..DTail /\ DTail \in Nat
      BY MonitorBounds DEF NoteTypes
    <3>2. Capped(lastDisruption, DTail) \in 0..DTail
      BY <3>1, CappedTyped
    <3> QED
      BY <3>2, NotedTyped
  <2>4. lastExpected' \in [msg : {"", "hung", "bad", "probe"}, age : 0..ETail]
    <3>1. lastExpected \in [msg : {"", "hung", "bad", "probe"}, age : 0..ETail]
      BY DEF NoteTypes
    <3>2. Capped(lastExpected.age, ETail) \in 0..ETail
      <4>1. lastExpected.age \in 0..ETail /\ ETail \in Nat
        BY <3>1, MonitorBounds
      <4> QED
        BY <4>1, CappedTyped
    <3>3. [lastExpected EXCEPT !.age = Capped(@, ETail)]
              \in [msg : {"", "hung", "bad", "probe"}, age : 0..ETail]
      BY <3>1, <3>2
    <3> QED
      BY <3>3, NoneTyped
  <2>5. degraded' \subseteq (Client \X {"baseline", "bad", "proof"}) \cup {<<0, "state">>}
    BY DEF sampled, degrade, NoteTypes
  <2> QED
    BY <2>1, <2>2, <2>3, <2>4, <2>5 DEF Typed, NoteTypes
<1>2. CASE ReadHead
  <2>1. at' \in Seq(BOOLEAN) /\ Len(at') = Len(at) + 1
    BY <1>2 DEF ReadHead, LoopTypes
  <2>2. Len(at') \in 0..Clients
    BY <1>2, <2>1, MonitorAssumption DEF ReadHead, Asked, Client, LoopTypes
  <2> QED
    BY <1>2, <2>1, <2>2 DEF ReadHead, env, Typed, NetworkTypes, LoopTypes, NoteTypes
<1>3. CASE Unreachable
  BY <1>3 DEF Unreachable, AfterHeads, env, Typed, NetworkTypes, LoopTypes, NoteTypes
<1>4. CASE TimedOut
  <2>1. NoteTypes'
    BY <1>4, AttributedTyped, FindingTyped DEF TimedOut
  <2> QED
    BY <1>4, <2>1 DEF TimedOut, AfterHeads, env, Typed, NetworkTypes, LoopTypes
<1>5. CASE compareHeads
  <2>1. lastExpected' \in [msg : {"", "hung", "bad", "probe"}, age : 0..ETail]
    BY <1>5, NoneTyped DEF compareHeads
  <2>2. NoteTypes'
    <3>1. CASE finding("heads", {})
      BY <2>1, <3>1, FindingTyped
    <3>2. CASE UNCHANGED <<found, lastDisruption, degraded>>
      BY <2>1, <3>2 DEF NoteTypes
    <3> QED
      BY <1>5, <3>1, <3>2 DEF compareHeads
  <2> QED
    BY <1>5, <2>2 DEF compareHeads, AfterHeads, env, Typed, NetworkTypes, LoopTypes
<1>6. CASE assertNoBadBlocks
  <2> DEFINE skipped == degrade(Looked \ Answering, "bad")
             news    == Looked \cap WithNews
  <2>1. Looked \subseteq Client
    BY DEF Looked
  <2>2. /\ knownBad' = [c \in Client |-> IF c \in news THEN bad[c] \cup knownBad[c]
                                                       ELSE knownBad[c]]
        /\ told' = told \cup UNION {{<<c, b>> : b \in Fresh(c)} : c \in news}
        /\ \/ degraded' = skipped /\ UNCHANGED <<lastDisruption, lastExpected, found>>
           \/ finding("bad", skipped) /\ lastExpected' = attributed("bad")
        /\ UNCHANGED <<env, ticks, at>> /\ pc' = "probe"
    BY <1>6 DEF assertNoBadBlocks
  <2>3. skipped \subseteq (Client \X {"baseline", "bad", "proof"}) \cup {<<0, "state">>}
    BY <2>1, DegradeTyped
  <2>4. knownBad' \in [Client -> SUBSET Blocks]
    BY <2>2 DEF NetworkTypes, LoopTypes
  <2>5. \A c \in Client : Fresh(c) \subseteq Blocks
    BY DEF Fresh, NetworkTypes
  <2>6. told' \subseteq Client \X Blocks
    BY <2>1, <2>2, <2>5 DEF LoopTypes
  <2> HIDE DEF skipped, news
  <2>7. NoteTypes'
    <3>1. CASE degraded' = skipped /\ UNCHANGED <<lastDisruption, lastExpected, found>>
      BY <2>3, <3>1 DEF NoteTypes
    <3>2. CASE finding("bad", skipped) /\ lastExpected' = attributed("bad")
      BY <2>3, <3>2, AttributedTyped, FindingTyped
    <3> QED
      BY <2>2, <3>1, <3>2
  <2> QED
    BY <2>2, <2>4, <2>6, <2>7 DEF env, Typed, NetworkTypes, LoopTypes
<1>7. CASE probe
  <2>1. NoteTypes'
    <3>1. CASE finding("probe", {}) /\ lastExpected' = attributed("probe")
      BY <3>1, AttributedTyped, FindingTyped
    <3>2. CASE /\ degraded' = degrade(Client \ Answering, "proof")
               /\ UNCHANGED <<lastDisruption, lastExpected, found>>
      BY <3>2, DegradeTyped DEF NoteTypes
    <3> QED
      BY <1>7, <3>1, <3>2 DEF probe
  <2> QED
    BY <1>7, <2>1 DEF probe, env, Typed, NetworkTypes, LoopTypes
<1> QED
  BY <1>1, <1>2, <1>3, <1>4, <1>5, <1>6, <1>7 DEF Loop

(* The type invariant of the monitor beside its network. *)
THEOREM MonitorTypeCorrect == Spec => []TypeOK
<1>1. Typed /\ [Next]_vars => Typed'
  <2> SUFFICES ASSUME Typed, [Next]_vars PROVE Typed'
    OBVIOUS
  <2>1. CASE UNCHANGED vars
    BY <2>1 DEF vars, env, monitor, Typed, NetworkTypes, LoopTypes, NoteTypes
  <2> QED
    BY <2>1, NetworkTyped, StartupTyped, LoopTyped DEF Next
<1> QED
  BY <1>1, TypedAtFirst, TypedIsTypeOK, PTL DEF Spec
=============================================================================
