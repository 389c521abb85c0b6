----------------------------- MODULE PbtMonitor -----------------------------
(***************************************************************************)
(* cmd/pbtmonitor: one process follows the clients of a devnet that is     *)
(* split on purpose, and decides which disagreements are a client's fault. *)
(* The network runs beside it: partitions are applied and healed, a fork   *)
(* outlives its heal, clients die, hang, wedge on their branch, or reject  *)
(* a block.                                                                *)
(***************************************************************************)
EXTENDS Integers, Sequences

CONSTANTS
    Clients,     \* how many execution clients; client 1 builds the self-test's block
    DTail,        \* disruptionTail, in polls
    ETail,       \* explainedTail, in polls
    ProbeEvery,  \* probeEvery, in polls
    Settle,      \* polls a fork may outlive the heal of the cut that made it
    MaxCuts,     \* bound: partitions applied
    MaxFaults    \* bound: clients dying or hanging, disruptoor not answering

ASSUME MonitorAssumption ==
    /\ Clients \in Nat \ {0, 1}
    /\ {DTail, ETail, ProbeEvery} \subseteq Nat \ {0} /\ DTail < ETail
    /\ {Settle, MaxCuts, MaxFaults} \subseteq Nat

Client == 1..Clients

VARIABLES
    cut,      \* disruptoor holds a partition
    disUp,    \* disruptoor answers
    healed,   \* polls since the latest heal, at most Settle + 1
    polled,   \* the monitor has polled since the latest cut
    cuts, faults,  \* bounds' counters
    cond,     \* client -> "ok", "down" (unreachable) or "hung" (accepts, never answers)
    side,     \* clients whose chain differs from the others' at the lowest head
    wedged,   \* clients that will not come back from their branch
    bad,      \* client -> blocks its debug_getBadBlocks lists
    pc, ticks,
    at,       \* the hashes compareHeads has read so far
    knownBad,
    degraded, \* <<client, call>>: what has been reported unavailable
    lastDisruption,  \* polls since disruptoor was last seen holding state, at most DTail
    lastExpected,    \* [msg, age]: the latest suppressed message and its age, at most ETail
    found,    \* what m.findings has counted
    told      \* <<client, block>>: rejections passed to finding()

env     == <<cut, disUp, healed, polled, cuts, faults, cond, side, wedged, bad>>
monitor == <<pc, ticks, at, knownBad, degraded, lastDisruption, lastExpected, found, told>>
vars    == <<env, monitor>>

None == [msg |-> "", age |-> 0]
Following == pc \in {"poll", "compare", "bad", "probe"}

-----------------------------------------------------------------------------
(* The network. *)

Cut ==
    /\ ~cut /\ cuts < MaxCuts /\ Following
    /\ cut' = TRUE /\ polled' = FALSE /\ cuts' = cuts + 1
    /\ UNCHANGED <<disUp, healed, faults, cond, side, wedged, bad, monitor>>

(* A partition lasts until the monitor has polled under it: the shortest   *)
(* one, a three-block isolation, is nine polls. *)
Heal ==
    /\ cut /\ polled
    /\ cut' = FALSE /\ healed' = 0
    /\ UNCHANGED <<disUp, polled, cuts, faults, cond, side, wedged, bad, monitor>>

Fork ==
    /\ cut
    /\ \E c \in Client \ side :
          /\ side \cup {c} # Client
          /\ side' = side \cup {c}
          /\ wedged' \in {wedged, wedged \cup {c}}
    /\ UNCHANGED <<cut, disUp, healed, polled, cuts, faults, cond, bad, monitor>>

Unwind ==
    /\ ~cut
    /\ \E c \in side \ wedged : side' = side \ {c}
    /\ UNCHANGED <<cut, disUp, healed, polled, cuts, faults, cond, wedged, bad, monitor>>

Fail ==
    /\ faults < MaxFaults
    /\ faults' = faults + 1
    /\ \/ /\ \E c \in Client, v \in {"down", "hung"} :
                cond[c] = "ok" /\ cond' = [cond EXCEPT ![c] = v]
          /\ UNCHANGED disUp
       \/ disUp /\ disUp' = FALSE /\ UNCHANGED cond
    /\ UNCHANGED <<cut, healed, polled, cuts, side, wedged, bad, monitor>>

Recover ==
    /\ \/ /\ \E c \in Client : cond[c] # "ok" /\ cond' = [cond EXCEPT ![c] = "ok"]
          /\ UNCHANGED disUp
       \/ ~disUp /\ disUp' = TRUE /\ UNCHANGED cond
    /\ UNCHANGED <<cut, healed, polled, cuts, faults, side, wedged, bad, monitor>>

Reject ==
    /\ Following
    /\ \E c \in Client : "new" \notin bad[c] /\ bad' = [bad EXCEPT ![c] = @ \cup {"new"}]
    /\ UNCHANGED <<cut, disUp, healed, polled, cuts, faults, cond, side, wedged, monitor>>

Network == Cut \/ Heal \/ Fork \/ Unwind \/ Fail \/ Recover \/ Reject

-----------------------------------------------------------------------------
(* Attribution. *)

(* noteDisruption: an unreachable disruptoor counts as whole. *)
disrupted == cut /\ disUp
noted(age) == IF disrupted THEN 0 ELSE age

disruptedRecently == noted(lastDisruption) < DTail

(* Mutant of Explained: no bound. *)
AlwaysExplained(msg) == lastExpected.msg = msg

Explained(msg) == lastExpected.msg = msg /\ lastExpected.age < ETail

(* degrade: once per client and call; disruptoor is client 0. *)
degrade(clients, call) == degraded \cup {<<c, call>> : c \in clients}

sampled == degrade(IF disUp THEN {} ELSE {0}, "state")

(* finding, but for the attribution it leaves behind: attributed. *)
finding(msg, skipped) ==
    /\ lastDisruption' = noted(lastDisruption)
    /\ degraded' = sampled \cup skipped
    /\ IF disruptedRecently \/ Explained(msg)
       THEN UNCHANGED found
       ELSE found' = found \cup {msg}

attributed(msg) ==
    IF disruptedRecently /\ lastExpected.msg # msg THEN [msg |-> msg, age |-> 0]
                                                   ELSE lastExpected

-----------------------------------------------------------------------------
(* Startup. *)

Exit == /\ pc' = "stopped"
        /\ UNCHANGED <<env, ticks, at, knownBad, degraded, lastDisruption, lastExpected,
                       found, told>>

(* Every client answers, on one chain; and every client's latest, read one *)
(* after the other, is the same block.  A block arriving between two of    *)
(* those reads fails it too. *)
preflight ==
    /\ pc = "preflight"
    /\ \/ Exit
       \/ /\ \A c \in Client : cond[c] = "ok"
          /\ side = {}
          /\ pc' = "baseline"
          /\ UNCHANGED <<env, ticks, at, knownBad, degraded, lastDisruption, lastExpected,
                         found, told>>

Answering == {c \in Client : cond[c] = "ok"}

baselineBadBlocks(next) ==
    /\ knownBad' = [c \in Client |-> IF c \in Answering THEN bad[c] ELSE {}]
    /\ degraded' = degrade(Client \ Answering, "baseline")
    /\ pc' = next
    /\ UNCHANGED <<env, ticks, at, lastDisruption, lastExpected, found, told>>

Baseline == pc = "baseline" /\ baselineBadBlocks("selftest")

(* Client 1 builds on its head, once there is one to build on. *)
awaitFirstBlock == cond[1] = "ok"
buildPayload    == cond[1] = "ok"

(* Something is saved from some client. *)
captureDivergence == Answering # {}

(* Every client but the builder answers INVALID to the corrupted block and *)
(* keeps it on disk; anything else ends the run. *)
selfTest ==
    /\ pc = "selftest"
    /\ \/ Exit
       \/ /\ awaitFirstBlock /\ buildPayload
          /\ Client \ {1} \subseteq Answering
          /\ captureDivergence
          /\ bad' = [c \in Client |-> IF c = 1 THEN bad[c] ELSE bad[c] \cup {"planted"}]
          /\ pc' = "rebaseline"
          /\ UNCHANGED <<cut, disUp, healed, polled, cuts, faults, cond, side, wedged, ticks, at,
                         knownBad, degraded, lastDisruption, lastExpected, found, told>>

proveOracle == pc = "rebaseline" /\ baselineBadBlocks("poll")

-----------------------------------------------------------------------------
(* The loop. *)

(* Polls are spaced by real time: a fork with no client at fault is over   *)
(* Settle polls after its heal. *)
OnTime == cut \/ healed < Settle \/ side \subseteq wedged

Capped(n, top) == IF n < top THEN n + 1 ELSE top

(* Mutant of follow: disruptoor is asked only when a divergence is judged. *)
UnsampledFollow ==
    /\ pc = "poll" /\ OnTime
    /\ healed' = Capped(healed, Settle + 1) /\ polled' = TRUE
    /\ ticks' = (ticks + 1) % ProbeEvery
    /\ lastDisruption' = Capped(lastDisruption, DTail)
    /\ lastExpected' = IF lastExpected = None THEN None
                       ELSE [lastExpected EXCEPT !.age = Capped(@, ETail)]
    /\ UNCHANGED degraded
    /\ at' = <<>> /\ pc' = "compare"
    /\ UNCHANGED <<cut, disUp, cuts, faults, cond, side, wedged, bad, knownBad, found, told>>

(* follow: a tick of the poll timer, and noteDisruption. *)
follow ==
    /\ pc = "poll" /\ OnTime
    /\ healed' = Capped(healed, Settle + 1) /\ polled' = TRUE
    /\ ticks' = (ticks + 1) % ProbeEvery
    /\ lastDisruption' = noted(Capped(lastDisruption, DTail))
    /\ lastExpected' = IF lastExpected = None THEN None
                       ELSE [lastExpected EXCEPT !.age = Capped(@, ETail)]
    /\ degraded' = sampled
    /\ at' = <<>> /\ pc' = "compare"
    /\ UNCHANGED <<cut, disUp, cuts, faults, cond, side, wedged, bad, knownBad, found, told>>

AfterHeads == IF ticks = 0 THEN "bad" ELSE "poll"

(* compareHeads reads the clients one after the other; the network moves   *)
(* between two reads. *)
Asked == Len(at) + 1

ReadHead ==
    /\ pc = "compare" /\ Asked \in Client
    /\ cond[Asked] = "ok"
    /\ at' = Append(at, Asked \in side)
    /\ UNCHANGED <<env, pc, ticks, knownBad, degraded, lastDisruption, lastExpected, found, told>>

Unreachable ==
    /\ pc = "compare" /\ Asked \in Client
    /\ cond[Asked] = "down"
    /\ pc' = AfterHeads
    /\ UNCHANGED <<env, ticks, at, knownBad, degraded, lastDisruption, lastExpected, found, told>>

(* A client that takes the connection and does not answer is a finding. *)
TimedOut ==
    /\ pc = "compare" /\ Asked \in Client
    /\ cond[Asked] = "hung"
    /\ finding("hung", {})
    /\ lastExpected' = attributed("hung")
    /\ pc' = AfterHeads
    /\ UNCHANGED <<env, ticks, at, knownBad, told>>

(* compareHeads returns nil after a finding of its own too, and follow     *)
(* then forgets what was explained. *)
compareHeads ==
    /\ pc = "compare" /\ Asked \notin Client
    /\ IF \E c \in Client : at[c] # at[1]
       THEN finding("heads", {})
       ELSE UNCHANGED <<found, lastDisruption, degraded>>
    /\ lastExpected' = None
    /\ pc' = AfterHeads
    /\ UNCHANGED <<env, ticks, at, knownBad, told>>

Fresh(c) == bad[c] \ knownBad[c]

(* The clients it reaches: those up to the first that answers with a fresh *)
(* block. *)
WithNews == {c \in Answering : Fresh(c) # {}}
Looked   == {c \in Client : \A d \in WithNews : c <= d}

(* Mutant of assertNoBadBlocks: everything listed becomes known at once. *)
ForgetTheRest ==
    /\ pc = "bad"
    /\ pc' = "probe"
    /\ knownBad' = [c \in Client |-> IF c \in Answering THEN bad[c] ELSE knownBad[c]]
    /\ told' = told \cup UNION {{<<c, b>> : b \in Fresh(c)} : c \in Looked \cap WithNews}
    /\ IF WithNews = {}
       THEN /\ degraded' = degrade(Looked \ Answering, "bad")
            /\ UNCHANGED <<lastDisruption, lastExpected, found>>
       ELSE finding("bad", {}) /\ lastExpected' = attributed("bad")
    /\ UNCHANGED <<env, ticks, at>>

assertNoBadBlocks ==
    /\ pc = "bad"
    /\ pc' = "probe"
    /\ LET skipped == degrade(Looked \ Answering, "bad")
           news    == Looked \cap WithNews
       IN  /\ knownBad' = [c \in Client |-> IF c \in news THEN bad[c] \cup knownBad[c]
                                                          ELSE knownBad[c]]
           /\ told' = told \cup UNION {{<<c, b>> : b \in Fresh(c)} : c \in news}
           /\ IF news = {}
              THEN /\ degraded' = skipped
                   /\ UNCHANGED <<lastDisruption, lastExpected, found>>
              ELSE finding("bad", skipped) /\ lastExpected' = attributed("bad")
    /\ UNCHANGED <<env, ticks, at>>

(* Proofs are read at each client's latest: a block landing between two    *)
(* reads makes them differ as a fork does. *)
probe ==
    /\ pc = "probe"
    /\ pc' = "poll"
    /\ \E moved \in BOOLEAN :
          IF Answering = Client /\ (moved \/ side # {})
          THEN finding("probe", {}) /\ lastExpected' = attributed("probe")
          ELSE /\ degraded' = degrade(Client \ Answering, "proof")
               /\ UNCHANGED <<lastDisruption, lastExpected, found>>
    /\ UNCHANGED <<env, ticks, at, knownBad, told>>

(* summarise: the exit status is whether anything was found. *)
summarise == pc = "poll" /\ Exit

-----------------------------------------------------------------------------
Init ==
    /\ cut = FALSE /\ disUp = TRUE /\ healed = Settle + 1 /\ polled = TRUE
    /\ cuts = 0 /\ faults = 0
    /\ cond = [c \in Client |-> "ok"]
    /\ side = {} /\ wedged = {}
    /\ bad = [c \in Client |-> {"old"}]
    /\ pc = "preflight" /\ ticks = 0 /\ at = <<>>
    /\ knownBad = [c \in Client |-> {}] /\ degraded = {}
    /\ lastDisruption = DTail /\ lastExpected = None
    /\ found = {} /\ told = {}

Loop == follow \/ ReadHead \/ Unreachable \/ TimedOut \/ compareHeads \/ assertNoBadBlocks
        \/ probe
Startup == preflight \/ Baseline \/ selfTest \/ proveOracle

Next == Network \/ Startup \/ Loop \/ summarise

Spec == Init /\ [][Next]_vars

(* The poll timer keeps firing and every call of the loop returns; the     *)
(* harness heals what it splits, and a fork with nobody at fault ends. *)
FairSpec == Spec /\ WF_vars(Startup) /\ WF_vars(Loop) /\ WF_vars(Heal) /\ WF_vars(Unwind)

-----------------------------------------------------------------------------
TypeOK ==
    /\ {cut, disUp, polled} \subseteq BOOLEAN
    /\ healed \in 0..(Settle + 1) /\ cuts \in 0..MaxCuts /\ faults \in 0..MaxFaults
    /\ cond \in [Client -> {"ok", "down", "hung"}]
    /\ side \subseteq Client /\ wedged \subseteq side
    /\ bad \in [Client -> SUBSET {"old", "planted", "new"}]
    /\ pc \in {"preflight", "baseline", "selftest", "rebaseline", "poll", "compare", "bad",
               "probe", "stopped"}
    /\ ticks \in 0..(ProbeEvery - 1)
    /\ at \in Seq(BOOLEAN) /\ Len(at) \in 0..Clients
    /\ knownBad \in [Client -> SUBSET {"old", "planted", "new"}]
    /\ degraded \subseteq (Client \X {"baseline", "bad", "proof"}) \cup {<<0, "state">>}
    /\ lastDisruption \in 0..DTail
    /\ lastExpected \in [msg : {"", "hung", "bad", "probe"}, age : 0..ETail]
    /\ found \subseteq {"heads", "hung", "bad", "probe"}
    /\ told \subseteq Client \X {"old", "planted", "new"}

Blind == <<0, "state">> \in degraded

(* A disagreement between heads is counted against the clients only when a *)
(* client is wedged, or disruptoor could not say that the fork was ours:   *)
(* the fork of every partition outlives its heal, and the loser unwinds    *)
(* when nothing is applied any more. *)
ForksOfOursAreExcused == "heads" \in found => wedged # {} \/ Blind

(* A rejection during the run reaches finding(), whatever else the other   *)
(* clients rejected before it, unless the oracle is listed as degraded. *)
RejectionsAreTold ==
    \A c \in Client :
        "new" \in bad[c] ~> \/ <<c, "new">> \in told
                            \/ <<c, "bad">> \in degraded
                            \/ pc = "stopped"

(* A client that never comes back to the chain, or never answers again, is *)
(* counted as a finding however long our own partition excused it. *)
StuckIsFound ==
    /\ (<>[](wedged # {} /\ Answering = Client)) => <>("heads" \in found \/ pc = "stopped")
    /\ (<>[](\E c \in Client : cond[c] = "hung" /\ \A d \in 1..(c - 1) : cond[d] = "ok"))
          => <>("hung" \in found \/ pc = "stopped")
=============================================================================
