---------------------------- MODULE OfflineWatch ----------------------------
(***************************************************************************)
(* cmd/migration-swap and cmd/migration-monitor around one consumer of an  *)
(* offline migration: the swap takes the node down, imports and restarts   *)
(* it, and pushes each step once; the monitor polls and samples the node   *)
(* meanwhile, and knows only what the pushes and its own readings say.  A  *)
(* push may be lost, or applied after the swap gave up on it.              *)
(***************************************************************************)
EXTENDS Integers

CONSTANTS
    NullLimit,  \* NullCriticalAfterMinutes, in ticks
    SlowReplay, \* BOOLEAN: the monitor polls between the swap's first look at a
                \* restarted consumer and what it says next
    MaxLost,    \* bound: pushes lost
    MaxLate     \* bound: pushes applied late

ASSUME OfflineWatchAssumption ==
    {NullLimit, MaxLost, MaxLate} \subseteq Nat /\ SlowReplay \in BOOLEAN

VARIABLES
    swap,      \* where swapBody is
    reachable, \* it has seen the restarted node answer
    node,      \* the consumer: live, down, importing, behind, synced, dead
    unseen,    \* ticks since the imported node came up, or last answered a root
    late, lost, lates,  \* pushes on their way, and the bounds' counters
    importer, reset,    \* the monitor's lifecycle and its pending reset
    pc,        \* the monitor's goroutine: idle, read, derive or sample
    have,      \* haveProgress and haveHead
    behind,    \* the latest reading: the cursor trails the tip
    active, streak,     \* NullTracker: active, and ticks since lastNonNull
    alarm      \* null-critical: none, earned, or misfired

swapVars    == <<swap, reachable>>
nodeVars    == <<node, unseen>>
pushes      == <<late, lost, lates>>
lifecycle   == <<importer, reset>>
monitorVars == <<pc, have, behind, active, streak, alarm>>
vars == <<swapVars, nodeVars, pushes, lifecycle, monitorVars>>

quietSteps == {"disconnecting", "importing", "reconnecting", "replaying"}
quiet      == importer \in quietSteps

Answers == node \in {"live", "behind", "synced"}

-----------------------------------------------------------------------------
(* Pushes. *)

(* Mutant of apply: a reconnected consumer keeps its per-node state. *)
AppliesOnly(step) == importer' = step /\ UNCHANGED reset

apply(step) ==
    /\ reset' = (reset \/ (step = "reconnecting" /\ importer # step))
    /\ importer' = step

postLifecycle(step) ==
    \/ apply(step) /\ UNCHANGED pushes
    \/ lost < MaxLost /\ lost' = lost + 1 /\ UNCHANGED <<late, lates, lifecycle>>
    \/ lates < MaxLate /\ lates' = lates + 1 /\ late' = late \cup {step}
       /\ UNCHANGED <<lost, lifecycle>>

Arrives ==
    /\ \E s \in late : apply(s) /\ late' = late \ {s}
    /\ UNCHANGED <<swapVars, nodeVars, lost, lates, monitorVars>>

-----------------------------------------------------------------------------
(* swapBody. *)

Disconnect ==
    /\ swap = "waiting"
    /\ postLifecycle("disconnecting")
    /\ swap' = "stopping"
    /\ UNCHANGED <<reachable, nodeVars, monitorVars>>

Stop ==
    /\ swap = "stopping"
    /\ swap' = "copying" /\ node' = "down"
    /\ UNCHANGED <<reachable, unseen, pushes, lifecycle, monitorVars>>

Import ==
    /\ swap = "copying"
    /\ postLifecycle("importing")
    /\ swap' = "starting"
    /\ UNCHANGED <<reachable, nodeVars, monitorVars>>

Start ==
    /\ swap = "starting"
    /\ swap' = "polling" /\ node' = "importing"
    /\ UNCHANGED <<reachable, unseen, pushes, lifecycle, monitorVars>>

Reconnect ==
    /\ swap = "polling" /\ ~reachable
    /\ Answers
    /\ postLifecycle("reconnecting")
    /\ reachable' = TRUE
    /\ UNCHANGED <<swap, nodeVars, monitorVars>>

Polled == SlowReplay => ~reset

CaughtUp ==
    /\ swap = "polling" /\ reachable
    /\ node = "synced"
    /\ Polled
    /\ postLifecycle("caught_up")
    /\ swap' = "over"
    /\ UNCHANGED <<reachable, nodeVars, monitorVars>>

TimedOut ==
    /\ swap = "polling" /\ Polled
    /\ postLifecycle("timeout")
    /\ swap' = "over"
    /\ UNCHANGED <<reachable, nodeVars, monitorVars>>

(* A staging, a stop or a copy that fails; a container that is gone, or    *)
(* that says its import failed. *)
Failed ==
    /\ \/ swap \in {"waiting", "stopping", "copying"}
       \/ swap = "polling" /\ (node = "dead" \/ ~reachable) /\ Polled
    /\ postLifecycle("failed")
    /\ swap' = "over"
    /\ UNCHANGED <<reachable, nodeVars, monitorVars>>

swapBody == Disconnect \/ Stop \/ Import \/ Start \/ Reconnect \/ CaughtUp \/ TimedOut \/ Failed

(* The consumer. *)
Imported ==
    /\ node = "importing"
    /\ node' \in {"behind", "dead"} /\ unseen' = 0
    /\ UNCHANGED <<swapVars, pushes, lifecycle, monitorVars>>

Replayed ==
    /\ node = "behind" /\ node' = "synced"
    /\ UNCHANGED <<swapVars, unseen, pushes, lifecycle, monitorVars>>

-----------------------------------------------------------------------------
(* The monitor's poll of the node, its reads apart from its decisions. *)

takeReset ==
    /\ pc = "idle"
    /\ reset' = FALSE
    /\ have' = (have /\ ~reset) /\ active' = (active /\ ~reset)
    /\ pc' = "read"
    /\ UNCHANGED <<swapVars, nodeVars, pushes, importer, behind, streak, alarm>>

pollOnce ==
    /\ pc = "read"
    /\ IF Answers THEN have' = TRUE /\ behind' = (node = "behind")
                  ELSE UNCHANGED <<have, behind>>
    /\ pc' = "derive"
    /\ UNCHANGED <<swapVars, nodeVars, pushes, lifecycle, active, streak, alarm>>

(* Mutant of derive: the swap's word only. *)
DeriveReplaying ==
    /\ pc = "derive"
    /\ importer' = IF have /\ ~reset /\ importer = "reconnecting" THEN "replaying" ELSE importer
    /\ pc' = "idle"
    /\ UNCHANGED <<swapVars, nodeVars, pushes, reset, have, behind, active, streak, alarm>>

derive ==
    /\ pc = "derive"
    /\ importer' = IF have /\ ~reset /\ importer \in {"reconnecting", "replaying"}
                   THEN IF behind THEN "replaying" ELSE "caught_up"
                   ELSE importer
    /\ pc' = "idle"
    /\ UNCHANGED <<swapVars, nodeVars, pushes, reset, have, behind, active, streak, alarm>>

sampleAt ==
    /\ pc = "idle" /\ ~quiet
    /\ pc' = "sample"
    /\ UNCHANGED <<swapVars, nodeVars, pushes, lifecycle, have, behind, active, streak, alarm>>

Skipped ==
    /\ pc = "sample" /\ ~Answers
    /\ pc' = "idle"
    /\ UNCHANGED <<swapVars, nodeVars, pushes, lifecycle, have, behind, active, streak, alarm>>

(* NullTracker.Observe.  An imported node may hold no root for the height  *)
(* sampled; Drop discards what is emitted about a quiet node. *)
Observe ==
    /\ pc = "sample" /\ Answers
    /\ \E null \in {FALSE} \cup {node # "live"} :
          LET since == IF have /\ active /\ null THEN streak ELSE 0
          IN  /\ active' = have
              /\ streak' = since
              /\ unseen' = IF null THEN unseen ELSE 0
              /\ alarm' = IF have /\ null /\ since > NullLimit /\ ~quiet
                          THEN IF unseen > NullLimit THEN "earned" ELSE "misfired"
                          ELSE alarm
    /\ pc' = "idle"
    /\ UNCHANGED <<swapVars, node, pushes, lifecycle, have, behind>>

Capped(n) == IF n > NullLimit THEN n ELSE n + 1

Tick ==
    /\ streak' = IF active THEN Capped(streak) ELSE streak
    /\ unseen' = IF node \in {"behind", "synced"} THEN Capped(unseen) ELSE unseen
    /\ UNCHANGED <<swapVars, node, pushes, lifecycle, pc, have, behind, active, alarm>>

-----------------------------------------------------------------------------
Init ==
    /\ swap = "waiting" /\ reachable = FALSE
    /\ node = "live" /\ unseen = 0
    /\ late = {} /\ lost = 0 /\ lates = 0
    /\ importer = "pending" /\ reset = FALSE
    /\ pc = "idle" /\ have = FALSE /\ behind = FALSE
    /\ active = FALSE /\ streak = 0 /\ alarm = "none"

Poll   == takeReset \/ pollOnce \/ derive
Sample == sampleAt \/ Skipped \/ Observe

Next == swapBody \/ Imported \/ Replayed \/ Arrives \/ Poll \/ Sample \/ Tick

Spec == Init /\ [][Next]_vars

(* The swap's and the monitor's loops go on; the select loop takes both    *)
(* its tickers; a running client replays. *)
FairSpec == Spec /\ WF_vars(swapBody) /\ WF_vars(Imported) /\ WF_vars(Replayed)
                 /\ SF_vars(takeReset) /\ WF_vars(pollOnce) /\ WF_vars(derive)
                 /\ WF_vars(Skipped \/ Observe)

-----------------------------------------------------------------------------
TypeOK ==
    /\ swap \in {"waiting", "stopping", "copying", "starting", "polling", "over"}
    /\ node \in {"live", "down", "importing", "behind", "synced", "dead"}
    /\ late \subseteq {"disconnecting", "importing", "reconnecting", "caught_up", "timeout", "failed"}
    /\ lost \in 0..MaxLost /\ lates \in 0..MaxLate
    /\ importer \in {"pending", "disconnecting", "importing", "reconnecting", "replaying",
                     "caught_up", "timeout", "failed"}
    /\ pc \in {"idle", "read", "derive", "sample"}
    /\ {reachable, reset, have, behind, active} \subseteq BOOLEAN
    /\ {unseen, streak} \subseteq 0..(NullLimit + 1)
    /\ alarm \in {"none", "earned", "misfired"}

Delivered == lost = 0 /\ lates = 0

(* Nothing is found about a consumer for what its swap did to it.  While    *)
(* the swap has the node down, importing or replaying, no finding about it  *)
(* is emitted: the monitor has every push, and derives the end of the       *)
(* replay from nothing older than the restart.  And once the swap has seen  *)
(* it answer, the nulls from before it was stopped do not count: a streak   *)
(* is critical only when the node has been up without a root that long. *)
SwapsAreNotFindings ==
    Delivered =>
        /\ swap # "over" /\ node \in {"down", "importing", "behind"} => quiet
        /\ reachable => alarm # "misfired"

(* A consumer the swap has seen back, and that catches up, is heard again, *)
(* whichever one push is lost. *)
HeardAgain ==
    <>[](node = "synced" /\ reachable) => []<>~quiet \/ <>(lates > 0)
=============================================================================
