---------------------------- MODULE MigrationSwap ----------------------------
(***************************************************************************)
(* cmd/migration-swap: the producers export their artifacts, then the      *)
(* consumers are stopped, given an artifact and restarted, one at a time.   *)
(* Times are seconds after genesis.                                        *)
(***************************************************************************)
EXTENDS Integers, Sequences, FiniteSets

CONSTANTS
    Converters, Exporters,  \* producers of kind geth-convert and erigon-export
    Queue,                  \* the consumers, in the configuration's order
    Source,                 \* the producer of a consumer
    Fork, ExportAfter, Margin, Expected, Timeout,
    Windows,                \* <<start, end>> of the admitted partitions
    None,
    Failures,               \* BOOLEAN: commands and imports may fail
    Signals,                \* BOOLEAN: the lap driver may end the program
    TickLen, MaxTime

Producers == Converters \cup Exporters
Consumers == {Queue[i] : i \in DOMAIN Queue}

ASSUME SwapAssumption ==
    /\ Queue \in Seq(Consumers)
    /\ \A i, j \in DOMAIN Queue : Queue[i] = Queue[j] => i = j
    /\ IsFiniteSet(Producers)
    /\ Source \in [Consumers -> Producers]
    /\ Converters \cap Exporters = {} /\ None \notin Consumers
    /\ {Fork, ExportAfter, Margin, Expected, Timeout, MaxTime} \subseteq Nat
    /\ TickLen \in Nat \ {0}
    /\ \A w \in Windows : w[1] \in Nat /\ w[2] \in Nat
    /\ Failures \in BOOLEAN /\ Signals \in BOOLEAN

exportGap  == 180
swapSlack  == 120
gapHorizon == 3600

VARIABLES
    mpc,        \* the main goroutine
    k,          \* its place in the queue
    gnow,       \* the instant its gate is about, 0 outside
    prev, anyFailed,
    ppc,        \* each producer's goroutine
    down,       \* the services a producer has stopped
    exported,   \* Status of each producer record
    status,     \* Status of each swap record
    stops,      \* the swap records with a StopAt
    since,      \* StopAt of the swap going on
    lockN, lockFile,
    node,       \* the consumers' execution clients
    marker,     \* what pbt-swap/ in a consumer's datadir says of the import
    anchor,     \* the block a producer exported at
    now

gate   == <<k, gnow, prev, anyFailed>>
exp    == <<ppc, down>>
stop   == <<stops, since>>
lock   == <<lockN, lockFile>>
world  == <<node, marker, anchor, now>>
vars   == <<mpc, gate, exp, exported, status, stop, lock, world>>

chaosFree(t) ==
    LET ahead == {w[1] - t : w \in {v \in Windows : v[1] > t}} \cup {gapHorizon}
    IN  IF \E w \in Windows : w[1] <= t /\ t < w[2] THEN 0
        ELSE CHOOSE d \in ahead : \A e \in ahead : d <= e

tooLate(t) == t + Expected + Margin > Fork

Init ==
    /\ mpc = "exporting" /\ k = 1 /\ gnow = 0 /\ prev = None /\ anyFailed = FALSE
    /\ ppc = [p \in Producers |-> "idle"]
    /\ down = [p \in Producers |-> {}]
    /\ exported = [p \in Producers |-> "failed"]
    /\ status = [n \in Consumers |-> "skipped"]
    /\ stops = {} /\ since = 0
    /\ lockN = 0 /\ lockFile = FALSE
    /\ node = [n \in Consumers |-> "up"]
    /\ marker = [n \in Consumers |-> "none"]
    /\ anchor = [p \in Producers |-> "none"]
    /\ now = 0

Ended == mpc \in {"done", "killed"}
-----------------------------------------------------------------------------
(* The lock file, for as long as somebody is mid-operation. *)

begin == lockN' = lockN + 1 /\ lockFile' = (lockFile \/ lockN = 0)

end == lockN' = lockN - 1 /\ lockFile' = (lockFile /\ lockN # 1)
-----------------------------------------------------------------------------
(* The producers. *)

ExportOpens ==
    /\ mpc = "exporting"
    /\ ExportAfter <= now /\ now <= Fork
    /\ chaosFree(now) >= exportGap
    /\ mpc' = "producing"
    /\ UNCHANGED <<gate, exp, exported, status, stop, lock, world>>

ExportTooLate ==
    /\ mpc = "exporting" /\ now > Fork
    /\ mpc' = "next"
    /\ UNCHANGED <<gate, exp, exported, status, stop, lock, world>>

(* From a producer's step to the one after it. *)
After == [ stoppingCL |-> "reading", reading |-> "stoppingEL", stoppingEL |-> "streaming",
           streaming |-> "startingEL", startingEL |-> "startingCL",
           startingCL |-> "converting" ]

Begins(p) ==
    /\ ppc[p] = "idle"
    /\ begin
    /\ ppc' = [ppc EXCEPT ![p] = IF p \in Converters THEN "stoppingCL" ELSE "exporting"]
    /\ UNCHANGED <<down, exported, anchor>>

(* What a producer's step does to its services when it takes effect. *)
Effect(p) ==
    CASE ppc[p] = "stoppingCL" -> down[p] \cup {"CL"}
      [] ppc[p] = "stoppingEL" -> down[p] \cup {"EL"}
      [] ppc[p] = "startingEL" -> down[p] \ {"EL"}
      [] ppc[p] = "startingCL" -> down[p] \ {"CL"}
      [] OTHER                 -> down[p]

Advances(p) ==
    /\ ppc[p] \in DOMAIN After
    /\ ppc' = [ppc EXCEPT ![p] = After[@]]
    /\ down' = [down EXCEPT ![p] = Effect(p)]
    /\ anchor' = IF ppc[p] = "reading" THEN [anchor EXCEPT ![p] = "recent"] ELSE anchor
    /\ UNCHANGED <<exported, lock>>

(* failProducer; a command that fails may have taken effect.  What is      *)
(* stopped stays stopped. *)
ExportFails(p) ==
    /\ ppc[p] \in DOMAIN After \cup {"converting", "exporting"}
    /\ Failures
    /\ ppc' = [ppc EXCEPT ![p] = "over"]
    /\ down' \in {down, [down EXCEPT ![p] = Effect(p)]}
    /\ end
    /\ UNCHANGED <<exported, anchor>>

Exports(p) ==
    /\ ppc[p] \in {"converting", "exporting"}
    /\ ppc' = [ppc EXCEPT ![p] = "over"]
    /\ exported' = [exported EXCEPT ![p] = "ok"]
    /\ anchor' = IF p \in Exporters THEN [anchor EXCEPT ![p] = "recent"] ELSE anchor
    /\ end
    /\ UNCHANGED down

Produce(p) ==
    /\ mpc = "producing"
    /\ Begins(p) \/ Advances(p) \/ ExportFails(p) \/ Exports(p)
    /\ UNCHANGED <<mpc, gate, status, stop, node, marker, now>>

Produced ==
    /\ mpc = "producing"
    /\ \A p \in Producers : ppc[p] = "over"
    /\ mpc' = "next"
    /\ UNCHANGED <<gate, exp, exported, status, stop, lock, world>>
-----------------------------------------------------------------------------
(* The swap gate. *)

c    == Queue[k]
Off(n) == node[n] \in {"stopped", "importing", "dead"}   \* its RPC does not answer
Behind(n) == Off(n) \/ node[n] = "behind"

Goes(to) ==
    /\ mpc' = to
    /\ UNCHANGED <<exp, stop, lock, world>>

Drained ==
    /\ mpc = "next" /\ k > Len(Queue)
    /\ Goes("done")
    /\ UNCHANGED <<gate, exported, status>>

(* skipSwap: the record already says so. *)
Skips ==
    /\ Goes("next")
    /\ k' = k + 1 /\ gnow' = 0
    /\ UNCHANGED <<prev, anyFailed, status>>

NoArtifact ==
    /\ mpc = "next" /\ k <= Len(Queue)
    /\ exported[Source[c]] # "ok"
    /\ Skips /\ UNCHANGED exported

(* The gate reads its clock, then everything else. *)
Looks ==
    /\ \/ mpc = "next" /\ k <= Len(Queue) /\ exported[Source[c]] = "ok"
       \/ mpc = "waiting"
    /\ Goes("looking")
    /\ gnow' = now
    /\ UNCHANGED <<k, prev, anyFailed, exported, status>>

(* Mutant of TooLate: only the fork itself is too late. *)
TooLateNever ==
    /\ mpc = "looking" /\ FALSE
    /\ Skips /\ UNCHANGED exported

TooLate ==
    /\ mpc = "looking" /\ tooLate(gnow)
    /\ Skips /\ UNCHANGED exported

Reorged ==
    /\ mpc = "looking" /\ ~tooLate(gnow)
    /\ anchor[Source[c]] = "orphaned"
    /\ exported' = [exported EXCEPT ![Source[c]] = "failed"]
    /\ Skips

(* Finality is stale after a swap that failed. *)
GivesUp ==
    /\ mpc = "looking" /\ ~tooLate(gnow)
    /\ anyFailed
    /\ Skips /\ UNCHANGED exported

(* Whatever else node 1, the others' health or disruptoor may say. *)
Waits ==
    /\ mpc = "looking" /\ ~tooLate(gnow)
    /\ Goes("waiting") /\ gnow' = 0
    /\ UNCHANGED <<k, prev, anyFailed, exported, status>>

Settled(p) == anchor[p] = "final"

(* Mutant of WindowAhead: no slack for what comes before the stop. *)
WindowJust == chaosFree(gnow) >= Expected

WindowAhead == chaosFree(gnow) >= Expected + swapSlack

Proceeds ==
    /\ mpc = "looking" /\ ~tooLate(gnow)
    /\ Settled(Source[c])
    /\ \A n \in Consumers \ {c} : ~Off(n)
    /\ WindowAhead
    /\ prev # None => ~Behind(prev)
    /\ mpc' = "staging" /\ prev' = None
    /\ begin
    /\ UNCHANGED <<k, gnow, anyFailed, exp, exported, status, stop, world>>
-----------------------------------------------------------------------------
(* swapBody. *)

(* Mutant of Finish: only a failure is remembered. *)
FinishForgets(s) ==
    /\ status' = [status EXCEPT ![c] = s]
    /\ end
    /\ mpc' = "next" /\ k' = k + 1
    /\ IF s # "failed" THEN UNCHANGED <<prev, anyFailed>> ELSE prev' = c /\ anyFailed' = TRUE
    /\ gnow' = 0 /\ since' = 0
    /\ UNCHANGED <<stops, exp, exported>>

(* The body's end: its record, the lock, and what the next gate knows. *)
Finish(s) ==
    /\ status' = [status EXCEPT ![c] = s]
    /\ end
    /\ mpc' = "next" /\ k' = k + 1
    /\ IF s = "ok" THEN UNCHANGED <<prev, anyFailed>> ELSE prev' = c /\ anyFailed' = TRUE
    /\ gnow' = 0 /\ since' = 0
    /\ UNCHANGED <<stops, exp, exported>>

Body(to) ==
    /\ mpc' = to
    /\ UNCHANGED <<gate, exp, exported, status, lock>>

Staged == mpc = "staging" /\ Body("stopping") /\ UNCHANGED <<stop, world>>

StagingFails ==
    /\ mpc = "staging" /\ Failures
    /\ Finish("failed") /\ UNCHANGED world

Stopped ==
    /\ mpc = "stopping"
    /\ node' = [node EXCEPT ![c] = "stopped"]
    /\ stops' = stops \cup {c} /\ since' = now
    /\ mpc' = "copying" /\ gnow' = 0
    /\ UNCHANGED <<k, prev, anyFailed, exp, exported, status, lock, marker, anchor, now>>

StopFails ==
    /\ mpc = "stopping" /\ Failures
    /\ node' \in {node, [node EXCEPT ![c] = "stopped"]}
    /\ Finish("failed") /\ UNCHANGED <<marker, anchor, now>>

Copied ==
    /\ mpc = "copying"
    /\ marker' = [marker EXCEPT ![c] = "pending"]
    /\ Body("starting") /\ UNCHANGED <<stop, node, anchor, now>>

(* The node stays stopped. *)
CopyFails ==
    /\ mpc = "copying" /\ Failures
    /\ Finish("failed") /\ UNCHANGED world

(* An error is not fatal: the container may have come up. *)
Started ==
    /\ mpc = "starting"
    /\ \/ node' = [node EXCEPT ![c] = "importing"]
       \/ Failures /\ node' = node
    /\ Body("polling") /\ UNCHANGED <<stop, marker, anchor, now>>

NotRunning ==
    /\ mpc = "polling" /\ node[c] \in {"stopped", "dead"}
    /\ Finish("failed") /\ UNCHANGED world

(* Mutant of Marked: the marker is not looked at. *)
MarkedNever == FALSE

Marked == marker[c] = "failed"

ImportFailed ==
    /\ mpc = "polling" /\ Marked
    /\ Finish("failed") /\ UNCHANGED world

Unmarked ==
    /\ mpc = "polling" /\ ~Marked /\ node[c] \notin {"stopped", "dead"}
    /\ Body("asking") /\ UNCHANGED <<stop, world>>

CaughtUp ==
    /\ mpc = "asking" /\ node[c] = "up"
    /\ Finish("ok") /\ UNCHANGED world

TimedOut ==
    /\ mpc = "asking" /\ now > since + Timeout
    /\ Finish("timeout") /\ UNCHANGED world

(* Not caught up yet, or not answering. *)
PollsAgain ==
    /\ mpc = "asking" /\ now <= since + Timeout
    /\ Body("polling") /\ UNCHANGED <<stop, world>>

Main ==
    \/ ExportOpens \/ ExportTooLate \/ Produced
    \/ Drained \/ NoArtifact \/ Looks \/ TooLate \/ Reorged \/ GivesUp \/ Waits \/ Proceeds
    \/ Staged \/ StagingFails \/ Stopped \/ StopFails \/ Copied \/ CopyFails \/ Started
    \/ NotRunning \/ ImportFailed \/ Unmarked \/ CaughtUp \/ TimedOut \/ PollsAgain
-----------------------------------------------------------------------------
(* SIGTERM: the records are written as they are. *)
Killed ==
    /\ Signals /\ ~Ended
    /\ mpc' = "killed"
    /\ UNCHANGED <<gate, exp, exported, status, stop, lock, world>>

Becomes(n, s) == node' = [node EXCEPT ![n] = s]

(* The wrapper imports before the client opens its RPC; a failed import    *)
(* still starts the client, on its own tree. *)
ImportEnds(n) ==
    /\ node[n] = "importing"
    /\ Becomes(n, "behind")
    /\ marker' \in {[marker EXCEPT ![n] = m] :
                      m \in IF Failures THEN {"done", "failed"} ELSE {"done"}}
    /\ UNCHANGED <<anchor, now>>

ImportDies(n) ==
    /\ node[n] = "importing" /\ Failures
    /\ Becomes(n, "dead")
    /\ UNCHANGED <<marker, anchor, now>>

AtHead(n) ==
    /\ node[n] = "behind" /\ Becomes(n, "replaying")
    /\ UNCHANGED <<marker, anchor, now>>

(* Replaying outlasts the calls of one poll. *)
Replayed(n) ==
    /\ node[n] = "replaying" /\ mpc # "asking"
    /\ Becomes(n, "up")
    /\ UNCHANGED <<marker, anchor, now>>

(* Somebody restarts a node a failed swap left down. *)
Revived(n) ==
    /\ node[n] \in {"stopped", "dead"} /\ status[n] = "failed"
    /\ Becomes(n, "behind")
    /\ UNCHANGED <<marker, anchor, now>>

(* Finality passes the anchor's height, with it or with another block. *)
Finalized(p) ==
    /\ anchor[p] = "recent"
    /\ anchor' \in {[anchor EXCEPT ![p] = a] : a \in {"final", "orphaned"}}
    /\ UNCHANGED <<node, marker, now>>

(* The gate's look, the staging and the stop fit the slack. *)
Tick ==
    /\ now + TickLen <= MaxTime
    /\ mpc \in {"looking", "staging", "stopping"} => now + TickLen <= gnow + swapSlack
    /\ now' = now + TickLen
    /\ UNCHANGED <<node, marker, anchor>>

World ==
    /\ ~Ended
    /\ \/ \E n \in Consumers :
             ImportEnds(n) \/ ImportDies(n) \/ AtHead(n) \/ Replayed(n) \/ Revived(n)
       \/ \E p \in Producers : Finalized(p)
       \/ Tick
    /\ UNCHANGED <<mpc, gate, exp, exported, status, stop, lock>>

Next == Main \/ (\E p \in Producers : Produce(p)) \/ Killed \/ World

(* Each goroutine goes on and its commands return; time passes.  Nothing   *)
(* is assumed of the consumers. *)
Fairness ==
    /\ WF_vars(Main)
    /\ \A p \in Producers : WF_vars(Produce(p))
    /\ WF_vars(Tick /\ UNCHANGED <<mpc, gate, exp, exported, status, stop, lock>>)

Spec     == Init /\ [][Next]_vars
FairSpec == Spec /\ Fairness
-----------------------------------------------------------------------------
InBody == mpc \in {"staging", "stopping", "copying", "starting", "polling", "asking"}

TypeOK ==
    /\ mpc \in {"exporting", "producing", "next", "looking", "waiting", "staging", "stopping",
                "copying", "starting", "polling", "asking", "done", "killed"}
    /\ k \in 1..Len(Queue) + 1 /\ gnow \in Nat
    /\ prev \in Consumers \cup {None} /\ anyFailed \in BOOLEAN
    /\ ppc \in [Producers -> {"idle", "exporting", "converting", "over"} \cup DOMAIN After]
    /\ down \in [Producers -> SUBSET {"CL", "EL"}]
    /\ exported \in [Producers -> {"ok", "failed"}]
    /\ status \in [Consumers -> {"skipped", "ok", "failed", "timeout"}]
    /\ stops \subseteq Consumers /\ since \in Nat
    /\ lockN \in Nat /\ lockFile \in BOOLEAN
    /\ node \in [Consumers -> {"up", "stopped", "importing", "dead", "behind", "replaying"}]
    /\ marker \in [Consumers -> {"none", "pending", "done", "failed"}]
    /\ anchor \in [Producers -> {"none", "recent", "final", "orphaned"}]
    /\ now \in Nat

(* README: "One light down at a time is 18% of the stake, so finality      *)
(* never stops for a swap": at most one consumer is off the head, also     *)
(* after swaps that failed, timed out or were skipped; and swap.lock, which *)
(* keeps the lap driver from restarting nodes, exists exactly while a swap *)
(* or one of the producers is mid-operation, until a signal leaves it. *)
Midway == InBody \/ \E p \in Producers : ppc[p] \notin {"idle", "over"}

OneDown ==
    /\ \A m, n \in Consumers : Behind(m) /\ Behind(n) => m = n
    /\ Midway => lockFile
    /\ lockFile => Midway \/ mpc = "killed"

(* Comment in swapBody: "a failed import that falls back to the online     *)
(* seed still catches up, and must not read as a good swap".  And a node   *)
(* is only ever stopped for an artifact whose anchor stays canonical. *)
OkMeansImported ==
    /\ \A n \in Consumers : status[n] = "ok" => marker[n] = "done"
    /\ \A n \in stops : anchor[Source[n]] = "final"

(* Package comment: "strictly one at a time inside chaos-free gaps": no    *)
(* partition opens on a swap that takes no longer than expected. *)
DownOutsideChaos ==
    InBody /\ c \in stops /\ now < since + Expected =>
        \A w \in Windows : ~(w[1] <= now /\ now < w[2])

(* The program ends, whatever fails: every wait has a way out. *)
Terminates == <>Ended
=============================================================================
