------------------------------ MODULE PbtChaos ------------------------------
(***************************************************************************)
(* cmd/pbtchaos: every disruption is a job.  HTTP handlers and the         *)
(* isolation loop submit jobs to one bounded channel, a worker runs them   *)
(* one at a time, and a quiesce stops new ones.  The job itself is PbtJob. *)
(***************************************************************************)
EXTENDS Naturals, Sequences, FiniteSets

CONSTANTS
    Handlers,     \* POST /scenario requests, one job each
    Fork, Whole, Fallible,  \* see PbtJob
    None,         \* the empty string
    QueueCap,     \* capacity of the channel (16 in the code)
    Quiesces,     \* BOOLEAN: somebody quiesces the driver
    Signals,      \* BOOLEAN: somebody stops it
    ClientsStop   \* whether an execution client stops answering: "never", "briefly", "forever"

Submitters == Handlers \cup {Fork}
Jobs       == Submitters

ASSUME PbtAssumption ==
    /\ Fork \notin Handlers /\ {Whole, None} \cap Submitters = {}
    /\ Fallible \subseteq {"partition", "clear"}
    /\ QueueCap \in Nat \ {0}
    /\ {Quiesces, Signals} \subseteq BOOLEAN
    /\ ClientsStop \in {"never", "briefly", "forever"}

VARIABLES
    net, lastClear, stage, job,  \* PbtJob's
    jobs,       \* the channel
    queued,     \* what the status page says is queued
    running,    \* what it says is running
    wpc,        \* the worker; "received" holds a job it has not announced yet
    spc,        \* the submitters; "sending" holds the lock c.mu
    quiesced, ctxDone,
    answering   \* every execution client answers

queue == <<jobs, queued, running>>
env   == <<quiesced, ctxDone, answering>>
vars  == <<net, lastClear, stage, job, queue, wpc, spc, env>>

Job == INSTANCE PbtJob

Up     == wpc # "stopped"
Locked == \E s \in Submitters : spc[s] = "sending"

(* Mutant of busy: a queued job does not count. *)
busyRunning == running # None

busy == running # None \/ queued # <<>>

Init ==
    /\ net = Whole /\ lastClear = "ok" /\ stage = "idle" /\ job = None
    /\ jobs = <<>> /\ queued = <<>> /\ running = None
    /\ wpc = "select"
    /\ spc = [s \in Submitters |-> IF s = Fork THEN "looking" ELSE "new"]
    /\ quiesced = FALSE /\ ctxDone = FALSE /\ answering = TRUE
-----------------------------------------------------------------------------
(* submit, by a handler or by the isolation loop. *)

Goes(s, p)   == spc' = [spc EXCEPT ![s] = p]
Refused(s)   == Goes(s, IF s = Fork THEN "looking" ELSE "refused")
StaysQueue   == UNCHANGED <<net, lastClear, stage, job, queue, wpc, env>>

(* Mutant of Checked: a quiesced driver is not asked. *)
CheckedNothing(s) ==
    /\ Up /\ spc[s] = "new"
    /\ Goes(s, "checked")
    /\ StaysQueue

(* quiesced is read before the lock is taken. *)
Checked(s) ==
    /\ Up /\ spc[s] = "new"
    /\ IF quiesced THEN Refused(s) ELSE Goes(s, "checked")
    /\ StaysQueue

(* A full channel refuses rather than blocks. *)
Full(s) ==
    /\ Up /\ spc[s] = "checked" /\ ~Locked
    /\ Len(jobs) = QueueCap
    /\ Refused(s)
    /\ StaysQueue

(* Under the lock, but the worker receives without it. *)
Sent(s) ==
    /\ Up /\ spc[s] = "checked" /\ ~Locked
    /\ Len(jobs) < QueueCap
    /\ jobs' = Append(jobs, s)
    /\ Goes(s, "sending")
    /\ UNCHANGED <<net, lastClear, stage, job, queued, running, wpc, env>>

Queued(s) ==
    /\ Up /\ spc[s] = "sending"
    /\ queued' = Append(queued, s)
    /\ Goes(s, IF s = Fork THEN "looking" ELSE "accepted")
    /\ UNCHANGED <<net, lastClear, stage, job, jobs, running, wpc, env>>

Submit(s) == Checked(s) \/ Full(s) \/ Sent(s) \/ Queued(s)
-----------------------------------------------------------------------------
(* The isolation loop. *)

(* waitBlocks returns an error when its first look at the heads fails, or  *)
(* the context ends. *)
LoopLooks ==
    /\ Up /\ spc[Fork] = "looking"
    /\ Goes(Fork, IF answering /\ ~ctxDone THEN "waiting" ELSE "ended")
    /\ StaysQueue

LoopCancelled ==
    /\ Up /\ spc[Fork] = "waiting" /\ ctxDone
    /\ Goes(Fork, "ended")
    /\ StaysQueue

(* The blocks have come; quiesced is terminal. *)
LoopWakes ==
    /\ Up /\ spc[Fork] = "waiting" /\ answering /\ ~ctxDone
    /\ Goes(Fork, IF quiesced THEN "ended" ELSE "asking")
    /\ StaysQueue

(* Nothing is submitted while anything is in flight. *)
LoopAsks ==
    /\ Up /\ spc[Fork] = "asking" /\ ~Locked
    /\ Goes(Fork, IF busy THEN "looking" ELSE "new")
    /\ StaysQueue

Loop == LoopLooks \/ LoopCancelled \/ LoopWakes \/ LoopAsks
-----------------------------------------------------------------------------
(* The worker. *)

StaysOut == UNCHANGED <<spc, env>>

Receive ==
    /\ wpc = "select" /\ jobs # <<>>
    /\ job' = Head(jobs) /\ jobs' = Tail(jobs)
    /\ wpc' = "received"
    /\ UNCHANGED <<net, lastClear, stage, queued, running>> /\ StaysOut

(* Mutant of JobStarts: the lock is not taken. *)
JobStartsUnlocked ==
    /\ wpc = "received"
    /\ running' = job
    /\ queued' = IF queued # <<>> /\ Head(queued) = job THEN Tail(queued) ELSE queued
    /\ wpc' = "running" /\ stage' = "starting"
    /\ UNCHANGED <<net, lastClear, job, jobs>> /\ StaysOut

JobStarts ==
    /\ wpc = "received" /\ ~Locked
    /\ running' = job
    /\ queued' = IF queued # <<>> /\ Head(queued) = job THEN Tail(queued) ELSE queued
    /\ wpc' = "running" /\ stage' = "starting"
    /\ UNCHANGED <<net, lastClear, job, jobs>> /\ StaysOut

(* With the context ended a wait returns at once and a client's call       *)
(* fails; a client that does not answer keeps a wait for blocks waiting.    *)
JobStep ==
    /\ wpc = "running" /\ Job!Steps
    /\ Job!BlockWait => answering \/ ctxDone
    /\ Job!TooYoung => answering
    /\ Job!Answered => ~ctxDone
    /\ Job!WaitFails => ctxDone
    /\ Job!NoDepth => ctxDone \/ ~answering
    /\ UNCHANGED <<queue, wpc>> /\ StaysOut

(* running is reset before the network is. *)
JobEnds ==
    /\ wpc = "running" /\ stage = "over" /\ ~Locked
    /\ running' = None /\ stage' = "idle"
    /\ wpc' = "clearing"
    /\ UNCHANGED <<net, lastClear, job, jobs, queued>> /\ StaysOut

(* Mutant of WorkerClears: the job is trusted to have healed. *)
WorkerTrusts ==
    /\ wpc = "clearing"
    /\ wpc' = "repeering"
    /\ UNCHANGED <<net, lastClear, stage, job, queue>> /\ StaysOut

WorkerClears ==
    /\ wpc = "clearing"
    /\ Job!Clear
    /\ wpc' = "repeering"
    /\ UNCHANGED <<stage, job, queue>> /\ StaysOut

Repeered ==
    /\ wpc = "repeering"
    /\ wpc' = "select" /\ job' = None
    /\ UNCHANGED <<net, lastClear, stage, queue>> /\ StaysOut

(* The select picks either of a waiting job and the context's end. *)
Stopping ==
    /\ wpc = "select" /\ ctxDone
    /\ wpc' = "stopping"
    /\ UNCHANGED <<net, lastClear, stage, job, queue>> /\ StaysOut

Stopped ==
    /\ wpc = "stopping"
    /\ Job!Clear
    /\ wpc' = "stopped"
    /\ UNCHANGED <<stage, job, queue>> /\ StaysOut

Worker ==
    \/ Receive \/ JobStarts \/ JobStep \/ JobEnds \/ WorkerClears \/ Repeered
    \/ Stopping \/ Stopped
-----------------------------------------------------------------------------
(* Callers of the API, the signal, and the execution clients. *)

StaysIn == UNCHANGED <<net, lastClear, stage, job, queue, wpc, spc>>

Quiesce ==
    /\ Quiesces /\ Up
    /\ quiesced' = TRUE
    /\ UNCHANGED <<ctxDone, answering>> /\ StaysIn

Signal ==
    /\ Signals /\ Up
    /\ ctxDone' = TRUE
    /\ UNCHANGED <<quiesced, answering>> /\ StaysIn

ClientStops ==
    /\ ClientsStop # "never"
    /\ answering' = FALSE
    /\ UNCHANGED <<quiesced, ctxDone>> /\ StaysIn

ClientReturns ==
    /\ ClientsStop = "briefly"
    /\ answering' = TRUE
    /\ UNCHANGED <<quiesced, ctxDone>> /\ StaysIn

Next ==
    \/ \E s \in Submitters : Submit(s)
    \/ Loop \/ Worker
    \/ Quiesce \/ Signal \/ ClientStops \/ ClientReturns

(* Every goroutine goes on: its calls have timeouts, and a lock is held    *)
(* for a send that never blocks. *)
Fairness ==
    /\ \A s \in Submitters : WF_vars(Submit(s))
    /\ WF_vars(Loop) /\ WF_vars(Worker)

Spec     == Init /\ [][Next]_vars
FairSpec == Spec /\ Fairness
-----------------------------------------------------------------------------
TypeOK ==
    /\ net \in Jobs \cup {Whole} /\ lastClear \in {"ok", "failed"}
    /\ stage \in Job!Stages /\ job \in Jobs \cup {None}
    /\ jobs \in Seq(Jobs) /\ Len(jobs) <= QueueCap
    /\ queued \in Seq(Jobs) /\ running \in Jobs \cup {None}
    /\ wpc \in {"select", "received", "running", "clearing", "repeering", "stopping", "stopped"}
    /\ spc \in [Submitters ->
                  {"new", "checked", "sending", "looking", "waiting", "asking", "ended",
                   "refused", "accepted"}]
    /\ quiesced \in BOOLEAN /\ ctxDone \in BOOLEAN /\ answering \in BOOLEAN

(* Package comment: "Every job goes through one queue, so two disruptions  *)
(* never overlap": a cut falls on a whole network unless the latest Clear  *)
(* failed. *)
NeverOverlap ==
    [][net' # net /\ net' # Whole => net = Whole \/ lastClear = "failed"]_vars

(* What the status page calls queued is what waits in the channel and what *)
(* the worker holds but has not announced. *)
InHand == IF wpc = "received" THEN <<job>> ELSE <<>>

StatusIsTrue == ~Locked => queued = InHand \o jobs

(* The isolation loop never has two forks in flight: nothing hides a fork  *)
(* from busy() between its submission and its end. *)
Forks(seq) == Cardinality({i \in DOMAIN seq : seq[i] = Fork})

OneFork ==
    Forks(InHand \o jobs) + (IF running = Fork THEN 1 ELSE 0)
        + (IF spc[Fork] \in {"new", "checked"} THEN 1 ELSE 0) <= 1

(* A driver that reports idle has left the network whole, except until its *)
(* worker's Clear of a job that just ended, or after a Clear that failed. *)
IdleIsWhole == ~busy /\ net # Whole => wpc = "clearing" \/ lastClear = "failed"

(* Comment on quiesced: it "stops NEW disruptions while letting a running   *)
(* job finish": once drained, with no submission past its check, nothing   *)
(* is cut again. *)
Drained ==
    /\ quiesced /\ ~busy
    /\ \A s \in Submitters : spc[s] \notin {"checked", "sending"}

DrainedForGood == [][Drained => Drained' /\ net' \in {net, Whole}]_vars

(* Once the clients answer, a quiesced driver drains and an accepted job    *)
(* ends, whatever fails. *)
Pending(h) == running = h \/ \E i \in DOMAIN queued : queued[i] = h

JobsEnd ==
    <>[]answering =>
        /\ quiesced ~> (Drained \/ ~Up)
        /\ \A h \in Handlers : Pending(h) ~> (~Pending(h) \/ ~Up)
=============================================================================
