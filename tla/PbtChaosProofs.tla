--------------------------- MODULE PbtChaosProofs ---------------------------
(***************************************************************************)
(* Proofs about pbtchaos's queue and worker, for any number of requests,   *)
(* any capacity of the channel and every pattern of failing calls.         *)
(***************************************************************************)
EXTENDS PbtChaos, SequenceTheorems, FiniteSetTheorems, TLAPS

(* What disruptoor may apply where the worker is. *)
WholeUntilCut ==
    net # Whole =>
        \/ lastClear = "failed"
        \/ wpc = "clearing"
        \/ wpc = "running" /\ stage \in {"diverging", "holding", "healing", "abandoning", "over"}

(* The worker's job and what it announces. *)
Announced ==
    /\ wpc \in {"received", "running"} => job \in Jobs
    /\ running = IF wpc = "running" THEN job ELSE None
    /\ stage # "idle" => wpc = "running"

(* One submitter holds the lock, and what the status page lacks until it   *)
(* lets go is its own job. *)
OneSender == \A s, t \in Submitters : spc[s] = "sending" /\ spc[t] = "sending" => s = t

StatusLagsBySender ==
    \A s \in Submitters : spc[s] = "sending" => InHand \o jobs = Append(queued, s)

Values ==
    /\ net \in Jobs \cup {Whole} /\ lastClear \in {"ok", "failed"}
    /\ stage \in Job!Stages /\ job \in Jobs \cup {None}
    /\ jobs \in Seq(Jobs) /\ Len(jobs) <= QueueCap
    /\ queued \in Seq(Jobs)
    /\ wpc \in {"select", "received", "running", "clearing", "repeering", "stopping", "stopped"}
    /\ spc \in [Submitters ->
                  {"new", "checked", "sending", "looking", "waiting", "asking", "ended",
                   "refused", "accepted"}]

Flags ==
    /\ quiesced \in BOOLEAN /\ ctxDone \in BOOLEAN /\ answering \in BOOLEAN

IInv ==
    /\ Values
    /\ WholeUntilCut
    /\ Announced
    /\ OneSender
    /\ StatusLagsBySender
    /\ StatusIsTrue

-----------------------------------------------------------------------------
LEMMA HeadAndTail ==
    ASSUME NEW S, NEW q \in Seq(S), q # <<>>
    PROVE  /\ Head(q) \in S /\ Tail(q) \in Seq(S)
           /\ <<Head(q)>> \o Tail(q) = q
           /\ Len(Tail(q)) <= Len(q)
OBVIOUS

LEMMA AddedInFront ==
    ASSUME NEW S, NEW x \in S, NEW q \in Seq(S)
    PROVE  /\ <<x>> \o q # <<>>
           /\ Head(<<x>> \o q) = x
           /\ Tail(<<x>> \o q) = q
OBVIOUS

LEMMA AddedAtTheEnd ==
    ASSUME NEW S, NEW x \in S, NEW p \in Seq(S), NEW q \in Seq(S)
    PROVE  /\ p \o Append(q, x) = Append(p \o q, x)
           /\ Append(q, x) \in Seq(S)
           /\ Len(Append(q, x)) = Len(q) + 1
           /\ <<>> \o q = q
OBVIOUS

LEMMA InvInit == Init => IInv
<1> SUFFICES ASSUME Init PROVE IInv
  OBVIOUS
<1>1. Values /\ WholeUntilCut /\ Announced /\ OneSender /\ StatusLagsBySender
  BY PbtAssumption
     DEF Init, Values, WholeUntilCut, Announced, OneSender, StatusLagsBySender, Jobs,
         Submitters, Job!Stages
<1>2. StatusIsTrue
  BY DEF Init, StatusIsTrue, InHand
<1> QED
  BY <1>1, <1>2 DEF IInv

(* The submitters: the status lags by the sender's job while it holds the  *)
(* lock, and never otherwise. *)
LEMMA SubmitKeeps ==
    ASSUME NEW s \in Submitters, IInv, Submit(s)
    PROVE  IInv'
<1> USE PbtAssumption
    DEF IInv, Values, WholeUntilCut, Announced, OneSender, StatusLagsBySender, StatusIsTrue,
        InHand, Jobs, Locked, Goes, Refused, StaysQueue, queue, env
<1>1. CASE Checked(s)
  BY <1>1 DEF Checked
<1>2. CASE Full(s)
  BY <1>2 DEF Full
<1>3. CASE Sent(s)
  <2>1. (InHand \o jobs)' = Append(queued, s)
    BY <1>3, AddedAtTheEnd DEF Sent
  <2> QED
    BY <1>3, <2>1, AddedAtTheEnd DEF Sent
<1>4. CASE Queued(s)
  <2>1. InHand \o jobs = queued'
    BY <1>4 DEF Queued
  <2>2. ~Locked'
    BY <1>4 DEF Queued
  <2>3. queued' \in Seq(Jobs)
    BY <1>4, AddedAtTheEnd, s \in Jobs DEF Queued
  <2> QED
    BY <1>4, <2>1, <2>2, <2>3 DEF Queued
<1> QED
  BY <1>1, <1>2, <1>3, <1>4 DEF Submit

LEMMA LoopKeeps == IInv /\ Loop => IInv'
<1> SUFFICES ASSUME IInv, Loop PROVE IInv'
  BY Zenon
<1> USE PbtAssumption
    DEF IInv, Values, WholeUntilCut, Announced, OneSender, StatusLagsBySender, StatusIsTrue,
        InHand, Jobs, Locked, Goes, StaysQueue, queue, env
<1>1. CASE LoopLooks
  BY <1>1, Zenon DEF LoopLooks
<1>2. CASE LoopCancelled
  BY <1>2, Zenon DEF LoopCancelled
<1>3. CASE LoopWakes
  BY <1>3, Zenon DEF LoopWakes
<1>4. CASE LoopAsks
  BY <1>4, Zenon DEF LoopAsks
<1> QED
  BY <1>1, <1>2, <1>3, <1>4, Zenon DEF Loop

LEMMA WorkerKeeps == IInv /\ Worker => IInv'
<1> SUFFICES ASSUME IInv, Worker PROVE IInv'
  BY Zenon
<1> USE PbtAssumption
    DEF IInv, Values, WholeUntilCut, Announced, OneSender, StatusLagsBySender, StatusIsTrue,
        InHand, Jobs, Locked, StaysOut, queue, env, Job!Stages
<1>1. CASE Receive
  <2>1. (InHand \o jobs)' = jobs /\ InHand \o jobs = jobs
    BY <1>1, HeadAndTail, AddedAtTheEnd DEF Receive
  <2>2. job' \in Jobs /\ jobs' \in Seq(Jobs) /\ Len(jobs') <= QueueCap
    BY <1>1, HeadAndTail DEF Receive
  <2> QED
    BY <1>1, <2>1, <2>2, Zenon DEF Receive
<1>2. CASE JobStarts
  <2>1. queued = <<job>> \o jobs
    BY <1>2 DEF JobStarts
  <2>2. queued' = jobs
    BY <1>2, <2>1, AddedInFront DEF JobStarts
  <2>3. (InHand \o jobs)' = jobs
    BY <1>2, AddedAtTheEnd DEF JobStarts
  <2> QED
    BY <1>2, <2>2, <2>3 DEF JobStarts
<1>3. CASE JobStep
  <2>1. Values' /\ WholeUntilCut' /\ Announced'
    BY <1>3 DEF JobStep, Job!Steps, Job!GivesUp, Job!TooYoung, Job!OldEnough, Job!Starts,
         Job!SetUp, Job!Settled, Job!WaitFails, Job!Prepared, Job!CutAccepted,
         Job!CutRefused, Job!Abandoned, Job!Diverged, Job!NoDepth, Job!Held, Job!Healed,
         Job!HealedQuietly, Job!Judged, Job!Stay, Job!Clear
  <2>2. job' = job
    BY <1>3 DEF JobStep, Job!Steps, Job!GivesUp, Job!TooYoung, Job!OldEnough, Job!Starts,
         Job!SetUp, Job!Settled, Job!WaitFails, Job!Prepared, Job!CutAccepted,
         Job!CutRefused, Job!Abandoned, Job!Diverged, Job!NoDepth, Job!Held, Job!Healed,
         Job!HealedQuietly, Job!Judged, Job!Stay, Job!Clear
  <2> QED
    BY <1>3, <2>1, <2>2 DEF JobStep
<1>4. CASE JobEnds
  BY <1>4 DEF JobEnds
<1>5. CASE WorkerClears
  BY <1>5 DEF WorkerClears, Job!Clear
<1>6. CASE Repeered
  BY <1>6 DEF Repeered
<1>7. CASE Stopping
  BY <1>7 DEF Stopping
<1>8. CASE Stopped
  BY <1>8 DEF Stopped, Job!Clear
<1> QED
  BY <1>1, <1>2, <1>3, <1>4, <1>5, <1>6, <1>7, <1>8 DEF Worker

LEMMA InvNext == IInv /\ [Next]_vars => IInv'
<1> SUFFICES ASSUME IInv, [Next]_vars PROVE IInv'
  OBVIOUS
<1>1. ASSUME NEW s \in Submitters, Submit(s) PROVE IInv'
  BY <1>1, SubmitKeeps
<1>2. CASE Loop
  BY <1>2, LoopKeeps
<1>3. CASE Worker
  BY <1>3, WorkerKeeps
<1>4. CASE Quiesce \/ Signal \/ ClientStops \/ ClientReturns \/ UNCHANGED vars
  BY <1>4
     DEF Quiesce, Signal, ClientStops, ClientReturns, StaysIn, vars, queue, IInv,
         Values, WholeUntilCut, Announced, OneSender, StatusLagsBySender, StatusIsTrue,
         InHand, Locked
<1> QED
  BY <1>1, <1>2, <1>3, <1>4 DEF Next

LEMMA Invariant == Spec => []IInv
BY InvInit, InvNext, PTL DEF Spec

LEMMA FlagsInvariant == Spec => []Flags
<1>1. Init => Flags
  BY Zenon DEF Init, Flags
<1>2. Flags /\ [Next]_vars => Flags'
  <2> SUFFICES ASSUME Flags, [Next]_vars PROVE Flags'
    OBVIOUS
  <2>1. ASSUME NEW s \in Submitters, Submit(s) PROVE Flags'
    BY <2>1, Zenon DEF Submit, Checked, Full, Sent, Queued, StaysQueue, Flags, env
  <2>2. CASE Loop
    BY <2>2, Zenon
       DEF Loop, LoopLooks, LoopCancelled, LoopWakes, LoopAsks, StaysQueue, Flags, env
  <2>3. CASE Worker
    BY <2>3, Zenon
       DEF Worker, Receive, JobStarts, JobStep, JobEnds, WorkerClears, Repeered, Stopping,
           Stopped, StaysOut, Flags, env
  <2>4. CASE Quiesce \/ Signal \/ ClientStops \/ ClientReturns
    BY <2>4, Zenon DEF Quiesce, Signal, ClientStops, ClientReturns, Flags
  <2>5. CASE UNCHANGED vars
    BY <2>5, Zenon DEF vars, env, Flags
  <2> QED
    BY <2>1, <2>2, <2>3, <2>4, <2>5 DEF Next
<1> QED
  BY <1>1, <1>2, PTL DEF Spec

(* Every variable keeps its type; in particular the channel never holds    *)
(* more than it can. *)
THEOREM PbtTypeCorrect == Spec => []TypeOK
<1>1. IInv /\ Flags => TypeOK
  <2> SUFFICES ASSUME IInv, Flags PROVE TypeOK
    OBVIOUS
  <2>1. running \in Jobs \cup {None}
    BY DEF IInv, Announced
  <2> QED
    BY <2>1, Zenon DEF IInv, Values, Flags, TypeOK
<1> QED
  BY <1>1, Invariant, FlagsInvariant, PTL

(* "Two disruptions never overlap": what serialises them is that the       *)
(* worker clears the network after every job, however it ended. *)
THEOREM DisruptionsNeverOverlap == Spec => NeverOverlap
<1>1. IInv /\ [Next]_vars =>
        (net' # net /\ net' # Whole => net = Whole \/ lastClear = "failed")
  <2> SUFFICES ASSUME IInv, [Next]_vars, net' # net, net' # Whole
               PROVE  net = Whole \/ lastClear = "failed"
    OBVIOUS
  <2> USE DEF IInv, WholeUntilCut
  <2>1. ASSUME NEW s \in Submitters, Submit(s) PROVE FALSE
    BY <2>1 DEF Submit, Checked, Full, Sent, Queued, StaysQueue
  <2>2. CASE Loop
    BY <2>2 DEF Loop, LoopLooks, LoopCancelled, LoopWakes, LoopAsks, StaysQueue
  <2>3. CASE JobStep
    BY <2>3 DEF JobStep, Job!Steps, Job!GivesUp, Job!TooYoung, Job!OldEnough, Job!Starts,
         Job!SetUp, Job!Settled, Job!WaitFails, Job!Prepared, Job!CutAccepted,
         Job!CutRefused, Job!Abandoned, Job!Diverged, Job!NoDepth, Job!Held, Job!Healed,
         Job!HealedQuietly, Job!Judged, Job!Stay, Job!Clear
  <2>4. CASE Worker /\ ~JobStep
    BY <2>4 DEF Worker, Receive, JobStarts, JobEnds, WorkerClears, Repeered, Stopping,
         Stopped, Job!Clear
  <2>5. CASE Quiesce \/ Signal \/ ClientStops \/ ClientReturns \/ UNCHANGED vars
    BY <2>5 DEF Quiesce, Signal, ClientStops, ClientReturns, StaysIn, vars
  <2> QED
    BY <2>1, <2>2, <2>3, <2>4, <2>5 DEF Next
<1> QED
  BY <1>1, Invariant, PTL DEF Spec, NeverOverlap

(* What busy() looks at is what is really in flight, whoever holds the     *)
(* lock and wherever the worker is. *)
THEOREM StatusTells == Spec => []StatusIsTrue
BY Invariant, PTL DEF IInv

(* "idle" means whole, but for the worker's last Clear. *)
THEOREM IdleTells == Spec => []IdleIsWhole
<1>1. IInv => IdleIsWhole
  BY PbtAssumption DEF IInv, Values, WholeUntilCut, Announced, IdleIsWhole, busy, Jobs, Submitters
<1> QED
  BY <1>1, Invariant, PTL

(* A drained driver stays drained: the status is true, so an idle one has  *)
(* an empty channel and no job in hand, and every new submission is        *)
(* refused. *)
THEOREM DrainsForGood == Spec => DrainedForGood
<1>1. IInv /\ [Next]_vars /\ Drained => Drained' /\ net' \in {net, Whole}
  <2> SUFFICES ASSUME IInv, [Next]_vars, Drained PROVE Drained' /\ net' \in {net, Whole}
    OBVIOUS
  <2>1. ~Locked /\ queued = <<>> /\ running = None /\ quiesced
    BY DEF Drained, Locked, busy
  <2>2. jobs = <<>> /\ wpc # "received"
    <3>1. InHand \o jobs = <<>>
      BY <2>1 DEF IInv, StatusIsTrue
    <3>2. CASE wpc = "received"
      BY <3>1, <3>2, AddedInFront DEF IInv, Values, Announced, InHand
    <3>3. CASE wpc # "received"
      BY <3>1, <3>3, AddedAtTheEnd DEF IInv, Values, InHand
    <3> QED
      BY <3>2, <3>3
  <2>3. wpc # "running"
    BY <2>1, PbtAssumption DEF IInv, Announced, Jobs
  <2> USE <2>1, <2>2, <2>3 DEF Drained, busy
  <2>4. ASSUME NEW s \in Submitters, Submit(s) PROVE Drained' /\ net' \in {net, Whole}
    BY <2>4 DEF Submit, Checked, Full, Sent, Queued, StaysQueue, Goes, Refused, queue, env,
         IInv, Values
  <2>5. CASE Loop
    BY <2>5 DEF Loop, LoopLooks, LoopCancelled, LoopWakes, LoopAsks, StaysQueue, Goes, queue,
         env, IInv, Values
  <2>6. CASE Worker
    BY <2>6 DEF Worker, Receive, JobStarts, JobStep, JobEnds, WorkerClears, Repeered,
         Stopping, Stopped, Job!Clear, StaysOut, queue, env
  <2>7. CASE Quiesce \/ Signal \/ ClientStops \/ ClientReturns \/ UNCHANGED vars
    BY <2>7 DEF Quiesce, Signal, ClientStops, ClientReturns, StaysIn, vars, queue, env
  <2> QED
    BY <2>4, <2>5, <2>6, <2>7 DEF Next
<1> QED
  BY <1>1, Invariant, PTL DEF Spec, DrainedForGood

(* One fork is in flight at most, without counting: where one is, no other *)
(* is. *)
Line == InHand \o jobs

OneForkInFlight ==
    /\ \A i, k \in DOMAIN Line : Line[i] = Fork /\ Line[k] = Fork => i = k
    /\ running = Fork \/ spc[Fork] \in {"new", "checked"} =>
         \A i \in DOMAIN Line : Line[i] # Fork
    /\ ~(running = Fork /\ spc[Fork] \in {"new", "checked"})

LEMMA LineIsASequence ==
    ASSUME IInv
    PROVE  Line \in Seq(Jobs)
BY DEF IInv, Values, Announced, Line, InHand

LEMMA WithoutHead ==
    ASSUME NEW S, NEW x \in S, NEW q \in Seq(S)
    PROVE  LET p == <<x>> \o q
           IN  /\ 1 \in DOMAIN p /\ p[1] = x
               /\ \A i \in DOMAIN q : i + 1 \in DOMAIN p /\ p[i + 1] = q[i]
OBVIOUS

(* A submitter that is not the loop adds no fork; the loop's adds the one   *)
(* it has just asked for. *)
LEMMA SubmitKeepsOneFork ==
    ASSUME NEW s \in Submitters, IInv, OneForkInFlight, Submit(s)
    PROVE  OneForkInFlight'
<1> USE PbtAssumption, LineIsASequence DEF OneForkInFlight, Goes, Refused, StaysQueue, queue, env
<1>0. DOMAIN spc = Submitters /\ Fork \in Submitters
  BY DEF IInv, Values, Submitters
<1>1. CASE Checked(s)
  BY <1>0, <1>1 DEF Checked, Line, InHand
<1>2. CASE Full(s)
  BY <1>0, <1>2 DEF Full, Line, InHand
<1>3. CASE Sent(s)
  <2>1. Line' = Append(Line, s)
    BY <1>3, AddedAtTheEnd DEF Sent, Line, InHand, IInv, Values, Announced, Jobs
  <2>2. running' = running /\ spc' = [spc EXCEPT ![s] = "sending"] /\ spc[s] = "checked"
    BY <1>3 DEF Sent
  <2>3. DOMAIN Line' = 1..(Len(Line) + 1) /\ Line'[Len(Line) + 1] = s
        /\ (\A i \in DOMAIN Line : Line'[i] = Line[i]) /\ DOMAIN Line = 1..Len(Line)
        /\ Len(Line) \in Nat
    BY <2>1 DEF Jobs
  <2>4. CASE s = Fork
    BY <1>0, <2>2, <2>3, <2>4
  <2>5. CASE s # Fork
    BY <1>0, <2>2, <2>3, <2>5
  <2> QED
    BY <2>4, <2>5
<1>4. CASE Queued(s)
  BY <1>0, <1>4 DEF Queued, Line, InHand
<1> QED
  BY <1>1, <1>2, <1>3, <1>4 DEF Submit

(* busy() sees every fork, because the status is true whenever the lock is *)
(* free. *)
LEMMA LoopKeepsOneFork == IInv /\ OneForkInFlight /\ Loop => OneForkInFlight'
<1> SUFFICES ASSUME IInv, OneForkInFlight, Loop PROVE OneForkInFlight'
  OBVIOUS
<1>1. DOMAIN spc = Submitters /\ Fork \in Submitters
  BY DEF IInv, Values, Submitters
<1>2. Line' = Line /\ running' = running
  BY DEF Loop, LoopLooks, LoopCancelled, LoopWakes, LoopAsks, StaysQueue, queue, Line, InHand
<1>3. CASE LoopAsks /\ ~busy
  <2>1. Line = <<>> /\ running = None
    BY <1>3 DEF LoopAsks, busy, IInv, StatusIsTrue, Line
  <2> QED
    BY <1>2, <2>1, PbtAssumption DEF OneForkInFlight, Submitters
<1>4. CASE ~(LoopAsks /\ ~busy)
  <2>1. spc'[Fork] \notin {"new", "checked"}
    BY <1>1, <1>4
       DEF Loop, LoopLooks, LoopCancelled, LoopWakes, LoopAsks, Goes
  <2> QED
    BY <1>2, <2>1 DEF OneForkInFlight
<1> QED
  BY <1>3, <1>4

LEMMA WorkerKeepsOneFork == IInv /\ OneForkInFlight /\ Worker => OneForkInFlight'
<1> SUFFICES ASSUME IInv, OneForkInFlight, Worker PROVE OneForkInFlight'
  OBVIOUS
<1>1. spc' = spc
  BY DEF Worker, Receive, JobStarts, JobStep, JobEnds, WorkerClears, Repeered, Stopping,
         Stopped, StaysOut
<1>2. CASE Receive
  <2>1. Line = jobs
    BY <1>2, AddedAtTheEnd DEF Receive, Line, InHand, IInv, Values
  <2>2. Line' = <<Head(jobs)>> \o Tail(jobs) /\ running' = running
    BY <1>2 DEF Receive, Line, InHand
  <2>3. Line' = Line
    BY <1>2, <2>1, <2>2, HeadAndTail DEF Receive, IInv, Values
  <2> QED
    BY <1>1, <2>2, <2>3 DEF OneForkInFlight
<1>3. CASE JobStarts
  <2>1. Line = <<job>> \o jobs /\ job \in Jobs /\ jobs \in Seq(Jobs)
    BY <1>3 DEF JobStarts, Line, InHand, IInv, Values, Announced
  <2>2. Line' = jobs /\ running' = job
    BY <1>3, <2>1, AddedAtTheEnd DEF JobStarts, Line, InHand
  <2>3. 1 \in DOMAIN Line /\ Line[1] = job
        /\ \A i \in DOMAIN jobs : i + 1 \in DOMAIN Line /\ Line[i + 1] = jobs[i] /\ i \in Nat \ {0}
    BY <2>1, WithoutHead
  <2> QED
    BY <1>1, <2>2, <2>3 DEF OneForkInFlight
<1>4. CASE ~Receive /\ ~JobStarts
  <2>1. Line' = Line
    <3>1. wpc # "received" /\ wpc' # "received" /\ jobs' = jobs
      BY <1>4 DEF Worker, JobStep, JobEnds, WorkerClears, Repeered, Stopping, Stopped, queue
    <3> QED
      BY <3>1 DEF Line, InHand
  <2>2. running' \in {running, None}
    BY <1>4 DEF Worker, JobStep, JobEnds, WorkerClears, Repeered, Stopping, Stopped, queue
  <2> QED
    BY <1>1, <2>1, <2>2, PbtAssumption DEF OneForkInFlight, Submitters
<1> QED
  BY <1>2, <1>3, <1>4

LEMMA AtMostOneIndex ==
    ASSUME NEW q \in Seq(Jobs),
           \A i, k \in DOMAIN q : q[i] = Fork /\ q[k] = Fork => i = k
    PROVE  /\ Forks(q) \in {0, 1}
           /\ (\A i \in DOMAIN q : q[i] # Fork) => Forks(q) = 0
<1> DEFINE S == {i \in DOMAIN q : q[i] = Fork}
<1>1. CASE S = {}
  BY <1>1, FS_EmptySet DEF Forks
<1>2. CASE S # {}
  <2>1. PICK i \in S : TRUE
    BY <1>2
  <2>2. S = {i}
    BY <2>1
  <2> QED
    BY <2>1, <2>2, FS_Singleton DEF Forks
<1> QED
  BY <1>1, <1>2

(* The isolation loop never has two forks in flight: busy() and submit()   *)
(* are two critical sections, but whatever falls between them is not a     *)
(* fork. *)
THEOREM NeverTwoForks == Spec => []OneFork
<1>1. Init => OneForkInFlight
  BY PbtAssumption DEF Init, OneForkInFlight, Line, InHand, Submitters
<1>2. IInv /\ OneForkInFlight /\ [Next]_vars => OneForkInFlight'
  <2> SUFFICES ASSUME IInv, OneForkInFlight, [Next]_vars PROVE OneForkInFlight'
    OBVIOUS
  <2>1. ASSUME NEW s \in Submitters, Submit(s) PROVE OneForkInFlight'
    BY <2>1, SubmitKeepsOneFork
  <2>2. CASE Quiesce \/ Signal \/ ClientStops \/ ClientReturns \/ UNCHANGED vars
    BY <2>2
       DEF Quiesce, Signal, ClientStops, ClientReturns, StaysIn, vars, queue, OneForkInFlight,
           Line, InHand
  <2> QED
    BY <2>1, <2>2, LoopKeepsOneFork, WorkerKeepsOneFork DEF Next
<1>3. IInv /\ OneForkInFlight => OneFork
  <2> SUFFICES ASSUME IInv, OneForkInFlight PROVE OneFork
    OBVIOUS
  <2>1. /\ Forks(Line) \in {0, 1}
        /\ (\A i \in DOMAIN Line : Line[i] # Fork) => Forks(Line) = 0
    BY LineIsASequence, AtMostOneIndex DEF OneForkInFlight
  <2> QED
    BY <2>1 DEF OneForkInFlight, OneFork, Line
<1> QED
  BY <1>1, <1>2, <1>3, Invariant, PTL DEF Spec
=============================================================================
