------------------------------- MODULE PbtJob -------------------------------
(***************************************************************************)
(* One pbtchaos job, a proposer fork or a scenario, as far as disruptoor   *)
(* and the worker can tell: it prepares, cuts, holds, heals and judges.    *)
(* PbtChaos runs these jobs from its queue.                                *)
(***************************************************************************)
EXTENDS Naturals

CONSTANTS
    Fork,       \* the job "proposer-fork"; every other job is a scenario
    Whole,      \* disruptoor applies no partition
    Fallible    \* which calls may fail: "partition", "clear"

VARIABLES
    net,        \* the job whose partition disruptoor applies, or Whole
    lastClear,  \* how the latest Clear returned
    stage,      \* where the job is
    job         \* the job

Stages == {"idle", "starting", "waiting", "preparing", "settling", "cutting", "diverging",
           "holding", "healing", "abandoning", "judging", "over"}

(* disruptoor.Clear; one that fails may have taken effect. *)
Clear ==
    \/ net' = Whole /\ lastClear' = "ok"
    \/ net' \in {net, Whole} /\ "clear" \in Fallible /\ lastClear' = "failed"

Stay(s) == stage' = s /\ UNCHANGED <<net, lastClear, job>>

(* Nothing to disrupt: no duty, a protected node, no keys, a degraded mesh, *)
(* or a call that failed. *)
GivesUp == stage \in {"starting", "preparing"} /\ Stay("over")

(* A scenario wants some chain behind it. *)
TooYoung == stage = "starting" /\ job # Fork /\ Stay("waiting")

OldEnough == stage = "waiting" /\ Stay("preparing")

Starts == stage = "starting" /\ Stay("preparing")

(* A setup has two blocks to settle; a wait for blocks that fails ends the *)
(* scenario. *)
SetUp == stage = "preparing" /\ job # Fork /\ Stay("settling")

Settled == stage = "settling" /\ Stay("cutting")

WaitFails == stage \in {"waiting", "settling"} /\ Stay("over")

Prepared == stage = "preparing" /\ Stay("cutting")

CutAccepted ==
    /\ stage = "cutting"
    /\ net' = job
    /\ stage' = IF job = Fork THEN "holding" ELSE "diverging"
    /\ UNCHANGED <<lastClear, job>>

(* A failed Partition ends the job; it may have taken effect. *)
CutRefused ==
    /\ stage = "cutting" /\ "partition" \in Fallible
    /\ net' \in {net, job}
    /\ stage' = "over"
    /\ UNCHANGED <<lastClear, job>>

(* The chains never separated, the doomed state did not land, or it is     *)
(* visible where it should not be. *)
Abandoned == stage = "diverging" /\ Stay("abandoning")

Diverged == stage = "diverging" /\ Stay("holding")

(* The wait for the branches' depth fails at its first look: it is only   *)
(* logged. *)
NoDepth == stage = "diverging" /\ Stay("healing")

(* The proposer's window is over, or the branches have their depth. *)
Held == stage = "holding" /\ Stay("healing")

(* A fork goes on to watch for the reorg even if its Clear failed. *)
Healed ==
    /\ stage = "healing"
    /\ Clear
    /\ stage' = IF lastClear' = "ok" \/ job = Fork THEN "judging" ELSE "over"
    /\ UNCHANGED job

(* healQuietly: the error is only logged. *)
HealedQuietly ==
    /\ stage = "abandoning"
    /\ Clear
    /\ stage' = "over"
    /\ UNCHANGED job

Judged == stage = "judging" /\ Stay("over")

Steps ==
    \/ GivesUp \/ TooYoung \/ OldEnough \/ Starts \/ SetUp \/ Settled \/ WaitFails
    \/ Prepared \/ CutAccepted \/ CutRefused \/ Abandoned \/ Diverged \/ NoDepth
    \/ Held \/ Healed \/ HealedQuietly \/ Judged

(* waitBlocks has no deadline of its own. *)
BlockWait == stage \in {"waiting", "settling"} \/ (stage = "holding" /\ job # Fork)

(* Steps that need an answer to a call under the worker's context. *)
Answered == TooYoung \/ OldEnough \/ SetUp \/ Settled \/ Prepared \/ Diverged
=============================================================================
