--------------------------- MODULE MCChaosDriver ---------------------------
(***************************************************************************)
(* The chaos driver on the two shipped schedules, with topologies small    *)
(* enough that a straddle has two or three islands.  The action lists are  *)
(* written out, so that TLC evaluates them once; the assumption says they  *)
(* are the ones migsched resolves, every op admitted.                      *)
(***************************************************************************)
EXTENDS ChaosDriver

CONSTANT Profile

MS == INSTANCE MigSchedule

start(at, op) == [kind |-> KindStart, at |-> at, op |-> op]
end(at, op)   == [kind |-> KindEnd, at |-> at, op |-> op]
sweep(at)     == [kind |-> KindSweep, at |-> at, op |-> NoOp]

info(from, to, hold, victims) ==
    [start |-> from, end |-> to, hold |-> hold, victims |-> victims]

Table ==
    [ compositeSmoke |->
        [ fork |-> 780, participants |-> 3, quiet |-> 1080,
          acts |-> << start(220, 1), end(370, 1), sweep(370), sweep(390),
                      start(660, 2), end(840, 2), sweep(960), sweep(1020) >>,
          info |-> << info(220, 370, MS!NoTime, {2}), info(660, 840, 960, {2, 3}) >> ],
      composite |->
        [ fork |-> 1340, participants |-> 4, quiet |-> 1910,
          acts |-> << start(240, 1), end(430, 1), start(540, 2), end(730, 2),
                      start(790, 3), end(940, 3), sweep(940), sweep(950),
                      start(1220, 4), end(1400, 4), sweep(1520), sweep(1580),
                      start(1640, 5), end(1790, 5), sweep(1850) >>,
          info |-> << info(240, 430, MS!NoTime, {2, 3}), info(540, 730, MS!NoTime, {3, 4}),
                      info(790, 940, MS!NoTime, {2}), info(1220, 1400, 1520, {2, 3, 4}),
                      info(1640, 1790, MS!NoTime, {3}) >> ] ]

Row == Table[Profile]

MCNoHold == MS!NoTime
MCActs   == Row.acts
MCOpInfo == Row.info
MCQuiet  == Row.quiet
MCFork   == Row.fork

ASSUME ScheduleIsResolved ==
    LET in == [profile |-> Profile, gap |-> Fork, anchor |-> 1,
               participants |-> Row.participants, protect |-> {1},
               permille |-> 400, slot |-> SlotSeconds]
        s  == MS!Resolve(in)
    IN  /\ MS!resolves(in)
        /\ MS!Actions(s) = Acts
        /\ s.quiet = Quiet
        /\ \A o \in Ops : /\ MS!Admitted(s.ops[o])
                          /\ OpInfo[o] = info(s.ops[o].start, s.ops[o].end,
                                              s.ops[o].hold, s.ops[o].victims)

(* Launched with the network; or with it and into the middle of the        *)
(* straddle, of its hold, or of what follows. *)
OnTime    == {0, 200}
AnyLaunch == {0, Fork - 130, Fork - 50, Fork + 50, Fork + 170, Fork + 400}

(* The smoke schedule is paced, with a second to spare. *)
Reached[i \in 1..(Len(Acts) + 1)] ==
    IF i = 1 THEN 200 + Slack ELSE OverBy(Acts[i-1], Reached[i-1])

ASSUME OnTimeIsPaced ==
    LaunchTimes = OnTime => Paced(Reached) /\ StraddleHasRoom(Reached)
=============================================================================
