--------------------------- MODULE MCMigSchedule ---------------------------
(***************************************************************************)
(* Checks the resolved schedule against reference definitions over bounded *)
(* inputs: every shipped profile, fork times around every boundary, and    *)
(* topologies on both sides of each admission rule.  A behaviour picks one *)
(* input and resolves it; on some inputs the lap is then run, and judged.  *)
(***************************************************************************)
EXTENDS Lap

Topo(n, prot, share, slot) ==
    [participants |-> n, anchor |-> 1, protect |-> prot, permille |-> share, slot |-> slot]

(* args/migration*.yaml: five validating participants, the anchor 224 of   *)
(* 768 validators, 6s slots. *)
Shipped == {Topo(5, {1}, 292, 6)}

(* Both sides of the admission rules: pair share, anchor share, no light,  *)
(* one light, a protected light, short and long slots. *)
Topologies ==
    { Topo(4, {1}, 400, 6), Topo(4, {1}, 400, 12), Topo(3, {1}, 400, 6),
      Topo(6, {1}, 292, 6), Topo(5, {1, 3}, 292, 6), Topo(5, {1, 2, 3, 4}, 292, 6),
      Topo(2, {1, 2}, 400, 6), Topo(5, {1}, 220, 6), Topo(3, {1}, 700, 6),
      Topo(5, {1}, 292, 1), Topo(4, {}, 250, 6) }

(* Fork times tried, in seconds after genesis: a grid, both sides of every *)
(* op's refusal, and the offsets of the shipped configurations. *)
ForkTimes == {390 + g * 30 : g \in 0..50} \cup
             {390 + e + d : e \in {370, 430, 730, 940}, d \in {-1, 0, 1}} \cup {780, 1800, 3000}

Input(p, g, t) ==
    [profile |-> p, gap |-> g, anchor |-> t.anchor, participants |-> t.participants,
     protect |-> t.protect, permille |-> t.permille, slot |-> t.slot]

MCLaps ==
    {Input("compositeSmoke", 780, Topo(3, {1}, 400, 6)),
     Input("compositeSmoke", 760, Topo(3, {1}, 400, 6)),
     Input("composite", 1350, Topo(4, {1}, 400, 12))}

MCMaxTroubles == [l \in MCLaps |-> IF l.gap = 780 THEN 2 ELSE 1]

MCOfflineLaps == {l \in MCLaps : l.gap = 780}

MCInputs ==
    {Input(p, g, t) : p \in DOMAIN profiles, g \in ForkTimes, t \in Topologies \cup Shipped}

Init == ResolutionInit /\ IdleInit

Next ==
    \/ ResolveIt /\ UNCHANGED idle
    \/ LapNext

Spec == Init /\ [][Next]_lapVars
=============================================================================
