---------------------------- MODULE MCForkBlock ----------------------------
(***************************************************************************)
(* Two nodes, the chain parting one block after the genesis of the model.  *)
(***************************************************************************)
EXTENDS ForkBlock

(* The losing side of a partition has fewer proposers, hence fewer blocks  *)
(* before the activation: its fork block is the lower one, or as high. *)
Sparser == {x \in [{"A", "B"} -> 2..3] : x["B"] = 2}

(* checkProvisional "fires once nodes disagree longer than any partition   *)
(* could explain" (timeline.go:274). *)
DisagreementFires ==
    (disagreed > Grace) ~> (\E n \in Node : <<"provisional", n>> \in alarms)
=============================================================================
