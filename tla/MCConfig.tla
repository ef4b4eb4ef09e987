------------------------------ MODULE MCConfig ------------------------------
(***************************************************************************)
(* Instances of BGPCloudConfiguration for TLC: two peer groups, plans of    *)
(* one and of two groups, Manual specs with each plan and a cloud spec.     *)
(* Where g1 covers g2, g1 is g2 with BFD or multihop switched on.           *)
(***************************************************************************)
EXTENDS BGPCloudConfiguration

CONSTANTS n1, n2, g1, g2

TwoPlans == {<<g1, g2>>, <<g2>>}
OnePlan == {<<g2>>}
ManualSpecs == {[platform |-> "Manual", groups |-> p] : p \in TwoPlans}
CloudSpec == {[platform |-> "Cloud", groups |-> <<>>]}
LooseCovers == {<<g1, g2>>}
AllSpecs == CloudSpec \cup ManualSpecs
=============================================================================
