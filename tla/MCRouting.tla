----------------------------- MODULE MCRouting -----------------------------
(***************************************************************************)
(* Instances of BGPRouting for TLC: two objects that claim the same network *)
(* name, and two objects with names of their own.                          *)
(***************************************************************************)
EXTENDS BGPRouting, TLC

CONSTANTS r1, r2, blue, green, s1, s2

SharedNames == [r \in Routings |-> {blue}]
OwnNames == (r1 :> {blue}) @@ (r2 :> {green})
=============================================================================
