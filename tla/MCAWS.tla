------------------------------- MODULE MCAWS -------------------------------
(***************************************************************************)
(* Instances of AWSRouteServer for TLC: an endpoint and an address in zone  *)
(* a, another of each in zone b; for two clusters, an endpoint and two      *)
(* addresses in one zone, in a subnet they share.                           *)
(***************************************************************************)
EXTENDS AWSRouteServer, TLC

CONSTANTS c1, c2, e1, e2, a1, a2

ZoneOf == [x \in {e1, a1} |-> "a"] @@ [x \in {e2, a2} |-> "b"]
OneZone == [x \in {e1, e2, a1, a2} |-> "a"]

OneSubnet == [c \in Clusters |-> Addresses]
=============================================================================
