------------------------------ MODULE MCAzure ------------------------------
(***************************************************************************)
(* Instances of AzureRouteServer for TLC: v1 and v2 have an address in turn, *)
(* v3 has one of its own.                                                  *)
(***************************************************************************)
EXTENDS AzureRouteServer, TLC

CONSTANTS v1, v2, v3, a1, a2

AddressOf == [v \in {v1, v2} |-> a1] @@ [v \in {v3} |-> a2]
=============================================================================
