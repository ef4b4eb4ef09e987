---------------------------- MODULE MCCredentials ----------------------------
(***************************************************************************)
(* Instances of AWSCredentials for TLC.                                    *)
(***************************************************************************)
EXTENDS AWSCredentials

CONSTANTS r1, r2, k1
=============================================================================
