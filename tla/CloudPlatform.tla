---------------------------- MODULE CloudPlatform ----------------------------
(***************************************************************************)
(* What the controller needs from a cloud (platform.CloudPlatform), as one *)
(* operator sees its own peers.  ReconcileNodes is given the router nodes, *)
(* never none: it adds peers of those nodes and removes peers of others, in*)
(* any number of steps, may give up at any of them, and succeeds only when *)
(* exactly the given nodes are peered.  Cleanup removes peers and succeeds *)
(* only when there are none.  Outside these two calls no peer changes.     *)
(***************************************************************************)
CONSTANT Addresses   \* addresses a peer can have

VARIABLES
    phase,     \* the call in progress, or how the last one ended
    desired,   \* addresses ReconcileNodes was given
    peered     \* addresses with a peer of this cluster

vars == <<phase, desired, peered>>

Phases == {"idle", "reconcile", "done", "cleanup", "clean"}

Init == phase = "idle" /\ desired = {} /\ peered = {}

\* A call fails, or the operator restarts: whatever was done stays.
GivesUp == phase' = "idle" /\ desired' = {}
GoesOn == UNCHANGED <<phase, desired>>

ReconcileNodes ==
    /\ phase = "idle"
    /\ phase' = "reconcile"
    /\ desired' \in (SUBSET Addresses) \ {{}}
    /\ UNCHANGED peered

WritePeers ==
    /\ phase = "reconcile"
    /\ peered' \in SUBSET Addresses
    /\ peered' \ peered \subseteq desired
    /\ (peered \ peered') \cap desired = {}
    /\ GoesOn \/ GivesUp

Succeed ==
    /\ phase = "reconcile" /\ peered = desired
    /\ phase' = "done"
    /\ UNCHANGED <<desired, peered>>

Return == phase = "done" /\ GivesUp /\ UNCHANGED peered

Cleanup == phase = "idle" /\ phase' = "cleanup" /\ UNCHANGED <<desired, peered>>

ReleasePeers ==
    /\ phase = "cleanup"
    /\ peered' \in SUBSET peered
    /\ GoesOn \/ GivesUp

Cleaned ==
    /\ phase = "cleanup" /\ peered = {}
    /\ phase' = "clean"
    /\ UNCHANGED <<desired, peered>>

Next == \/ ReconcileNodes \/ WritePeers \/ Succeed \/ Return
        \/ Cleanup \/ ReleasePeers \/ Cleaned

Spec == Init /\ [][Next]_vars
=============================================================================
