--------------------------- MODULE AWSRouteServer ---------------------------
(***************************************************************************)
(* The AWS platform (internal/platform/aws): ReconcileNodes and Cleanup of *)
(* the Route Server peers, for clusters that share the endpoints of one    *)
(* VPC.  Each cluster's operator lists the peers of an endpoint, deletes   *)
(* the managed ones no router node accounts for, lists again, then adopts  *)
(* or creates a peer for every router node of the endpoint's zone.  Every  *)
(* call is a step of its own: EC2, other people and the other cluster's    *)
(* operator act between a list and what is done about it.                  *)
(*                                                                         *)
(* EC2 is external: a peer is pending, then available or failed; a deleted *)
(* one is deleting, then deleted, and is listed for a while after that.    *)
(***************************************************************************)
EXTENDS Integers, FiniteSets

CONSTANTS
    Clusters,      \* operators that share the Route Servers
    Endpoints,     \* Route Server endpoints of the VPC
    Addresses,     \* addresses router nodes may have
    Subnet,        \* Subnet[c]: those the router nodes of c may have
    Zone,          \* the zone of each endpoint and of each address
    Nobody,        \* the owner of an address no router node has
    Disturbances,  \* what may happen besides
    MaxPeers,      \* bound on the peers ever created
    MaxEvents      \* bound on environment and fault events

Ids == 1..MaxPeers

ASSUME ZoneAssumption ==
    Endpoints \cup Addresses \subseteq DOMAIN Zone /\ Endpoints # {} /\ Addresses # {}
ASSUME SubnetAssumption == Subnet \in [Clusters -> SUBSET Addresses]
ASSUME NobodyAssumption == Nobody \notin Clusters /\ "other" \notin Clusters
ASSUME BoundsAssumption == MaxPeers \in Nat /\ MaxEvents \in Nat

VARIABLES
    peers,      \* peers[id]: what EC2 has under this id
    owner,      \* owner[a]: the cluster with a router node at a
    discovered, \* discovered[c]: endpoints of the Route Servers in c's spec
    deleting,   \* clusters whose configuration is being deleted
    checked,    \* addresses whose interface still has source/dest check on
    gauge,      \* gauge[c]: the metric of managed peers
    worker,     \* worker[c]: the reconcile of c in progress
    budget      \* events still allowed

specVars == <<owner, discovered, deleting>>
vars == <<peers, owner, discovered, deleting, checked, gauge, worker, budget>>

-----------------------------------------------------------------------------
(* Peers.  `tag` is the value of the managed-by tag: a cluster, or "other"  *)
(* for another value or a peer without the tag.                             *)

States == {"unused", "pending", "available", "failed", "deleting", "deleted", "forgotten"}

Peers == [endpoint : Endpoints, ip : Addresses, state : States,
          tag : Clusters \cup {"other"}]

Unused == [endpoint |-> CHOOSE e \in Endpoints : TRUE, ip |-> CHOOSE a \in Addresses : TRUE,
           state |-> "unused", tag |-> "other"]

IsDeleting(p) == p.state = "deleting"
IsDeleted(p) == p.state = "deleted"

\* listAllPeers of an endpoint: EC2 also lists peers that are deleted.
ListAllPeers(e) ==
    {i \in Ids : peers[i].endpoint = e /\ peers[i].state \notin {"unused", "forgotten"}}

\* listManagedPeers: those tagged with this cluster.
ListManagedPeers(c, e) == {i \in ListAllPeers(e) : peers[i].tag = c}

IPs(ids) == {peers[i].ip : i \in ids}

\* A peer holds its address on its endpoint until it is deleted.
Working == {"pending", "available", "failed"}
Held(e, a) == \E i \in Ids : /\ peers[i].endpoint = e /\ peers[i].ip = a
                             /\ peers[i].state \in Working \cup {"deleting"}

\* Who may have a router node at an address.
MayOwn(a) == {c \in Clusters : a \in Subnet[c]} \cup {Nobody}

Nodes(c) == {a \in Addresses : owner[a] = c}
InZone(addresses, e) == {a \in addresses : Zone[a] = Zone[e]}

\* A reconcile in progress: endpoints, those still to do and the present one; router
\* nodes listed; ids of managed peers, of stale ones still to delete and of
\* peers to adopt; addresses still without a peer; nodes whose interface is to do.
Reconciles == [step : {"idle", "nodes", "list", "stale", "missing", "check",
                       "done", "cleanup", "release", "clean", "skipped"},
               endpoints : SUBSET Endpoints, todo : SUBSET Endpoints, endpoint : Endpoints, desired : SUBSET Addresses,
               managed : SUBSET Ids, stale : SUBSET Ids, adoptable : SUBSET Ids,
               missing : SUBSET Addresses, unchecked : SUBSET Addresses]

Idle == [step |-> "idle", endpoints |-> {}, todo |-> {}, endpoint |-> CHOOSE e \in Endpoints : TRUE,
         desired |-> {}, managed |-> {}, stale |-> {}, adoptable |-> {}, missing |-> {},
         unchecked |-> {}]

Init ==
    /\ peers = [i \in Ids |-> Unused]
    /\ owner \in {o \in [Addresses -> Clusters \cup {Nobody}] :
                      \A a \in Addresses : o[a] \in MayOwn(a)}
    /\ discovered = [c \in Clusters |-> Endpoints]
    /\ deleting = {}
    /\ checked = Addresses
    /\ gauge = [c \in Clusters |-> 0]
    /\ worker = [c \in Clusters |-> Idle]
    /\ budget = MaxEvents

-----------------------------------------------------------------------------
(* EC2 and its other users.                                                *)

Event == budget > 0 /\ budget' = budget - 1

Outcomes == {"ok"} \cup
            IF "fault" \in Disturbances /\ budget > 0 THEN {"error", "lostReply"} ELSE {}
Applied(out) == out # "error"
Charge(out) == budget' = IF out = "ok" THEN budget ELSE budget - 1

\* A new peer, under the next id: the ids of EC2 are never used again.
Created(e, a, tag, state) ==
    LET free == {i \in Ids : peers[i].state = "unused"}
        next == CHOOSE i \in free : \A j \in free : i <= j
    IN  /\ free # {}
        /\ peers' = [peers EXCEPT ![next] =
                        [endpoint |-> e, ip |-> a, state |-> state, tag |-> tag]]

\* A peer comes up, is gone after its deletion, or is not listed any more.
PeerProgresses(i) ==
    /\ peers[i].state \in {"pending", "deleting", "deleted"}
    /\ peers' = [peers EXCEPT ![i].state =
                    CASE @ = "pending" -> "available"
                      [] @ = "deleting" -> "deleted"
                      [] OTHER -> "forgotten"]
    /\ UNCHANGED <<specVars, checked, gauge, worker, budget>>

\* A create that EC2 accepted is not carried out.
PeerFails(i) ==
    /\ "failure" \in Disturbances
    /\ peers[i].state = "pending"
    /\ Event
    /\ peers' = [peers EXCEPT ![i].state = "failed"]
    /\ UNCHANGED <<specVars, checked, gauge, worker>>

\* A peer of a cluster is deleted out from under its operator.
PeerDeletedByHand(i) ==
    /\ "drift" \in Disturbances
    /\ peers[i].tag \in Clusters /\ peers[i].state \in Working
    /\ Event
    /\ peers' = [peers EXCEPT ![i].state = "deleting"]
    /\ UNCHANGED <<specVars, checked, gauge, worker>>

\* Someone else creates a peer: by hand, without a tag, or from a cluster that
\* is not modelled.
ForeignPeerCreated(e, a) ==
    /\ "foreign" \in Disturbances
    /\ ~Held(e, a)
    /\ Event
    /\ Created(e, a, "other", "available")
    /\ UNCHANGED <<specVars, checked, gauge, worker>>

\* A router node comes, goes, or its address passes to another cluster of the same
\* subnet; a new instance has the check on.
NodeChanges(a) ==
    /\ "nodes" \in Disturbances
    /\ Event
    /\ \E c \in MayOwn(a) \ {owner[a]} : owner' = [owner EXCEPT ![a] = c]
    /\ checked' = checked \cup {a}
    /\ UNCHANGED <<peers, discovered, deleting, gauge, worker>>

\* spec.aws.routeServerIDs is edited; it names one Route Server at least.
EndpointsChange(c) ==
    /\ "endpoints" \in Disturbances
    /\ Event
    /\ \E s \in (SUBSET Endpoints) \ {{}, discovered[c]} : discovered' = [discovered EXCEPT ![c] = s]
    /\ UNCHANGED <<peers, owner, deleting, checked, gauge, worker>>

\* The configuration of c is deleted.
ConfigDeleted(c) ==
    /\ "delete" \in Disturbances
    /\ c \notin deleting
    /\ Event
    /\ deleting' = deleting \cup {c}
    /\ UNCHANGED <<peers, owner, discovered, checked, gauge, worker>>

\* The operator restarts in the middle of a reconcile.
Restart(c) ==
    /\ "restart" \in Disturbances
    /\ worker[c].step \notin {"idle", "clean", "skipped"}
    /\ Event
    /\ worker' = [worker EXCEPT ![c] = Idle]
    /\ UNCHANGED <<peers, specVars, checked, gauge>>

-----------------------------------------------------------------------------
(* ReconcileNodes.                                                         *)

Goto(c, w) == worker' = [worker EXCEPT ![c] = w]
Fail(c) == Goto(c, Idle)

\* DiscoverEndpoints; a configuration that is being deleted goes on to Cleanup, or
\* without it when discovery fails.
DiscoverEndpoints(c) ==
    /\ worker[c].step = "idle"
    /\ \E out \in Outcomes :
          /\ Charge(out)
          /\ \/ /\ out = "ok"
                /\ Goto(c, [Idle EXCEPT !.endpoints = discovered[c], !.todo = discovered[c],
                               !.step = IF c \in deleting THEN "cleanup" ELSE "nodes"])
             \/ out # "ok" /\ c \notin deleting /\ Fail(c)
             \/ out # "ok" /\ c \in deleting /\ Goto(c, [Idle EXCEPT !.step = "skipped"])
    /\ UNCHANGED <<peers, specVars, checked, gauge>>

\* No router nodes is no instruction to release the peers.
ReconcileNodes(c) ==
    /\ worker[c].step = "nodes"
    /\ Goto(c, IF Nodes(c) = {} THEN Idle
               ELSE [worker[c] EXCEPT !.step = "list", !.desired = Nodes(c)])
    /\ UNCHANGED <<peers, specVars, checked, gauge, budget>>

\* The managed peers of the next endpoint; a deleted one is not there, and one
\* that is deleting is not deleted again.
ListManaged(c) ==
    /\ worker[c].step = "list"
    /\ worker[c].todo # {}
    /\ \E e \in worker[c].todo, out \in Outcomes :
          LET managed == {i \in ListManagedPeers(c, e) : ~IsDeleted(peers[i])}
              stale == {i \in managed : ~IsDeleting(peers[i])
                                        /\ peers[i].ip \notin InZone(worker[c].desired, e)}
          IN  /\ Charge(out)
              /\ IF out # "ok" THEN Fail(c)
                 ELSE Goto(c, [worker[c] EXCEPT !.step = "stale", !.endpoint = e,
                                 !.todo = @ \ {e}, !.managed = managed, !.stale = stale])
    /\ UNCHANGED <<peers, specVars, checked, gauge>>

\* EC2 refuses to delete a peer that is deleting, deleted or unknown.
DeletePeer(c, i, after) ==
    \E out \in Outcomes :
        LET refused == peers[i].state \notin Working
        IN  /\ Charge(out)
            /\ peers' = IF Applied(out) /\ ~refused
                        THEN [peers EXCEPT ![i].state = "deleting"] ELSE peers
            /\ IF out = "ok" /\ ~refused THEN Goto(c, after) ELSE Fail(c)

\* Faulty variant: a failed delete is only logged.
DeleteStaleIgnoringErrors(c) ==
    /\ worker[c].step = "stale"
    /\ \E i \in worker[c].stale, out \in Outcomes :
          /\ Charge(out)
          /\ peers' = IF Applied(out) /\ peers[i].state \in Working
                      THEN [peers EXCEPT ![i].state = "deleting"] ELSE peers
          /\ Goto(c, [worker[c] EXCEPT !.stale = @ \ {i}])
    /\ UNCHANGED <<specVars, checked, gauge>>

DeleteStale(c) ==
    /\ worker[c].step = "stale"
    /\ \E i \in worker[c].stale :
          DeletePeer(c, i, [worker[c] EXCEPT !.stale = @ \ {i}])
    /\ UNCHANGED <<specVars, checked, gauge>>

\* Faulty variant: nothing is adopted.
ListAllAdoptingNone(c) ==
    /\ worker[c].step = "stale" /\ worker[c].stale = {}
    /\ LET w == worker[c]
           e == w.endpoint
       IN  Goto(c, [w EXCEPT !.step = "missing",
                       !.managed = {}, !.missing = InZone(w.desired, e) \ IPs(w.managed)])
    /\ UNCHANGED <<peers, specVars, checked, gauge, budget>>

\* All peers of the endpoint: those that stay and are not managed can be adopted.
ListAll(c) ==
    /\ worker[c].step = "stale" /\ worker[c].stale = {}
    /\ LET w == worker[c]
           e == w.endpoint
           adoptable == {i \in ListAllPeers(e) : ~IsDeleting(peers[i]) /\ ~IsDeleted(peers[i])
                                                 /\ peers[i].ip \notin IPs(w.managed)}
       IN  \E out \in Outcomes :
             /\ Charge(out)
             /\ IF out # "ok" THEN Fail(c)
                ELSE Goto(c, [w EXCEPT !.step = "missing", !.adoptable = adoptable,
                                !.managed = {}, !.missing = InZone(w.desired, e) \ IPs(w.managed)])
    /\ UNCHANGED <<peers, specVars, checked, gauge>>

\* tagPeer replaces the value of the tag; EC2 must still know the peer.
TagPeer(c, i, out, after) ==
    LET known == peers[i].state # "forgotten"
    IN  /\ peers' = IF Applied(out) /\ known THEN [peers EXCEPT ![i].tag = c] ELSE peers
        /\ IF out = "ok" /\ known THEN Goto(c, after) ELSE Fail(c)

\* createPeer; EC2 refuses one whose address is held.
CreatePeer(c, e, a, out, after) ==
    \/ Held(e, a) /\ UNCHANGED peers /\ Fail(c)
    \/ /\ ~Held(e, a)
       /\ IF Applied(out) THEN Created(e, a, c, "pending") ELSE UNCHANGED peers
       /\ IF out = "ok" THEN Goto(c, after) ELSE Fail(c)

\* Tag the peer that is at the address, or create one.
AddPeer(c) ==
    /\ worker[c].step = "missing"
    /\ \E a \in worker[c].missing, out \in Outcomes :
          LET w == worker[c]
              there == {i \in w.adoptable : peers[i].ip = a}
              added == [w EXCEPT !.missing = @ \ {a}]
          IN  /\ Charge(out)
              /\ \/ \E i \in there : TagPeer(c, i, out, added)
                 \/ there = {} /\ CreatePeer(c, w.endpoint, a, out, added)
    /\ UNCHANGED <<specVars, checked, gauge>>

\* The endpoint is done.
NextEndpoint(c) ==
    /\ worker[c].step = "missing" /\ worker[c].missing = {}
    /\ Goto(c, [worker[c] EXCEPT !.step = "list", !.endpoint = Idle.endpoint,
                               !.adoptable = {}])
    /\ UNCHANGED <<peers, specVars, checked, gauge, budget>>

\* Faulty variant: off by one.
CountManagedPeersOffByOne(c, endpoints, desired) ==
    Cardinality({i \in Ids : \E e \in endpoints :
        /\ i \in ListManagedPeers(c, e) /\ ~IsDeleted(peers[i])
        /\ peers[i].ip \in InZone(desired, e)}) - 1

\* countManagedPeers: what EC2 lists for the nodes, not what was asked for.
CountManagedPeers(c, endpoints, desired) ==
    Cardinality({i \in Ids : \E e \in endpoints :
        /\ i \in ListManagedPeers(c, e) /\ ~IsDeleted(peers[i])
        /\ peers[i].ip \in InZone(desired, e)})

CountPeers(c) ==
    /\ worker[c].step = "list" /\ worker[c].todo = {}
    /\ LET w == worker[c]
       IN  \E out \in Outcomes :
             /\ Charge(out)
             /\ IF out # "ok" THEN Fail(c) /\ UNCHANGED gauge
                ELSE /\ gauge' = [gauge EXCEPT ![c] =
                                     CountManagedPeers(c, w.endpoints, w.desired)]
                     /\ Goto(c, [w EXCEPT !.step = "check", !.unchecked = w.desired])
    /\ UNCHANGED <<peers, specVars, checked>>

\* disableSourceDestCheck of the next node; one that is gone by now is an error,
\* unless only its label moved.
DisableSourceDestCheck(c) ==
    /\ worker[c].step = "check"
    /\ \E a \in worker[c].unchecked, out \in Outcomes :
          /\ Charge(out)
          /\ checked' = IF Applied(out) /\ owner[a] = c THEN checked \ {a} ELSE checked
          /\ \/ out = "ok" /\ Goto(c, [worker[c] EXCEPT !.unchecked = @ \ {a}])
             \/ (out # "ok" \/ owner[a] # c) /\ Fail(c)
    /\ UNCHANGED <<peers, specVars, gauge>>

Succeed(c) ==
    /\ worker[c].step = "check" /\ worker[c].unchecked = {}
    /\ Goto(c, [worker[c] EXCEPT !.step = "done"])
    /\ UNCHANGED <<peers, specVars, checked, gauge, budget>>

Return(c) ==
    /\ worker[c].step = "done"
    /\ Goto(c, Idle)
    /\ UNCHANGED <<peers, specVars, checked, gauge, budget>>

-----------------------------------------------------------------------------
(* Cleanup.                                                                *)

\* Faulty variant: a peer that has not come up yet is taken for one that is not there.
ListForCleanupAvailable(c) ==
    /\ worker[c].step = "cleanup"
    /\ \E e \in worker[c].todo :
          Goto(c, [worker[c] EXCEPT !.step = "release", !.todo = @ \ {e},
                     !.stale = {i \in ListManagedPeers(c, e) : peers[i].state = "available"}])
    /\ UNCHANGED <<peers, specVars, checked, gauge, budget>>

\* The managed peers of the next endpoint that are not on their way out.
ListForCleanup(c) ==
    /\ worker[c].step = "cleanup"
    /\ worker[c].todo # {}
    /\ \E e \in worker[c].todo, out \in Outcomes :
          /\ Charge(out)
          /\ IF out # "ok" THEN Fail(c)
             ELSE Goto(c, [worker[c] EXCEPT !.step = "release", !.todo = @ \ {e},
                     !.stale = {i \in ListManagedPeers(c, e) :
                                   ~IsDeleting(peers[i]) /\ ~IsDeleted(peers[i])}])
    /\ UNCHANGED <<peers, specVars, checked, gauge>>

DeleteManaged(c) ==
    /\ worker[c].step = "release"
    /\ \/ \E i \in worker[c].stale :
             DeletePeer(c, i, [worker[c] EXCEPT !.stale = @ \ {i}])
       \/ /\ worker[c].stale = {}
          /\ Goto(c, [worker[c] EXCEPT !.step = "cleanup"])
          /\ UNCHANGED <<peers, budget>>
    /\ UNCHANGED <<specVars, checked, gauge>>

\* Every endpoint is done: the configuration goes.
Cleaned(c) ==
    /\ worker[c].step = "cleanup" /\ worker[c].todo = {}
    /\ gauge' = [gauge EXCEPT ![c] = 0]
    /\ Goto(c, [Idle EXCEPT !.step = "clean", !.endpoints = worker[c].endpoints])
    /\ UNCHANGED <<peers, specVars, checked, budget>>

-----------------------------------------------------------------------------
Operator(c) ==
    \/ DiscoverEndpoints(c)
    \/ ReconcileNodes(c)
    \/ ListManaged(c)
    \/ DeleteStale(c)
    \/ ListAll(c)
    \/ AddPeer(c)
    \/ NextEndpoint(c)
    \/ CountPeers(c)
    \/ DisableSourceDestCheck(c)
    \/ Succeed(c)
    \/ Return(c)
    \/ ListForCleanup(c)
    \/ DeleteManaged(c)
    \/ Cleaned(c)

Environment ==
    \/ \E i \in Ids : PeerProgresses(i) \/ PeerFails(i) \/ PeerDeletedByHand(i)
    \/ \E e \in Endpoints, a \in Addresses : ForeignPeerCreated(e, a)
    \/ \E a \in Addresses : NodeChanges(a)
    \/ \E c \in Clusters : EndpointsChange(c) \/ ConfigDeleted(c) \/ Restart(c)

Next == Environment \/ \E c \in Clusters : Operator(c)

Spec == Init /\ [][Next]_vars

\* The operator keeps going (on success after five minutes, on an error at once
\* or after 30 seconds) and EC2 carries out what it accepted.
Fairness ==
    /\ \A c \in Clusters : WF_vars(Operator(c))
    /\ \A i \in Ids : WF_vars(PeerProgresses(i))

FairSpec == Spec /\ Fairness

-----------------------------------------------------------------------------
(* Properties.                                                             *)

\* Every variable has its type.
TypeOK ==
    /\ peers \in [Ids -> Peers]
    /\ owner \in [Addresses -> Clusters \cup {Nobody}]
    /\ discovered \in [Clusters -> SUBSET Endpoints]
    /\ deleting \in SUBSET Clusters
    /\ checked \in SUBSET Addresses
    /\ gauge \in [Clusters -> Nat]
    /\ worker \in [Clusters -> Reconciles]
    /\ budget \in Nat

\* An operator deletes a peer only while the peer carries its tag. What it deletes
\* was listed earlier, and the operator of another cluster may have adopted the
\* peer since, which replaces the tag ("multiple clusters sharing the same VPC Route
\* Server do not interfere with each other's peers").
NoInterference ==
    [][\A c \in Clusters, i \in Ids :
          (worker'[c] # worker[c] /\ peers[i].state \in Working
             /\ peers'[i].state = "deleting") => peers[i].tag = c]_vars

\* A reconcile that succeeds leaves no peer of the cluster in use on its endpoints
\* but those of the router nodes it listed, each in its own zone, whatever failed
\* or was interrupted before and whatever others did meanwhile.
OnlyNodesArePeered ==
    \A c \in Clusters : worker[c].step = "done" =>
        \A i \in Ids :
            (peers[i].tag = c /\ peers[i].state \in Working
               /\ peers[i].endpoint \in worker[c].endpoints)
            => peers[i].ip \in InZone(worker[c].desired, peers[i].endpoint)

\* When Cleanup has run to its end, through failed deletes, lost replies and
\* restarts that make it start over, no peer of the cluster is in use on the
\* endpoints it was given: one that is already deleting is neither deleted again
\* nor taken for the last.
CleanupReleasesPeers ==
    \A c \in Clusters : worker[c].step = "clean" =>
        \A i \in Ids : (peers[i].tag = c /\ peers[i].endpoint \in worker[c].endpoints)
                        => peers[i].state \notin Working

Peered(c, e, a) ==
    \E i \in Ids : /\ peers[i].endpoint = e /\ peers[i].ip = a /\ peers[i].tag = c
                   /\ peers[i].state \in {"available", "failed"}

Settled(c) ==
    IF c \in deleting
    THEN worker[c].step \in {"clean", "skipped"}
    ELSE Nodes(c) # {} =>
         /\ \A e \in discovered[c] : \A a \in InZone(Nodes(c), e) : Peered(c, e, a)
         /\ \A i \in Ids :
               (peers[i].tag = c /\ peers[i].endpoint \in discovered[c]
                  /\ peers[i].state \in Working)
               => peers[i].ip \in InZone(Nodes(c), peers[i].endpoint)
         /\ checked \cap Nodes(c) = {}

\* Once nodes, specs, people and faults stay quiet, every router node has a peer on
\* every endpoint of its zone that EC2 did not fail to create, no other peer of the
\* cluster is left there, and forwarding is on: a peer found deleting is replaced
\* by a later reconcile, and a refused delete or create does not repeat for ever.
Converges == \A c \in Clusters : <>[]Settled(c)
=============================================================================
