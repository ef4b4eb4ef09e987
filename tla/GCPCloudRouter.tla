--------------------------- MODULE GCPCloudRouter ---------------------------
(***************************************************************************)
(* The GCP platform (internal/platform/gcp): ReconcileNodes and Cleanup of *)
(* the peers of one cluster on a Cloud Router that others use too, and of  *)
(* the numbered Network Connectivity Center spokes its router nodes belong *)
(* to.  The peers of a Cloud Router are one field of it: the operator reads*)
(* the router, merges its peers with those of others and writes the whole  *)
(* field.  Nodes are distributed over the spokes in the order of their     *)
(* names, so that a node may move when another comes or goes.              *)
(*                                                                         *)
(* GCP is external: it refuses a peer on an interface the router does not  *)
(* have, a peer of a VM that is in no spoke, and to remove an interface    *)
(* that has a peer.                                                        *)
(***************************************************************************)
EXTENDS Integers, Sequences, FiniteSets

CONSTANTS
    NameOrder,     \* the VMs that may be router nodes, in the order of their names
    Address,       \* the address of each
    Interfaces,    \* interfaces the Cloud Router may have
    AtFirst,       \* lists of them it may have at first
    Foreign,       \* peers that are not this cluster's
    Absent,
    NCCMaxInstancesPerSpoke,
    NestedVirt,    \* spec.gcp asks for nested virtualization
    Disturbances,  \* what may happen besides
    MaxEvents      \* bound on environment and fault events

VMs == {NameOrder[k] : k \in DOMAIN NameOrder}
Addresses == {Address[v] : v \in VMs}
SpokeIds == 0..(Len(NameOrder) - 1)

\* PeerName: a peer of ours is named for the address of the node and the place of the
\* interface in the list of the router, here counted from 1.
Names == Addresses \X (1..Cardinality(Interfaces))

\* The interfaces of a router are a list of different ones, and may be none.
InterfaceLists ==
    {s \in UNION {[1..k -> Interfaces] : k \in 0..Cardinality(Interfaces)} :
        \A j, k \in DOMAIN s : s[j] = s[k] => j = k}

ASSUME OrderAssumption ==
    /\ NameOrder \in Seq(VMs) /\ NameOrder # <<>>
    /\ VMs \subseteq DOMAIN Address
    /\ \A j, k \in DOMAIN NameOrder : NameOrder[j] = NameOrder[k] => j = k
ASSUME SpokeAssumption == NCCMaxInstancesPerSpoke \in Nat \ {0} /\ NestedVirt \in BOOLEAN
ASSUME BoundAssumption == MaxEvents \in Nat /\ Interfaces # {} /\ IsFiniteSet(Interfaces)
ASSUME AtFirstAssumption == AtFirst \subseteq InterfaceLists

VARIABLES
    peers,       \* peers[n]: our peer named n, or Absent
    others,      \* peers of others on the router
    interfaces,  \* interfaces of the router, in its order
    spokes,      \* spokes[i]: the spoke numbered i, or Absent
    routers,     \* VMs that are router nodes
    siteToSite,  \* spec.gcp.ncc.siteToSiteDataTransfer
    deleting,    \* the configuration is being deleted
    forwarding,  \* VMs with canIpForward
    nested,      \* VMs with nested virtualization
    gauge,       \* the metric of managed peers
    touched,     \* auxiliary: peers others wrote since the operator read the router
    worker,      \* the reconcile in progress
    budget       \* events still allowed

routerVars == <<peers, others, interfaces>>
specVars == <<routers, siteToSite, deleting>>
vmVars == <<forwarding, nested>>
vars == <<routerVars, spokes, specVars, vmVars, gauge, touched, worker, budget>>

\* A peer has the VM of the node at one end and an interface at the other.
PeerRecords == [vm : VMs, interface : Interfaces]
Peers == [Names -> PeerRecords \cup {Absent}]
NoPeers == [n \in Names |-> Absent]
Spokes == [vms : SUBSET VMs, siteToSite : BOOLEAN]

ASSUME AbsentAssumption == Absent \notin Spokes \cup PeerRecords

\* A reconcile in progress: the call it is for; the setting the platform was built
\* with; router nodes listed, those still to prepare and the one in hand; the number
\* of the next spoke, spokes to delete; what was last read of the router: interfaces
\* and the peers of others.
Reconciles == [step : {"idle", "nodes", "forward", "nested", "spokes", "prune", "read",
                       "patch", "written", "done", "clear", "update", "clean", "skipped"},
               call : {"ReconcileNodes", "Cleanup"}, siteToSite : BOOLEAN,
               nodes : SUBSET VMs, todo : SUBSET VMs, node : VMs,
               next : 0..Len(NameOrder), stale : SUBSET SpokeIds,
               interfaces : InterfaceLists, others : SUBSET Foreign]

Idle == [step |-> "idle", call |-> "ReconcileNodes", siteToSite |-> FALSE, nodes |-> {},
         todo |-> {}, node |-> NameOrder[1], next |-> 0, stale |-> {},
         interfaces |-> <<>>, others |-> {}]

\* Router nodes have addresses of their own.
RouterSets == {s \in SUBSET VMs : \A u, v \in s : Address[u] = Address[v] => u = v}

Init ==
    /\ peers = NoPeers
    /\ others \in SUBSET Foreign
    /\ interfaces \in AtFirst
    /\ spokes = [i \in SpokeIds |-> Absent]
    /\ routers \in RouterSets
    /\ siteToSite = FALSE
    /\ deleting = FALSE
    /\ forwarding = {} /\ nested = {}
    /\ gauge = 0
    /\ touched = {}
    /\ worker = Idle
    /\ budget = MaxEvents

-----------------------------------------------------------------------------
(* Pure parts.                                                             *)

NameIndex(v) == CHOOSE k \in DOMAIN NameOrder : NameOrder[k] = v

\* The nodes sorted by name.
SortByName(nodes) ==
    LET indices == 1..Cardinality(nodes)
    IN  CHOOSE s \in [indices -> nodes] :
            \A j, k \in indices : j < k => NameIndex(s[j]) < NameIndex(s[k])

\* ChunkRouterNodes: slices of the nodes sorted by name, numbered from 0; the last
\* may be shorter.
ChunkRouterNodes(nodes, maxPer) ==
    LET sorted == SortByName(nodes)
        n == Cardinality(nodes)
        m == IF maxPer <= 0 THEN 1 ELSE maxPer
        end(i) == IF (i + 1) * m > n THEN n ELSE (i + 1) * m
    IN  [i \in {k \in SpokeIds : k * m < n} |-> {sorted[k] : k \in (i * m + 1)..end(i)}]

\* The chunks ReconcileNCCSpokes makes of the nodes.
SpokesOf(nodes) == ChunkRouterNodes(nodes, NCCMaxInstancesPerSpoke)

\* desiredPeers: one for each node and interface.
DesiredPeers(nodes, ifaces) ==
    [n \in Names |->
        IF n[2] \in DOMAIN ifaces /\ \E v \in nodes : Address[v] = n[1]
        THEN [vm |-> CHOOSE v \in nodes : Address[v] = n[1], interface |-> ifaces[n[2]]]
        ELSE Absent]

\* The peers of the router, compared in every field that is written.
PeersEqual(want) == peers = want

Count(p) == Cardinality({n \in Names : p[n] # Absent})

\* The interface i is one of the list.
Listed(i, ifaces) == \E k \in DOMAIN ifaces : ifaces[k] = i

InSpoke(v) == \E i \in SpokeIds : spokes[i] # Absent /\ v \in spokes[i].vms

-----------------------------------------------------------------------------
(* GCP, its other users and the cluster.                                   *)

Event == budget > 0 /\ budget' = budget - 1

\* A call works, fails, or takes effect while waiting for the operation fails.
Outcomes == {"ok"} \cup
            IF "fault" \in Disturbances /\ budget > 0 THEN {"error", "lostReply"} ELSE {}
\* A call about VMs is refused when one of them is gone; one that is no router node any
\* more may be.
OutcomesFor(vms) == Outcomes \cup IF vms \subseteq routers THEN {} ELSE {"refused"}
Applied(out) == out \in {"ok", "lostReply"}
Charge(out) == budget' = IF out \in {"ok", "refused"} THEN budget ELSE budget - 1

\* Somebody else, such as the operator of another cluster, adds or removes a peer
\* of theirs.
OthersWrite(p) ==
    /\ "others" \in Disturbances
    /\ Event
    /\ others' = IF p \in others THEN others \ {p} ELSE others \cup {p}
    /\ touched' = touched \cup {p}
    /\ UNCHANGED <<peers, interfaces, spokes, specVars, vmVars, gauge, worker>>

\* Interfaces are added to the router, or removed unless they have a peer, so that
\* others may move up in its list; none may be left.
InterfacesChange ==
    /\ "interfaces" \in Disturbances
    /\ Event
    /\ interfaces' \in InterfaceLists \ {interfaces}
    /\ \A n \in Names : peers[n] # Absent => Listed(peers[n].interface, interfaces')
    /\ UNCHANGED <<peers, others, spokes, specVars, vmVars, gauge, touched, worker>>

\* Router nodes come and go; a VM may take over the address of another.
RoutersChange ==
    /\ "nodes" \in Disturbances
    /\ Event
    /\ routers' \in RouterSets \ {routers}
    /\ UNCHANGED <<routerVars, spokes, siteToSite, deleting, vmVars, gauge, touched, worker>>

SiteToSiteEdited ==
    /\ "site" \in Disturbances
    /\ Event
    /\ siteToSite' = ~siteToSite
    /\ UNCHANGED <<routerVars, spokes, routers, deleting, vmVars, gauge, touched, worker>>

ConfigDeleted ==
    /\ "delete" \in Disturbances
    /\ ~deleting
    /\ Event
    /\ deleting' = TRUE
    /\ UNCHANGED <<routerVars, spokes, routers, siteToSite, vmVars, gauge, touched, worker>>

\* The operator restarts in the middle of a reconcile.
Restart ==
    /\ "restart" \in Disturbances
    /\ worker.step \notin {"idle", "clean", "skipped"}
    /\ Event
    /\ worker' = Idle
    /\ UNCHANGED <<routerVars, spokes, specVars, vmVars, gauge, touched>>

-----------------------------------------------------------------------------
(* ReconcileNodes: instances and spokes.                                   *)

Goto(step) == worker' = [worker EXCEPT !.step = step]
Fail == worker' = Idle

\* The platform is built from the configuration.  DiscoverEndpoints fails with the read
\* of the router, and for a router without interfaces; a configuration that is being
\* deleted then goes without Cleanup.
DiscoverEndpoints ==
    /\ worker.step = "idle"
    /\ \E out \in Outcomes :
          LET found == out = "ok" /\ interfaces # <<>>
          IN  /\ Charge(out)
              /\ \/ /\ found /\ ~deleting
                    /\ worker' = [Idle EXCEPT !.step = "nodes", !.siteToSite = siteToSite]
                 \/ /\ found /\ deleting
                    /\ worker' = [Idle EXCEPT !.step = "clear", !.call = "Cleanup"]
                 \/ ~found /\ ~deleting /\ Fail
                 \/ ~found /\ deleting /\ Goto("skipped")
    /\ UNCHANGED <<routerVars, spokes, specVars, vmVars, gauge, touched>>

\* Faulty variant: no router nodes is taken for a wish to have none.
ReconcileNodesOfNone ==
    /\ worker.step = "nodes"
    /\ worker' = [worker EXCEPT !.step = "forward", !.nodes = routers, !.todo = routers]
    /\ UNCHANGED <<routerVars, spokes, specVars, vmVars, gauge, touched, budget>>

\* No router nodes is no instruction to release anything.
ReconcileNodes ==
    /\ worker.step = "nodes"
    /\ worker' = IF routers = {} THEN Idle
                 ELSE [worker EXCEPT !.step = "forward", !.nodes = routers, !.todo = routers]
    /\ UNCHANGED <<routerVars, spokes, specVars, vmVars, gauge, touched, budget>>

\* The calls for one node: the first error ends ReconcileNodes.
EnsureInstance(out, after) == IF out = "ok" THEN worker' = after ELSE Fail

EnsureCanIPForward ==
    /\ worker.step = "forward"
    /\ \E v \in worker.todo : \E out \in OutcomesFor({v}) :
          /\ Charge(out)
          /\ forwarding' = IF Applied(out) THEN forwarding \cup {v} ELSE forwarding
          /\ EnsureInstance(out,
                IF NestedVirt THEN [worker EXCEPT !.step = "nested", !.node = v]
                ELSE [worker EXCEPT !.todo = @ \ {v}])
    /\ UNCHANGED <<routerVars, spokes, specVars, nested, gauge, touched>>

EnsureNestedVirtualization ==
    /\ worker.step = "nested"
    /\ \E out \in OutcomesFor({worker.node}) :
          /\ Charge(out)
          /\ nested' = IF Applied(out) THEN nested \cup {worker.node} ELSE nested
          /\ EnsureInstance(out,
                [worker EXCEPT !.step = "forward", !.todo = @ \ {worker.node}])
    /\ UNCHANGED <<routerVars, spokes, specVars, forwarding, gauge, touched>>

NodesForward ==
    /\ worker.step = "forward" /\ worker.todo = {}
    /\ Goto("spokes")
    /\ UNCHANGED <<routerVars, spokes, specVars, vmVars, gauge, touched, budget>>

\* Faulty variant: instances are only ever added to a spoke.
ReconcileSpokeAdding ==
    /\ worker.step = "spokes"
    /\ LET chunks == SpokesOf(worker.nodes)
           i == worker.next
           old == IF spokes[i] = Absent THEN {} ELSE spokes[i].vms
       IN  /\ i \in DOMAIN chunks
           /\ spokes' = [spokes EXCEPT ![i] =
                            [vms |-> old \cup chunks[i], siteToSite |-> worker.siteToSite]]
           /\ worker' = [worker EXCEPT !.next = @ + 1]
    /\ UNCHANGED <<routerVars, specVars, vmVars, gauge, touched, budget>>

\* ReconcileSpoke: the next chunk is read and, unless it matches, created or patched.
ReconcileSpoke ==
    /\ worker.step = "spokes"
    /\ LET chunks == SpokesOf(worker.nodes)
           i == worker.next
       IN  /\ i \in DOMAIN chunks
           /\ \E out \in OutcomesFor(chunks[i]) :
                 /\ Charge(out)
                 /\ spokes' = IF ~Applied(out) THEN spokes
                      ELSE [spokes EXCEPT ![i] = [vms |-> chunks[i],
                                                  siteToSite |-> worker.siteToSite]]
                 /\ IF out = "ok" THEN worker' = [worker EXCEPT !.next = @ + 1] ELSE Fail
    /\ UNCHANGED <<routerVars, specVars, vmVars, gauge, touched>>

\* ListSpokesByPrefix: the numbered spokes that are not wanted; Cleanup wants none.
ListSpokes ==
    /\ worker.step = "spokes"
    /\ LET wanted == DOMAIN SpokesOf(worker.nodes)
       IN  /\ worker.next \notin wanted
           /\ \E out \in Outcomes :
                 /\ Charge(out)
                 /\ IF out # "ok" THEN Fail
                    ELSE worker' = [worker EXCEPT !.step = "prune",
                            !.stale = {i \in SpokeIds \ wanted : spokes[i] # Absent}]
    /\ UNCHANGED <<routerVars, spokes, specVars, vmVars, gauge, touched>>

\* Faulty variant: a failed delete is only logged.
DeleteSpokeIgnoringErrors ==
    /\ worker.step = "prune"
    /\ \E i \in worker.stale, out \in Outcomes :
          /\ Charge(out)
          /\ spokes' = IF Applied(out) THEN [spokes EXCEPT ![i] = Absent] ELSE spokes
          /\ worker' = [worker EXCEPT !.stale = @ \ {i}]
    /\ UNCHANGED <<routerVars, specVars, vmVars, gauge, touched>>

\* DeleteSpoke; one that is not there counts as deleted.
DeleteSpoke ==
    /\ worker.step = "prune"
    /\ \E i \in worker.stale, out \in Outcomes :
          /\ Charge(out)
          /\ spokes' = IF Applied(out) THEN [spokes EXCEPT ![i] = Absent] ELSE spokes
          /\ IF out = "ok" THEN worker' = [worker EXCEPT !.stale = @ \ {i}] ELSE Fail
    /\ UNCHANGED <<routerVars, specVars, vmVars, gauge, touched>>

-----------------------------------------------------------------------------
(* ReconcileNodes: peers.                                                  *)

\* The router is read once more; this time a router without interfaces is no error.
GetRouterTopology ==
    /\ worker.step = "prune" /\ worker.stale = {}
    /\ worker.call = "ReconcileNodes"
    /\ \E out \in Outcomes :
          /\ Charge(out)
          /\ IF out # "ok" THEN Fail
             ELSE worker' = [worker EXCEPT !.step = "read", !.interfaces = interfaces]
    /\ UNCHANGED <<routerVars, spokes, specVars, vmVars, gauge, touched>>

\* Faulty variant: peers are taken for unchanged by their names.
ReadRouterByName ==
    /\ worker.step = "read"
    /\ LET want == DesiredPeers(worker.nodes, worker.interfaces)
       IN  IF \A n \in Names : (peers[n] = Absent) = (want[n] = Absent)
           THEN Goto("written")
           ELSE worker' = [worker EXCEPT !.step = "patch", !.others = others]
    /\ touched' = {}
    /\ UNCHANGED <<routerVars, spokes, specVars, vmVars, gauge, budget>>

\* ReconcilePeers reads the router; when its peers are the wanted ones nothing is
\* written.
ReadRouter ==
    /\ worker.step = "read"
    /\ LET want == DesiredPeers(worker.nodes, worker.interfaces)
       IN  \E out \in Outcomes :
              /\ Charge(out)
              /\ \/ out # "ok" /\ Fail
                 \/ out = "ok" /\ PeersEqual(want) /\ Goto("written")
                 \/ /\ out = "ok" /\ ~PeersEqual(want)
                    /\ worker' = [worker EXCEPT !.step = "patch", !.others = others]
    /\ touched' = {}
    /\ UNCHANGED <<routerVars, spokes, specVars, vmVars, gauge>>

\* GCP accepts the peers: the interfaces are there and the VMs are in spokes.
Accepts(want) ==
    \A n \in Names : want[n] # Absent =>
        Listed(want[n].interface, interfaces) /\ InSpoke(want[n].vm)

\* Faulty variant: only the peers of the cluster are sent.
PatchRouterOurs ==
    /\ worker.step = "patch"
    /\ peers' = DesiredPeers(worker.nodes, worker.interfaces)
    /\ others' = {}
    /\ Goto("written")
    /\ UNCHANGED <<interfaces, spokes, specVars, vmVars, gauge, touched, budget>>

\* The patch replaces the whole list: the wanted peers and those of others as read.
PatchRouter ==
    /\ worker.step = "patch"
    /\ LET want == DesiredPeers(worker.nodes, worker.interfaces)
       IN  \E out \in Outcomes :
              /\ Charge(out)
              /\ IF Applied(out) /\ Accepts(want)
                 THEN peers' = want /\ others' = worker.others
                 ELSE UNCHANGED <<peers, others>>
              /\ IF out = "ok" /\ Accepts(want) THEN Goto("written") ELSE Fail
    /\ UNCHANGED <<interfaces, spokes, specVars, vmVars, gauge, touched>>

\* The metric is what was wanted; nothing is read back.
SetCloudPeersManaged ==
    /\ worker.step = "written"
    /\ gauge' = Count(DesiredPeers(worker.nodes, worker.interfaces))
    /\ Goto("done")
    /\ UNCHANGED <<routerVars, spokes, specVars, vmVars, touched, budget>>

Return ==
    /\ worker.step = "done"
    /\ worker' = Idle
    /\ UNCHANGED <<routerVars, spokes, specVars, vmVars, gauge, touched, budget>>

-----------------------------------------------------------------------------
(* Cleanup.                                                                *)

\* Faulty variant: the metric is lowered, not reset.
ReadRouterToClearLowering ==
    /\ worker.step = "clear"
    /\ \E out \in Outcomes :
          /\ Charge(out)
          /\ \/ out # "ok" /\ Fail /\ UNCHANGED gauge
             \/ out = "ok" /\ peers = NoPeers /\ Goto("spokes") /\ gauge' = gauge - 1
             \/ /\ out = "ok" /\ peers # NoPeers
                /\ worker' = [worker EXCEPT !.step = "update", !.others = others,
                                !.interfaces = interfaces]
                /\ UNCHANGED gauge
    /\ touched' = {}
    /\ UNCHANGED <<routerVars, spokes, specVars, vmVars>>

\* ClearPeers reads the router; without a peer of ours there is nothing to write.
ReadRouterToClear ==
    /\ worker.step = "clear"
    /\ \E out \in Outcomes :
          /\ Charge(out)
          /\ \/ out # "ok" /\ Fail /\ UNCHANGED gauge
             \/ out = "ok" /\ peers = NoPeers /\ Goto("spokes") /\ gauge' = 0
             \/ /\ out = "ok" /\ peers # NoPeers
                /\ worker' = [worker EXCEPT !.step = "update", !.others = others,
                                !.interfaces = interfaces]
                /\ UNCHANGED gauge
    /\ touched' = {}
    /\ UNCHANGED <<routerVars, spokes, specVars, vmVars>>

\* The update writes the whole router as it was read, without our peers.
UpdateRouter ==
    /\ worker.step = "update"
    /\ \E out \in Outcomes :
          /\ Charge(out)
          /\ IF Applied(out)
             THEN peers' = NoPeers /\ others' = worker.others /\ interfaces' = worker.interfaces
             ELSE UNCHANGED routerVars
          /\ IF out = "ok" THEN Goto("spokes") /\ gauge' = 0 ELSE Fail /\ UNCHANGED gauge
    /\ UNCHANGED <<spokes, specVars, vmVars, touched>>

Cleaned ==
    /\ worker.step = "prune" /\ worker.stale = {}
    /\ worker.call = "Cleanup"
    /\ Goto("clean")
    /\ UNCHANGED <<routerVars, spokes, specVars, vmVars, gauge, touched, budget>>

-----------------------------------------------------------------------------
Operator ==
    \/ DiscoverEndpoints
    \/ ReconcileNodes
    \/ EnsureCanIPForward
    \/ EnsureNestedVirtualization
    \/ NodesForward
    \/ ReconcileSpoke
    \/ ListSpokes
    \/ DeleteSpoke
    \/ GetRouterTopology
    \/ ReadRouter
    \/ PatchRouter
    \/ SetCloudPeersManaged
    \/ Return
    \/ ReadRouterToClear
    \/ UpdateRouter
    \/ Cleaned

Environment ==
    \/ \E p \in Foreign : OthersWrite(p)
    \/ InterfacesChange
    \/ RoutersChange
    \/ SiteToSiteEdited
    \/ ConfigDeleted
    \/ Restart

Next == Environment \/ Operator

Spec == Init /\ [][Next]_vars

\* The operator keeps going: every five minutes after a success, sooner on an error.
FairSpec == Spec /\ WF_vars(Operator)

-----------------------------------------------------------------------------
(* Properties.                                                             *)

\* Every variable has its type.
TypeOK ==
    /\ peers \in Peers
    /\ others \in SUBSET Foreign
    /\ interfaces \in InterfaceLists
    /\ spokes \in [SpokeIds -> Spokes \cup {Absent}]
    /\ routers \in SUBSET VMs
    /\ siteToSite \in BOOLEAN /\ deleting \in BOOLEAN
    /\ forwarding \in SUBSET VMs /\ nested \in SUBSET VMs
    /\ gauge \in Nat
    /\ touched \in SUBSET Foreign
    /\ worker \in Reconciles
    /\ budget \in Nat

\* The list of peers is written wholesale, with the peers of others as read before.
\* The operator drops or restores a peer that is not its own only if its owner
\* changed it between the read and the write.
OthersSurvive ==
    [][\A p \in Foreign :
          (worker' # worker /\ (p \in others') # (p \in others)) => p \in touched]_vars

\* A VM can peer only as a member of a spoke, and GCP limits the size of a spoke.
\* Nodes are moved between numbered spokes one spoke at a time: when a reconcile
\* succeeds every node is in exactly one spoke, with no other VM in any, and
\* no spoke is ever above the limit, whatever was interrupted before.
NodesAreInOneSpoke ==
    /\ \A i \in SpokeIds : spokes[i] # Absent =>
          Cardinality(spokes[i].vms) <= NCCMaxInstancesPerSpoke
    /\ worker.step = "done" =>
          \A v \in VMs :
             Cardinality({i \in SpokeIds : spokes[i] # Absent /\ v \in spokes[i].vms})
                = IF v \in worker.nodes THEN 1 ELSE 0

\* Peers are cleared before the spokes, and each step of Cleanup may fail: when it
\* has run to its end no spoke of the operator is left.
CleanupReleasesSpokes ==
    worker.step = "clean" => \A i \in SpokeIds : spokes[i] = Absent

\* The refinement mapping: reading the router nodes begins the call, and an address is
\* peered with a peer on any interface.  A call that found no interface to peer on
\* reports success all the same; here it counts as given up.
Phase ==
    CASE worker.step \in {"idle", "nodes", "skipped"} -> "idle"
      [] worker.step = "done" /\ worker.interfaces # <<>> -> "done"
      [] worker.step = "clean" -> "clean"
      [] OTHER -> IF worker.call = "Cleanup" THEN "cleanup" ELSE "reconcile"
Desired == {Address[v] : v \in worker.nodes}
Peered == {a \in Addresses : \E k \in 1..Cardinality(Interfaces) : peers[<<a, k>>] # Absent}

\* What platform.CloudPlatform asks of ReconcileNodes and Cleanup.
Platform == INSTANCE CloudPlatform WITH
    Addresses <- Addresses, phase <- Phase, desired <- Desired, peered <- Peered

\* The calls keep the promises of the interface through failed calls, lost replies
\* and restarts: a wanted node keeps a peer even where interfaces move up, an empty
\* node list releases nothing, success means exactly the given nodes are peered
\* unless the router had no interface when the call read it, and Cleanup ends with no
\* peer of ours.
ImplementsPlatform == Platform!Spec

Settled ==
    IF deleting
    THEN worker.step = "skipped" \/ (worker.step = "clean" /\ gauge = 0)
    ELSE routers # {} /\ interfaces # <<>> =>
         /\ peers = DesiredPeers(routers, interfaces)
         /\ \A i \in SpokeIds :
               spokes[i] = IF i \in DOMAIN SpokesOf(routers)
                           THEN [vms |-> SpokesOf(routers)[i], siteToSite |-> siteToSite]
                           ELSE Absent
         /\ routers \subseteq forwarding
         /\ NestedVirt => routers \subseteq nested
         /\ gauge = Count(peers)

\* Once nodes, specs, people and faults stay quiet, the router nodes are the members
\* of the spokes, have a peer on every interface, and the metric counts those; for a
\* router left without interfaces DiscoverEndpoints fails and nothing is promised.
Converges == <>[]Settled
=============================================================================
