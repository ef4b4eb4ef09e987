-------------------------- MODULE AzureRouteServer --------------------------
(***************************************************************************)
(* The Azure platform (internal/platform/azure): ReconcileNodes and Cleanup*)
(* of the peerings of one cluster on a Route Server that others use too.   *)
(* A peering has a name, which says whose it is, and an ASN.  The operator *)
(* turns forwarding on, lists the peerings to learn those of others, lists *)
(* them again to compare with what it wants, writes what differs, deletes  *)
(* what it does not want, and lists once more to count.  Every call is a   *)
(* step of its own: others act between the lists and the writes.           *)
(*                                                                         *)
(* Azure is external: a write or delete that is accepted takes effect, and *)
(* deleting what is not there is no error.                                 *)
(***************************************************************************)
EXTENDS Integers, FiniteSets

CONSTANTS
    VMs,           \* virtual machines that may be router nodes
    Address,       \* the private address of each
    Cut,           \* addresses whose peering name is too long: its prefix is cut
    Foreign,       \* names of peerings that are not this cluster's
    ASNs,
    Absent,        \* in place of an ASN: no such peering
    Disturbances,  \* what may happen besides
    MaxEvents      \* bound on environment and fault events

Addresses == {Address[v] : v \in VMs}

\* peeringName ends with the address, so the address stands for the name of a
\* peering of ours.  What it may lose, at 80 characters, is the end of the prefix.
Names == Addresses \cup Foreign

ASSUME NamesAssumption == VMs \subseteq DOMAIN Address /\ Addresses \cap Foreign = {}
ASSUME CutAssumption == Cut \subseteq Addresses
ASSUME ASNAssumption == ASNs # {} /\ Absent \notin ASNs
ASSUME BoundAssumption == MaxEvents \in Nat
ASSUME FiniteAssumption == IsFiniteSet(VMs)

VARIABLES
    peerings,    \* peerings[n]: ASN of the peering named n, or Absent
    routers,     \* VMs that are router nodes
    localASN,    \* spec.bgp.localASN
    deleting,    \* the configuration is being deleted
    forwarding,  \* VMs whose interface forwards
    gauge,       \* the metric of managed peers
    touched,     \* auxiliary: peerings others wrote since the operator's first list
    worker,      \* the reconcile in progress
    budget       \* events still allowed

specVars == <<routers, localASN, deleting>>
vars == <<peerings, routers, localASN, deleting, forwarding, gauge, touched, worker, budget>>

\* isOurPeering: the name starts with the whole prefix of the cluster, which the
\* name of a peering of ours does not when it was cut.
IsOurPeering(n) == n \in Addresses \ Cut

Peerings == [Names -> ASNs \cup {Absent}]
NoPeerings == [n \in Names |-> Absent]

\* A reconcile in progress: the call it is for; router nodes listed, those whose
\* interface is still to do; the peerings wanted, those to write and to delete.
Steps == {"idle", "nodes", "nics", "enable", "list", "compare", "write", "count", "done",
          "clean", "skipped"}
Reconciles == [step : Steps,
               call : {"ReconcileNodes", "Cleanup"},
               nodes : SUBSET VMs, off : SUBSET VMs, want : Peerings,
               writes : SUBSET Names, deletes : SUBSET Names]

Idle == [step |-> "idle", call |-> "ReconcileNodes", nodes |-> {}, off |-> {},
         want |-> NoPeerings, writes |-> {}, deletes |-> {}]

\* Router nodes have addresses of their own.
RouterSets == {s \in SUBSET VMs : \A u, v \in s : Address[u] = Address[v] => u = v}

Init ==
    /\ peerings \in {p \in Peerings : \A a \in Addresses : p[a] = Absent}
    /\ routers \in RouterSets
    /\ localASN \in ASNs
    /\ deleting = FALSE
    /\ forwarding = {}
    /\ gauge = 0
    /\ touched = {}
    /\ worker = Idle
    /\ budget = MaxEvents

-----------------------------------------------------------------------------
(* Azure, its other users and the cluster.                                 *)

Event == budget > 0 /\ budget' = budget - 1

\* A call works, fails, or takes effect while its poll fails.
Outcomes == {"ok"} \cup
            IF "fault" \in Disturbances /\ budget > 0 THEN {"error", "lostReply"} ELSE {}
Applied(out) == out # "error"
Charge(out) == budget' = IF out = "ok" THEN budget ELSE budget - 1

\* Somebody else, such as the operator of another cluster, writes or deletes a
\* peering of theirs.
OthersWrite(n) ==
    /\ "others" \in Disturbances
    /\ Event
    /\ \E asn \in (ASNs \cup {Absent}) \ {peerings[n]} : peerings' = [peerings EXCEPT ![n] = asn]
    /\ touched' = touched \cup {n}
    /\ UNCHANGED <<specVars, forwarding, gauge, worker>>

\* A peering of ours is edited by hand.
PeeringEdited(a) ==
    /\ "drift" \in Disturbances
    /\ peerings[a] # Absent
    /\ Event
    /\ \E asn \in ASNs \ {peerings[a]} : peerings' = [peerings EXCEPT ![a] = asn]
    /\ UNCHANGED <<specVars, forwarding, gauge, touched, worker>>

\* Router nodes come and go; a VM may take over the address of another.
RoutersChange ==
    /\ "nodes" \in Disturbances
    /\ Event
    /\ routers' \in RouterSets \ {routers}
    /\ UNCHANGED <<peerings, localASN, deleting, forwarding, gauge, touched, worker>>

ASNEdited ==
    /\ "asn" \in Disturbances
    /\ Event
    /\ localASN' \in ASNs \ {localASN}
    /\ UNCHANGED <<peerings, routers, deleting, forwarding, gauge, touched, worker>>

ConfigDeleted ==
    /\ "delete" \in Disturbances
    /\ ~deleting
    /\ Event
    /\ deleting' = TRUE
    /\ UNCHANGED <<peerings, routers, localASN, forwarding, gauge, touched, worker>>

\* The operator restarts in the middle of a reconcile.
Restart ==
    /\ "restart" \in Disturbances
    /\ worker.step \notin {"idle", "clean", "skipped"}
    /\ Event
    /\ worker' = Idle
    /\ UNCHANGED <<peerings, specVars, forwarding, gauge, touched>>

-----------------------------------------------------------------------------
(* ReconcileNodes.                                                         *)

Goto(step) == worker' = [worker EXCEPT !.step = step]
Fail == worker' = Idle

\* DiscoverEndpoints fails with the read of the Route Server, or when that has no
\* address or ASN; a configuration that is being deleted then goes without Cleanup.
DiscoverEndpoints ==
    /\ worker.step = "idle"
    /\ \E out \in Outcomes :
          /\ Charge(out)
          /\ \/ out = "ok" /\ ~deleting /\ Goto("nodes")
             \/ out = "ok" /\ deleting /\ worker' = [Idle EXCEPT !.step = "list", !.call = "Cleanup"]
             \/ out # "ok" /\ ~deleting /\ Fail
             \/ out # "ok" /\ deleting /\ Goto("skipped")
    /\ UNCHANGED <<peerings, specVars, forwarding, gauge, touched>>

\* No router nodes is no request to release the peerings.
ReconcileNodes ==
    /\ worker.step = "nodes"
    /\ worker' = IF routers = {} THEN Idle
                 ELSE [worker EXCEPT !.step = "nics", !.nodes = routers,
                         !.want = [n \in Names |-> IF \E v \in routers : Address[v] = n
                                                   THEN localASN ELSE Absent]]
    /\ UNCHANGED <<peerings, specVars, forwarding, gauge, touched, budget>>

\* The interfaces of the nodes; a VM that is gone by now has none.
ListNICs ==
    /\ worker.step = "nics"
    /\ \E out \in Outcomes :
          /\ Charge(out)
          /\ \/ /\ out = "ok"
                /\ worker' = [worker EXCEPT !.step = "enable", !.off = worker.nodes \ forwarding]
             \/ (out # "ok" \/ ~(worker.nodes \subseteq routers)) /\ Fail
    /\ UNCHANGED <<peerings, specVars, forwarding, gauge, touched>>

\* Faulty variant: a failure is only logged.
EnableIPForwardingIgnoringErrors ==
    /\ worker.step = "enable"
    /\ \E v \in worker.off, out \in Outcomes :
          /\ Charge(out)
          /\ forwarding' = IF Applied(out) THEN forwarding \cup {v} ELSE forwarding
          /\ worker' = [worker EXCEPT !.off = @ \ {v}]
    /\ UNCHANGED <<peerings, specVars, gauge, touched>>

\* The interface of a node is read and written back with forwarding on.
EnableIPForwarding ==
    /\ worker.step = "enable"
    /\ \E v \in worker.off, out \in Outcomes :
          /\ Charge(out)
          /\ \/ /\ forwarding' = IF Applied(out) THEN forwarding \cup {v} ELSE forwarding
                /\ IF out = "ok" THEN worker' = [worker EXCEPT !.off = @ \ {v}] ELSE Fail
             \/ v \notin routers /\ Fail /\ UNCHANGED forwarding
    /\ UNCHANGED <<peerings, specVars, gauge, touched>>

NodesForward ==
    /\ worker.step = "enable" /\ worker.off = {}
    /\ Goto("list")
    /\ UNCHANGED <<peerings, specVars, forwarding, gauge, touched, budget>>

\* Faulty variant: the peerings of others are not added to the wanted ones.
ListOthersForgotten ==
    /\ worker.step = "list"
    /\ Goto("compare")
    /\ touched' = {}
    /\ UNCHANGED <<peerings, specVars, forwarding, gauge, budget>>

\* What may be wanted of a name after the first list: what is not recognised as ours
\* is wanted as it is.  A name we want ourselves and do not recognise is then wanted
\* twice, and the one that is sorted last counts.
WantedWith(n, listed) ==
    LET both == {worker.want[n], listed}
    IN  IF IsOurPeering(n) THEN {worker.want[n]}
        ELSE IF both = {Absent} THEN both ELSE both \ {Absent}

\* The first list, of reconcileOurPeerings and of Cleanup.
ListOthers ==
    /\ worker.step = "list"
    /\ \E out \in Outcomes :
          /\ Charge(out)
          /\ IF out # "ok" THEN Fail
             ELSE \E want \in Peerings :
                    /\ \A n \in Names : want[n] \in WantedWith(n, peerings[n])
                    /\ worker' = [worker EXCEPT !.step = "compare", !.want = want]
    /\ touched' = {}
    /\ UNCHANGED <<peerings, specVars, forwarding, gauge>>

\* Faulty variant: peerings are compared by their names only.
ComparePeersByName ==
    /\ worker.step = "compare"
    /\ worker' = [worker EXCEPT !.step = "write",
            !.writes = {n \in Names : worker.want[n] # Absent /\ peerings[n] = Absent},
            !.deletes = {n \in Names : worker.want[n] = Absent /\ peerings[n] # Absent}]
    /\ UNCHANGED <<peerings, specVars, forwarding, gauge, touched, budget>>

\* The second list, of ReconcilePeers: what differs is to be written, what is not
\* wanted to be deleted.
ComparePeers ==
    /\ worker.step = "compare"
    /\ \E out \in Outcomes :
          /\ Charge(out)
          /\ IF out # "ok" THEN Fail
             ELSE worker' = [worker EXCEPT !.step = "write",
                     !.writes = {n \in Names : worker.want[n] \notin {Absent, peerings[n]}},
                     !.deletes = {n \in Names : worker.want[n] = Absent /\ peerings[n] # Absent}]
    /\ UNCHANGED <<peerings, specVars, forwarding, gauge, touched>>

\* createOrUpdate or delete of one peering.
Put(n, asn, after) ==
    \E out \in Outcomes :
        /\ Charge(out)
        /\ peerings' = IF Applied(out) THEN [peerings EXCEPT ![n] = asn] ELSE peerings
        /\ IF out = "ok" THEN worker' = after ELSE Fail

CreateOrUpdatePeering ==
    /\ worker.step = "write"
    /\ \E n \in worker.writes :
          Put(n, worker.want[n], [worker EXCEPT !.writes = @ \ {n}])
    /\ UNCHANGED <<specVars, forwarding, gauge, touched>>

\* Faulty variant: a failed delete is only logged.
DeletePeeringIgnoringErrors ==
    /\ worker.step = "write" /\ worker.writes = {}
    /\ \E n \in worker.deletes, out \in Outcomes :
          /\ Charge(out)
          /\ peerings' = IF Applied(out) THEN [peerings EXCEPT ![n] = Absent] ELSE peerings
          /\ worker' = [worker EXCEPT !.deletes = @ \ {n}]
    /\ UNCHANGED <<specVars, forwarding, gauge, touched>>

\* Faulty variant: every delete that works lowers the metric by one.
DeletePeeringLowering ==
    /\ worker.step = "write" /\ worker.writes = {}
    /\ \E n \in worker.deletes :
          /\ Put(n, Absent, [worker EXCEPT !.deletes = @ \ {n}])
          /\ gauge' = IF IsOurPeering(n) /\ worker'.step = "write" THEN gauge - 1 ELSE gauge
    /\ UNCHANGED <<specVars, forwarding, touched>>

DeletePeering ==
    /\ worker.step = "write" /\ worker.writes = {}
    /\ \E n \in worker.deletes :
          Put(n, Absent, [worker EXCEPT !.deletes = @ \ {n}])
    /\ UNCHANGED <<specVars, forwarding, gauge, touched>>

PeersWritten ==
    /\ worker.step = "write" /\ worker.writes = {} /\ worker.deletes = {}
    /\ IF worker.call = "Cleanup" THEN Goto("clean") /\ gauge' = 0
       ELSE Goto("count") /\ UNCHANGED gauge
    /\ UNCHANGED <<peerings, specVars, forwarding, touched, budget>>

\* The third list: peerings recognised as ours at the addresses of the nodes.
CountManagedPeers ==
    /\ worker.step = "count"
    /\ \E out \in Outcomes :
          /\ Charge(out)
          /\ IF out # "ok" THEN Fail /\ UNCHANGED gauge
             ELSE /\ gauge' = Cardinality({a \in {Address[v] : v \in worker.nodes} :
                                              IsOurPeering(a) /\ peerings[a] # Absent})
                  /\ Goto("done")
    /\ UNCHANGED <<peerings, specVars, forwarding, touched>>

Return ==
    /\ worker.step = "done"
    /\ worker' = Idle
    /\ UNCHANGED <<peerings, specVars, forwarding, gauge, touched, budget>>

-----------------------------------------------------------------------------
Operator ==
    \/ DiscoverEndpoints
    \/ ReconcileNodes
    \/ ListNICs
    \/ EnableIPForwarding
    \/ NodesForward
    \/ ListOthers
    \/ ComparePeers
    \/ CreateOrUpdatePeering
    \/ DeletePeering
    \/ PeersWritten
    \/ CountManagedPeers
    \/ Return

Environment ==
    \/ \E n \in Foreign : OthersWrite(n)
    \/ \E a \in Addresses : PeeringEdited(a)
    \/ RoutersChange
    \/ ASNEdited
    \/ ConfigDeleted
    \/ Restart

Next == Environment \/ Operator

Spec == Init /\ [][Next]_vars

\* The operator keeps going: every five minutes after a success, sooner on an error.
FairSpec == Spec /\ WF_vars(Operator)

-----------------------------------------------------------------------------
(* Properties.                                                             *)

\* Every variable has its type.
TypeOK ==
    /\ peerings \in Peerings
    /\ routers \in SUBSET VMs
    /\ localASN \in ASNs
    /\ deleting \in BOOLEAN
    /\ forwarding \in SUBSET VMs
    /\ gauge \in Nat
    /\ touched \in SUBSET Foreign
    /\ worker \in Reconciles
    /\ budget \in Nat

\* ReconcilePeers deletes every peering it is not given, and is given those of
\* others as an earlier list showed them.  The operator changes or deletes a
\* peering that is not its own only if its owner wrote it after that list.
OthersSurvive ==
    [][\A n \in Foreign :
          (worker' # worker /\ peerings'[n] # peerings[n]) => n \in touched]_vars

\* Peering with a node that does not forward establishes and carries nothing.  While
\* the operator writes peerings, and when it reports success, every node it peers
\* with forwards, whatever calls failed before.
PeeredNodesForward ==
    worker.step \in {"write", "count", "done"} => worker.nodes \subseteq forwarding

\* The refinement mapping: reading the router nodes begins the call.
Phase ==
    CASE worker.step \in {"idle", "nodes", "skipped"} -> "idle"
      [] worker.step \in {"done", "clean"} -> worker.step
      [] OTHER -> IF worker.call = "Cleanup" THEN "cleanup" ELSE "reconcile"
Desired == {Address[v] : v \in worker.nodes}
Peered == {a \in Addresses : peerings[a] # Absent}

\* What platform.CloudPlatform asks of ReconcileNodes and Cleanup.
Platform == INSTANCE CloudPlatform WITH
    Addresses <- Addresses, phase <- Phase, desired <- Desired, peered <- Peered

\* The calls keep the promises of the interface through failed calls, lost replies
\* and restarts: a wanted peering is never deleted on the way, an empty node list
\* releases nothing, success means exactly the given nodes are peered, and
\* Cleanup ends with no peering of ours, provided that no name is cut.
ImplementsPlatform == Platform!Spec

Settled ==
    IF deleting
    THEN worker.step = "skipped" \/ (worker.step = "clean" /\ gauge = 0)
    ELSE routers # {} =>
         /\ \A a \in Addresses :
               peerings[a] = IF \E v \in routers : Address[v] = a THEN localASN ELSE Absent
         /\ routers \subseteq forwarding
         /\ gauge = Cardinality(routers)

\* Once nodes, specs, people and faults stay quiet, the router nodes and no others
\* are peered, with the ASN of the spec, and forward, and the metric counts them.
Converges == <>[]Settled
=============================================================================
