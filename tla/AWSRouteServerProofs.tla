------------------------ MODULE AWSRouteServerProofs ------------------------
(***************************************************************************)
(* Proofs about the AWS platform, for any number of clusters, endpoints,    *)
(* addresses, peers and events.                                            *)
(*                                                                         *)
(* A cluster's operator is the only one that puts the cluster's tag on a    *)
(* peer, and EC2 uses no id twice: whatever EC2, people and the operators   *)
(* of other clusters do, the peers with the tag on an endpoint that the     *)
(* reconcile has been through can only become fewer behind its back.        *)
(***************************************************************************)
EXTENDS AWSRouteServer, FiniteSetTheorems, WellFoundedInduction, TLAPS

ReconcileSteps == {"list", "stale", "missing", "check", "done"}
CleanupSteps == {"cleanup", "release", "clean"}

\* The peers of c in use on the endpoints its reconcile or cleanup has come to.
Reached(c) ==
    {i \in Ids : /\ peers[i].tag = c /\ peers[i].state \in Working
                 /\ peers[i].endpoint \in worker[c].endpoints \ worker[c].todo}

Placed(c, i) == peers[i].ip \in InZone(worker[c].desired, peers[i].endpoint)

\* Behind the reconcile of c every peer in use is that of a node, in its zone, or
\* is about to be deleted; behind its cleanup none is in use but those.
ProgressInv(c) ==
    /\ worker[c].step \in ReconcileSteps =>
          \A i \in Reached(c) : Placed(c, i) \/ (worker[c].step = "stale" /\ i \in worker[c].stale)
    /\ worker[c].step \in CleanupSteps =>
          \A i \in Reached(c) : worker[c].step = "release" /\ i \in worker[c].stale
    /\ worker[c].step = "nodes" => worker[c].todo = worker[c].endpoints
    /\ worker[c].step \in {"check", "done", "clean"} => worker[c].todo = {}

\* What c adds is on its present endpoint, for a node of the zone.
AddInv(c) ==
    worker[c].step = "missing" =>
        /\ worker[c].missing \subseteq InZone(worker[c].desired, worker[c].endpoint)
        /\ \A i \in worker[c].adoptable :
              peers[i].endpoint = worker[c].endpoint /\ peers[i].state # "unused"

UnusedInv == \A i \in Ids : peers[i].state = "unused" => peers[i].tag = "other"

IInv ==
    /\ TypeOK
    /\ UnusedInv
    /\ \A c \in Clusters : ProgressInv(c) /\ AddInv(c)

\* No two clusters may have router nodes at the same address.
Undisputed == \A c, d \in Clusters : c # d => Subnet[c] \cap Subnet[d] = {}

\* A cluster's nodes, those a reconcile listed and the peers with its tag are at
\* addresses of its subnet, and what an operator listed for deletion keeps its tag.
OwnInv ==
    /\ \A a \in Addresses : owner[a] \in MayOwn(a)
    /\ \A i \in Ids : peers[i].tag \in Clusters => peers[i].ip \in Subnet[peers[i].tag]
    /\ \A c \in Clusters : worker[c].step \in ReconcileSteps => worker[c].desired \subseteq Subnet[c]
    /\ \A c \in Clusters : worker[c].step \in {"stale", "release"} =>
          \A i \in worker[c].stale : peers[i].tag = c

-----------------------------------------------------------------------------
(* Types, and what each step does to the peers and to the worker.          *)

LEMMA UnusedType == Unused \in Peers /\ Unused.state = "unused" /\ Unused.tag = "other"
  BY ZoneAssumption DEF Unused, Peers, States

LEMMA IdleType ==
  /\ Idle \in Reconciles /\ Idle.step = "idle" /\ Idle.endpoint \in Endpoints
  /\ Idle.endpoints = {} /\ Idle.todo = {} /\ Idle.stale = {}
  BY ZoneAssumption DEF Idle, Reconciles

\* The worker of c goes on; the others stay where they are.
Moves(c, w) ==
    /\ w \in Reconciles
    /\ worker' \in [Clusters -> Reconciles]
    /\ worker'[c] = w
    /\ \A d \in Clusters \ {c} : worker'[d] = worker[d]

LEMMA GotoMoves ==
  ASSUME TypeOK, NEW c \in Clusters, NEW w \in Reconciles, Goto(c, w) PROVE Moves(c, w)
  BY DEF TypeOK, Goto, Moves

LEMMA FailMoves == ASSUME TypeOK, NEW c \in Clusters, Fail(c) PROVE Moves(c, Idle)
  BY IdleType, GotoMoves DEF Fail

LEMMA ChargeType == ASSUME TypeOK, NEW out \in Outcomes, Charge(out) PROVE budget' \in Nat
  BY DEF TypeOK, Outcomes, Charge

LEMMA EventType == ASSUME TypeOK, Event PROVE budget' \in Nat
  BY DEF TypeOK, Event

\* A peer that stays, or is on its way up or out: what it is does not change, and
\* nothing that was not in use comes into use.
Fades(p, q) ==
    \/ q = p
    \/ /\ q.endpoint = p.endpoint /\ q.ip = p.ip /\ q.tag = p.tag
       /\ p.state # "unused" /\ q.state # "unused"
       /\ q.state \in Working => p.state \in Working

LEMMA FadesOne ==
  ASSUME TypeOK, NEW i \in Ids, NEW s \in States \ {"unused"}, peers[i].state # "unused",
         s \in Working => peers[i].state \in Working,
         peers' = [peers EXCEPT ![i].state = s]
  PROVE  /\ peers' \in [Ids -> Peers]
         /\ \A j \in Ids : Fades(peers[j], peers'[j])
         /\ peers'[i].state = s
  <1>1. peers[i] \in Peers /\ \A j \in Ids : peers[j] \in Peers
    BY DEF TypeOK
  <1>2. /\ peers'[i] = [peers[i] EXCEPT !.state = s]
        /\ \A j \in Ids \ {i} : peers'[j] = peers[j]
    BY DEF TypeOK
  <1>3. /\ [peers[i] EXCEPT !.state = s] \in Peers
        /\ [peers[i] EXCEPT !.state = s].endpoint = peers[i].endpoint
        /\ [peers[i] EXCEPT !.state = s].ip = peers[i].ip
        /\ [peers[i] EXCEPT !.state = s].tag = peers[i].tag
        /\ [peers[i] EXCEPT !.state = s].state = s
    BY <1>1 DEF Peers
  <1>4. peers' \in [Ids -> Peers]
    BY <1>1, <1>2, <1>3 DEF TypeOK
  <1> QED
    BY <1>2, <1>3, <1>4 DEF Fades

LEMMA StillFades ==
  ASSUME TypeOK, UNCHANGED peers
  PROVE  peers' \in [Ids -> Peers] /\ \A j \in Ids : Fades(peers[j], peers'[j])
  BY DEF TypeOK, Fades

LEMMA ProgressFades ==
  ASSUME TypeOK, NEW i \in Ids, PeerProgresses(i) \/ PeerFails(i) \/ PeerDeletedByHand(i)
  PROVE  peers' \in [Ids -> Peers] /\ \A j \in Ids : Fades(peers[j], peers'[j])
  <1>1. PICK s \in States : /\ s # "unused" /\ (s \in Working => peers[i].state = "pending")
                            /\ peers[i].state # "unused"
                            /\ peers' = [peers EXCEPT ![i].state = s]
    <2>1. CASE PeerProgresses(i)
      <3>1. CASE peers[i].state = "pending"
        BY <2>1, <3>1 DEF PeerProgresses, States
      <3>2. CASE peers[i].state = "deleting"
        BY <2>1, <3>2 DEF PeerProgresses, States, Working
      <3>3. CASE peers[i].state = "deleted"
        BY <2>1, <3>3 DEF PeerProgresses, States, Working
      <3> QED
        BY <2>1, <3>1, <3>2, <3>3 DEF PeerProgresses
    <2>2. CASE PeerFails(i)
      BY <2>2 DEF PeerFails, States
    <2>3. CASE PeerDeletedByHand(i)
      BY <2>3 DEF PeerDeletedByHand, States, Working
    <2> QED
      BY <2>1, <2>2, <2>3
  <1>2. s \in Working => peers[i].state \in Working
    BY <1>1 DEF Working
  <1> QED
    BY <1>1, <1>2, FadesOne

\* A new peer takes an id that was never used.
NewPeer(e, a, tag) ==
    \E k \in Ids, s \in Working :
        /\ peers[k].state = "unused"
        /\ peers'[k] = [endpoint |-> e, ip |-> a, state |-> s, tag |-> tag]
        /\ \A j \in Ids \ {k} : peers'[j] = peers[j]

LEMMA FirstFree ==
  ASSUME NEW free \in SUBSET Ids, free # {}
  PROVE  (CHOOSE i \in free : \A j \in free : i <= j) \in free
  <1>1. \E i \in free : \A j \in free : i <= j
    <2>1. free \subseteq Nat
      BY BoundsAssumption DEF Ids
    <2>2. PICK i \in free : \A j \in free : ~(<<j, i>> \in OpToRel(<, Nat))
      BY <2>1, NatLessThanWellFounded, WFMin
    <2>3. ASSUME NEW j \in free PROVE ~(j < i)
      BY <2>1, <2>2 DEF OpToRel
    <2> QED
      BY <2>1, <2>3
  <1> QED
    BY <1>1

LEMMA CreatedPeer ==
  ASSUME TypeOK, NEW e \in Endpoints, NEW a \in Addresses, NEW tag \in Clusters \cup {"other"},
         NEW s \in Working, Created(e, a, tag, s)
  PROVE  peers' \in [Ids -> Peers] /\ NewPeer(e, a, tag)
  <1> DEFINE free == {i \in Ids : peers[i].state = "unused"}
             next == CHOOSE i \in free : \A j \in free : i <= j
             new == [endpoint |-> e, ip |-> a, state |-> s, tag |-> tag]
  <1>1. next \in free
    BY FirstFree DEF Created
  <1>2. peers' = [peers EXCEPT ![next] = new] /\ new \in Peers
    BY DEF Created, Peers, States, Working
  <1> HIDE DEF next, new
  <1>3. /\ peers' \in [Ids -> Peers] /\ peers'[next] = new
        /\ \A j \in Ids \ {next} : peers'[j] = peers[j]
    BY <1>1, <1>2 DEF TypeOK
  <1>4. NewPeer(e, a, tag)
    BY <1>1, <1>3 DEF NewPeer, new
  <1> QED
    BY <1>3, <1>4

\* What the reconcile's steps need of the types.
LEMMA WorkerType ==
  ASSUME TypeOK, NEW c \in Clusters
  PROVE  /\ worker[c] \in Reconciles
         /\ worker[c].endpoints \in SUBSET Endpoints /\ worker[c].todo \in SUBSET Endpoints
         /\ worker[c].endpoint \in Endpoints /\ worker[c].desired \in SUBSET Addresses
         /\ worker[c].managed \in SUBSET Ids /\ worker[c].stale \in SUBSET Ids
         /\ worker[c].adoptable \in SUBSET Ids /\ worker[c].missing \in SUBSET Addresses
         /\ worker[c].unchecked \in SUBSET Addresses
  BY DEF TypeOK, Reconciles

\* The next worker of each step that goes on.
Begun(c, step) == [Idle EXCEPT !.endpoints = discovered[c], !.todo = discovered[c], !.step = step]
Skipped == [Idle EXCEPT !.step = "skipped"]
Listing(c) == [worker[c] EXCEPT !.step = "list", !.desired = Nodes(c)]
ManagedOn(c, e) == {i \in ListManagedPeers(c, e) : ~IsDeleted(peers[i])}
StaleOn(c, e) == {i \in ManagedOn(c, e) : ~IsDeleting(peers[i])
                                          /\ peers[i].ip \notin InZone(worker[c].desired, e)}
Listed(c, e) == [worker[c] EXCEPT !.step = "stale", !.endpoint = e, !.todo = @ \ {e},
                                  !.managed = ManagedOn(c, e), !.stale = StaleOn(c, e)]
Deleted(c, i) == [worker[c] EXCEPT !.stale = @ \ {i}]
AdoptableBy(c) == {i \in ListAllPeers(worker[c].endpoint) :
                      /\ ~IsDeleting(peers[i]) /\ ~IsDeleted(peers[i])
                      /\ peers[i].ip \notin IPs(worker[c].managed)}
MissingFor(c) == InZone(worker[c].desired, worker[c].endpoint) \ IPs(worker[c].managed)
Adding(c) == [worker[c] EXCEPT !.step = "missing", !.adoptable = AdoptableBy(c),
                               !.managed = {}, !.missing = MissingFor(c)]
Added(c, a) == [worker[c] EXCEPT !.missing = @ \ {a}]
NextOne(c) == [worker[c] EXCEPT !.step = "list", !.endpoint = Idle.endpoint, !.adoptable = {}]
Counted(c) == [worker[c] EXCEPT !.step = "check", !.unchecked = worker[c].desired]
CheckedOff(c, a) == [worker[c] EXCEPT !.unchecked = @ \ {a}]
AtStep(c, step) == [worker[c] EXCEPT !.step = step]
Releasable(c, e) == {i \in ListManagedPeers(c, e) : ~IsDeleting(peers[i]) /\ ~IsDeleted(peers[i])}
Releasing(c, e) == [worker[c] EXCEPT !.step = "release", !.todo = @ \ {e}, !.stale = Releasable(c, e)]
Clean(c) == [Idle EXCEPT !.step = "clean", !.endpoints = worker[c].endpoints]

LEMMA NextTypes ==
  ASSUME TypeOK, NEW c \in Clusters
  PROVE  /\ \A step \in {"cleanup", "nodes"} : Begun(c, step) \in Reconciles
         /\ Skipped \in Reconciles
         /\ Listing(c) \in Reconciles
         /\ \A e \in Endpoints : Listed(c, e) \in Reconciles /\ Releasing(c, e) \in Reconciles
         /\ \A i \in Ids : Deleted(c, i) \in Reconciles
         /\ Adding(c) \in Reconciles
         /\ \A a \in Addresses : Added(c, a) \in Reconciles /\ CheckedOff(c, a) \in Reconciles
         /\ NextOne(c) \in Reconciles
         /\ Counted(c) \in Reconciles
         /\ \A step \in {"done", "cleanup"} : AtStep(c, step) \in Reconciles
         /\ Clean(c) \in Reconciles
  <1>1. discovered[c] \in SUBSET Endpoints /\ Nodes(c) \in SUBSET Addresses
    BY DEF TypeOK, Nodes
  <1>2. \A e \in Endpoints : /\ ManagedOn(c, e) \in SUBSET Ids /\ StaleOn(c, e) \in SUBSET Ids
                             /\ Releasable(c, e) \in SUBSET Ids
    BY DEF ManagedOn, StaleOn, Releasable, ListManagedPeers, ListAllPeers
  <1>3. AdoptableBy(c) \in SUBSET Ids /\ MissingFor(c) \in SUBSET Addresses
    BY WorkerType DEF AdoptableBy, MissingFor, ListAllPeers, InZone
  <1>4. worker[c] \in Reconciles
    BY WorkerType
  <1>5. /\ \A step \in {"cleanup", "nodes"} : Begun(c, step) \in Reconciles
        /\ Skipped \in Reconciles /\ Clean(c) \in Reconciles
    BY <1>1, IdleType, WorkerType DEF Begun, Skipped, Clean, Reconciles
  <1>6. \A e \in Endpoints : Listed(c, e) \in Reconciles
    BY <1>2, <1>4 DEF Listed, Reconciles
  <1>7. \A e \in Endpoints : Releasing(c, e) \in Reconciles
    BY <1>2, <1>4 DEF Releasing, Reconciles
  <1>8. Listing(c) \in Reconciles
    BY <1>1, <1>4 DEF Listing, Reconciles
  <1>9. Adding(c) \in Reconciles
    BY <1>3, <1>4 DEF Adding, Reconciles
  <1>10. /\ \A i \in Ids : Deleted(c, i) \in Reconciles
         /\ \A a \in Addresses : Added(c, a) \in Reconciles /\ CheckedOff(c, a) \in Reconciles
    BY <1>4 DEF Deleted, Added, CheckedOff, Reconciles
  <1>11. NextOne(c) \in Reconciles
    BY <1>4, IdleType DEF NextOne, Reconciles
  <1>12. Counted(c) \in Reconciles
    BY <1>4 DEF Counted, Reconciles
  <1>13. \A step \in {"done", "cleanup"} : AtStep(c, step) \in Reconciles
    BY <1>4 DEF AtStep, Reconciles
  <1> QED
    BY <1>5, <1>6, <1>7, <1>8, <1>9, <1>10, <1>11, <1>12, <1>13

LEMMA DiscoverMoves ==
  ASSUME TypeOK, NEW c \in Clusters, DiscoverEndpoints(c)
  PROVE  /\ budget' \in Nat
         /\ \/ Moves(c, Begun(c, "cleanup")) \/ Moves(c, Begun(c, "nodes"))
            \/ Moves(c, Idle) \/ Moves(c, Skipped)
  <1>1. PICK out \in Outcomes :
           /\ Charge(out)
           /\ \/ \E step \in {"cleanup", "nodes"} : Goto(c, Begun(c, step))
              \/ Fail(c) \/ Goto(c, Skipped)
    BY DEF DiscoverEndpoints, Begun, Skipped
  <1> QED
    BY <1>1, ChargeType, NextTypes, GotoMoves, FailMoves

LEMMA ReconcileMoves ==
  ASSUME TypeOK, NEW c \in Clusters, ReconcileNodes(c)
  PROVE  Moves(c, Idle) \/ Moves(c, Listing(c))
  BY IdleType, NextTypes, GotoMoves DEF ReconcileNodes, Listing

LEMMA ListMoves ==
  ASSUME TypeOK, NEW c \in Clusters, ListManaged(c)
  PROVE  /\ budget' \in Nat
         /\ Moves(c, Idle) \/ \E e \in worker[c].todo : Moves(c, Listed(c, e))
  <1>1. PICK e \in worker[c].todo, out \in Outcomes :
           Charge(out) /\ (Fail(c) \/ Goto(c, Listed(c, e)))
    BY DEF ListManaged, Listed, ManagedOn, StaleOn
  <1>2. e \in Endpoints
    BY <1>1, WorkerType
  <1> QED
    BY <1>1, <1>2, ChargeType, NextTypes, GotoMoves, FailMoves

\* A peer is deleted or not; the worker goes on only when it is.
LEMMA DeleteMoves ==
  ASSUME TypeOK, NEW c \in Clusters, NEW i \in worker[c].stale, DeletePeer(c, i, Deleted(c, i))
  PROVE  /\ budget' \in Nat
         /\ peers' \in [Ids -> Peers] /\ \A j \in Ids : Fades(peers[j], peers'[j])
         /\ Moves(c, Idle) \/ (Moves(c, Deleted(c, i)) /\ peers'[i].state = "deleting")
         /\ \A j \in Ids : peers'[j] = peers[j] \/ j = i
  <1>0. i \in Ids
    BY WorkerType
  <1>1. PICK out \in Outcomes :
           /\ Charge(out)
           /\ peers' = IF Applied(out) /\ peers[i].state \in Working
                       THEN [peers EXCEPT ![i].state = "deleting"] ELSE peers
           /\ IF out = "ok" /\ peers[i].state \in Working
              THEN Goto(c, Deleted(c, i)) ELSE Fail(c)
    BY DEF DeletePeer
  <1>2. budget' \in Nat
    BY <1>1, ChargeType
  <1>3. CASE Applied(out) /\ peers[i].state \in Working
    <2>1. peers' = [peers EXCEPT ![i].state = "deleting"]
      BY <1>1, <1>3
    <2>2. /\ peers' \in [Ids -> Peers] /\ \A j \in Ids : Fades(peers[j], peers'[j])
          /\ peers'[i].state = "deleting"
      BY <1>0, <1>3, <2>1, FadesOne DEF States, Working
    <2>3. Moves(c, Idle) \/ Moves(c, Deleted(c, i))
      BY <1>0, <1>1, NextTypes, GotoMoves, FailMoves
    <2>4. \A j \in Ids : peers'[j] = peers[j] \/ j = i
      BY <2>1 DEF TypeOK
    <2> QED
      BY <1>2, <2>2, <2>3, <2>4
  <1>4. CASE ~(Applied(out) /\ peers[i].state \in Working)
    <2>1. UNCHANGED peers /\ Fail(c)
      BY <1>1, <1>4 DEF Applied
    <2> QED
      BY <1>2, <2>1, StillFades, FailMoves
  <1> QED
    BY <1>3, <1>4

LEMMA ListAllMoves ==
  ASSUME TypeOK, NEW c \in Clusters, ListAll(c)
  PROVE  budget' \in Nat /\ (Moves(c, Idle) \/ Moves(c, Adding(c)))
  <1>1. PICK out \in Outcomes : Charge(out) /\ (Fail(c) \/ Goto(c, Adding(c)))
    BY DEF ListAll, Adding, AdoptableBy, MissingFor
  <1> QED
    BY <1>1, ChargeType, NextTypes, GotoMoves, FailMoves

\* The peer i, which c listed, gets the tag of c.
Tagged(c, i) ==
    /\ peers'[i] = [peers[i] EXCEPT !.tag = c]
    /\ \A j \in Ids \ {i} : peers'[j] = peers[j]

LEMMA AddMoves ==
  ASSUME TypeOK, NEW c \in Clusters, AddPeer(c)
  PROVE  /\ budget' \in Nat
         /\ peers' \in [Ids -> Peers]
         /\ \E a \in worker[c].missing :
               /\ Moves(c, Idle) \/ Moves(c, Added(c, a))
               /\ \/ UNCHANGED peers
                  \/ NewPeer(worker[c].endpoint, a, c)
                  \/ \E i \in worker[c].adoptable : peers[i].ip = a /\ Tagged(c, i)
  <1>1. PICK a \in worker[c].missing, out \in Outcomes :
           /\ Charge(out)
           /\ \/ \E i \in worker[c].adoptable : peers[i].ip = a /\ TagPeer(c, i, out, Added(c, a))
              \/ CreatePeer(c, worker[c].endpoint, a, out, Added(c, a))
    BY DEF AddPeer, Added
  <1>2. a \in Addresses /\ worker[c].endpoint \in Endpoints
    BY <1>1, WorkerType
  <1>3. Goto(c, Added(c, a)) \/ Fail(c)
    BY <1>1 DEF TagPeer, CreatePeer
  <1>4. Moves(c, Idle) \/ Moves(c, Added(c, a))
    BY <1>2, <1>3, NextTypes, GotoMoves, FailMoves
  <1>5. CASE UNCHANGED peers
    BY <1>1, <1>4, <1>5, ChargeType DEF TypeOK
  <1>6. CASE Created(worker[c].endpoint, a, c, "pending")
    <2>1. peers' \in [Ids -> Peers] /\ NewPeer(worker[c].endpoint, a, c)
      BY <1>2, <1>6, CreatedPeer DEF Working
    <2> QED
      BY <1>1, <1>4, <2>1, ChargeType
  <1>7. ASSUME NEW i \in worker[c].adoptable, peers[i].ip = a,
               peers' = [peers EXCEPT ![i].tag = c]
        PROVE  /\ budget' \in Nat
               /\ peers' \in [Ids -> Peers]
               /\ Tagged(c, i)
    <2>1. i \in Ids /\ peers[i] \in Peers
      BY WorkerType DEF TypeOK
    <2>2. Tagged(c, i)
      BY <1>7, <2>1 DEF Tagged, TypeOK
    <2>3. [peers[i] EXCEPT !.tag = c] \in Peers
      BY <2>1 DEF Peers
    <2>4. peers' \in [Ids -> Peers]
      BY <1>7, <2>1, <2>3 DEF TypeOK
    <2> QED
      BY <1>1, <2>2, <2>4, ChargeType
  <1>8. \/ UNCHANGED peers
        \/ Created(worker[c].endpoint, a, c, "pending")
        \/ \E i \in worker[c].adoptable : peers[i].ip = a /\ peers' = [peers EXCEPT ![i].tag = c]
    <2>1. CASE \E i \in worker[c].adoptable : peers[i].ip = a /\ TagPeer(c, i, out, Added(c, a))
      BY <2>1 DEF TagPeer
    <2>2. CASE CreatePeer(c, worker[c].endpoint, a, out, Added(c, a))
      BY <2>2 DEF CreatePeer
    <2> QED
      BY <1>1, <2>1, <2>2
  <1> QED
    BY <1>4, <1>5, <1>6, <1>7, <1>8

LEMMA NextEndpointMoves ==
  ASSUME TypeOK, NEW c \in Clusters, NextEndpoint(c) PROVE Moves(c, NextOne(c))
  BY NextTypes, GotoMoves DEF NextEndpoint, NextOne

LEMMA CountType ==
  ASSUME NEW c, NEW es, NEW desired PROVE CountManagedPeers(c, es, desired) \in Nat
  <1> DEFINE S == {i \in Ids : \E e \in es : /\ i \in ListManagedPeers(c, e) /\ ~IsDeleted(peers[i])
                                            /\ peers[i].ip \in InZone(desired, e)}
  <1>1. IsFiniteSet(Ids)
    BY BoundsAssumption, FS_Interval DEF Ids
  <1>2. S \subseteq Ids
    OBVIOUS
  <1> HIDE DEF S
  <1>3. IsFiniteSet(S)
    BY <1>1, <1>2, FS_Subset
  <1>4. Cardinality(S) \in Nat
    BY <1>3, FS_CardinalityType
  <1> QED
    BY <1>4 DEF CountManagedPeers, S

LEMMA CountMoves ==
  ASSUME TypeOK, NEW c \in Clusters, CountPeers(c)
  PROVE  /\ budget' \in Nat /\ gauge' \in [Clusters -> Nat]
         /\ Moves(c, Idle) \/ Moves(c, Counted(c))
  <1>1. PICK out \in Outcomes :
           /\ Charge(out)
           /\ \/ Fail(c) /\ UNCHANGED gauge
              \/ /\ Goto(c, Counted(c))
                 /\ gauge' = [gauge EXCEPT ![c] =
                        CountManagedPeers(c, worker[c].endpoints, worker[c].desired)]
    BY DEF CountPeers, Counted
  <1>2. gauge' \in [Clusters -> Nat]
    BY <1>1, CountType DEF TypeOK
  <1> QED
    BY <1>1, <1>2, ChargeType, NextTypes, GotoMoves, FailMoves

LEMMA CheckMoves ==
  ASSUME TypeOK, NEW c \in Clusters, DisableSourceDestCheck(c)
  PROVE  /\ budget' \in Nat /\ checked' \in SUBSET Addresses
         /\ Moves(c, Idle) \/ \E a \in worker[c].unchecked : Moves(c, CheckedOff(c, a))
  <1>1. PICK a \in worker[c].unchecked, out \in Outcomes :
           /\ Charge(out)
           /\ checked' = checked \/ checked' = checked \ {a}
           /\ Goto(c, CheckedOff(c, a)) \/ Fail(c)
    BY DEF DisableSourceDestCheck, CheckedOff
  <1>2. a \in Addresses
    BY <1>1, WorkerType
  <1>3. checked' \in SUBSET Addresses
    BY <1>1 DEF TypeOK
  <1> QED
    BY <1>1, <1>2, <1>3, ChargeType, NextTypes, GotoMoves, FailMoves

LEMMA EndMoves ==
  ASSUME TypeOK, NEW c \in Clusters
  PROVE  /\ Succeed(c) => Moves(c, AtStep(c, "done"))
         /\ Return(c) => Moves(c, Idle)
  BY IdleType, NextTypes, GotoMoves DEF Succeed, Return, AtStep

LEMMA ListForCleanupMoves ==
  ASSUME TypeOK, NEW c \in Clusters, ListForCleanup(c)
  PROVE  /\ budget' \in Nat
         /\ Moves(c, Idle) \/ \E e \in worker[c].todo : Moves(c, Releasing(c, e))
  <1>1. PICK e \in worker[c].todo, out \in Outcomes :
           Charge(out) /\ (Fail(c) \/ Goto(c, Releasing(c, e)))
    BY DEF ListForCleanup, Releasing, Releasable
  <1>2. e \in Endpoints
    BY <1>1, WorkerType
  <1> QED
    BY <1>1, <1>2, ChargeType, NextTypes, GotoMoves, FailMoves

LEMMA CleanedMoves ==
  ASSUME TypeOK, NEW c \in Clusters, Cleaned(c)
  PROVE  Moves(c, Clean(c)) /\ gauge' \in [Clusters -> Nat]
  BY NextTypes, GotoMoves DEF Cleaned, Clean, TypeOK

LEMMA DeleteManagedMoves ==
  ASSUME TypeOK, NEW c \in Clusters, DeleteManaged(c)
  PROVE  \/ \E i \in worker[c].stale : DeletePeer(c, i, Deleted(c, i))
         \/ /\ worker[c].stale = {} /\ Moves(c, AtStep(c, "cleanup"))
            /\ UNCHANGED <<peers, budget>>
  BY NextTypes, GotoMoves DEF DeleteManaged, Deleted, AtStep

LEMMA TypeInit == Init => TypeOK
  <1> SUFFICES ASSUME Init PROVE TypeOK
    OBVIOUS
  <1>1. peers \in [Ids -> Peers] /\ worker \in [Clusters -> Reconciles]
    BY UnusedType, IdleType DEF Init
  <1>2. owner \in [Addresses -> Clusters \cup {Nobody}]
    BY DEF Init
  <1> QED
    BY <1>1, <1>2, BoundsAssumption DEF Init, TypeOK

LEMMA TypeStep == TypeOK /\ [Next]_vars => TypeOK'
  <1> SUFFICES ASSUME TypeOK, [Next]_vars PROVE TypeOK'
    OBVIOUS
  <1> USE DEF specVars
  <1>1. ASSUME NEW i \in Ids, PeerProgresses(i) \/ PeerFails(i) \/ PeerDeletedByHand(i)
        PROVE  TypeOK'
    <2>1. peers' \in [Ids -> Peers]
      BY <1>1, ProgressFades
    <2>2. UNCHANGED <<owner, discovered, deleting, checked, gauge, worker>> /\ budget' \in Nat
      BY <1>1, EventType DEF PeerProgresses, PeerFails, PeerDeletedByHand, TypeOK
    <2> QED
      BY <2>1, <2>2 DEF TypeOK
  <1>2. ASSUME NEW e \in Endpoints, NEW a \in Addresses, ForeignPeerCreated(e, a) PROVE TypeOK'
    <2>1. peers' \in [Ids -> Peers]
      BY <1>2, CreatedPeer DEF ForeignPeerCreated, Working
    <2> QED
      BY <1>2, <2>1, EventType DEF ForeignPeerCreated, TypeOK
  <1>3. ASSUME NEW a \in Addresses, NodeChanges(a) PROVE TypeOK'
    <2>1. PICK c \in Clusters \cup {Nobody} : owner' = [owner EXCEPT ![a] = c]
      BY <1>3 DEF NodeChanges, MayOwn
    <2>2. owner' \in [Addresses -> Clusters \cup {Nobody}]
      BY <2>1 DEF TypeOK
    <2>3. checked' \in SUBSET Addresses
      BY <1>3 DEF NodeChanges, TypeOK
    <2> QED
      BY <1>3, <2>2, <2>3, EventType DEF NodeChanges, TypeOK
  <1>4. ASSUME NEW c \in Clusters, EndpointsChange(c) PROVE TypeOK'
    <2>1. discovered' \in [Clusters -> SUBSET Endpoints]
      BY <1>4 DEF EndpointsChange, TypeOK
    <2> QED
      BY <1>4, <2>1, EventType DEF EndpointsChange, TypeOK
  <1>5. ASSUME NEW c \in Clusters, ConfigDeleted(c) PROVE TypeOK'
    BY <1>5, EventType DEF ConfigDeleted, TypeOK
  <1>6. ASSUME NEW c \in Clusters, Restart(c) PROVE TypeOK'
    BY <1>6, IdleType, EventType DEF Restart, TypeOK
  <1>7. ASSUME NEW c \in Clusters, DiscoverEndpoints(c) PROVE TypeOK'
    BY <1>7, DiscoverMoves DEF DiscoverEndpoints, Moves, TypeOK
  <1>8. ASSUME NEW c \in Clusters, ReconcileNodes(c) PROVE TypeOK'
    BY <1>8, ReconcileMoves DEF ReconcileNodes, Moves, TypeOK
  <1>9. ASSUME NEW c \in Clusters, ListManaged(c) PROVE TypeOK'
    BY <1>9, ListMoves DEF ListManaged, Moves, TypeOK
  <1>10. ASSUME NEW c \in Clusters, DeleteStale(c) PROVE TypeOK'
    <2>1. \E i \in worker[c].stale : DeletePeer(c, i, Deleted(c, i))
      BY <1>10 DEF DeleteStale, Deleted
    <2>2. peers' \in [Ids -> Peers] /\ budget' \in Nat /\ worker' \in [Clusters -> Reconciles]
      BY <2>1, DeleteMoves DEF Moves
    <2> QED
      BY <1>10, <2>2 DEF DeleteStale, TypeOK
  <1>11. ASSUME NEW c \in Clusters, ListAll(c) PROVE TypeOK'
    BY <1>11, ListAllMoves DEF ListAll, Moves, TypeOK
  <1>12. ASSUME NEW c \in Clusters, AddPeer(c) PROVE TypeOK'
    BY <1>12, AddMoves DEF AddPeer, Moves, TypeOK
  <1>13. ASSUME NEW c \in Clusters, NextEndpoint(c) PROVE TypeOK'
    BY <1>13, NextEndpointMoves DEF NextEndpoint, Moves, TypeOK
  <1>14. ASSUME NEW c \in Clusters, CountPeers(c) PROVE TypeOK'
    BY <1>14, CountMoves DEF CountPeers, Moves, TypeOK
  <1>15. ASSUME NEW c \in Clusters, DisableSourceDestCheck(c) PROVE TypeOK'
    BY <1>15, CheckMoves DEF DisableSourceDestCheck, Moves, TypeOK
  <1>16. ASSUME NEW c \in Clusters, Succeed(c) \/ Return(c) PROVE TypeOK'
    BY <1>16, EndMoves DEF Succeed, Return, Moves, TypeOK
  <1>17. ASSUME NEW c \in Clusters, ListForCleanup(c) PROVE TypeOK'
    BY <1>17, ListForCleanupMoves DEF ListForCleanup, Moves, TypeOK
  <1>18. ASSUME NEW c \in Clusters, DeleteManaged(c) PROVE TypeOK'
    <2>1. peers' \in [Ids -> Peers] /\ budget' \in Nat /\ worker' \in [Clusters -> Reconciles]
      BY <1>18, DeleteManagedMoves, DeleteMoves DEF Moves, TypeOK
    <2> QED
      BY <1>18, <2>1 DEF DeleteManaged, TypeOK
  <1>19. ASSUME NEW c \in Clusters, Cleaned(c) PROVE TypeOK'
    BY <1>19, CleanedMoves DEF Cleaned, Moves, TypeOK
  <1>20. CASE UNCHANGED vars
    BY <1>20 DEF vars, TypeOK
  <1> QED
    BY <1>1, <1>2, <1>3, <1>4, <1>5, <1>6, <1>7, <1>8, <1>9, <1>10, <1>11, <1>12, <1>13,
       <1>14, <1>15, <1>16, <1>17, <1>18, <1>19, <1>20
    DEF Next, Environment, Operator

\* Every variable keeps its type, whatever EC2, users, faults and restarts do.
THEOREM TypeCorrect == Spec => []TypeOK
  BY TypeInit, TypeStep, PTL DEF Spec

-----------------------------------------------------------------------------
(* The progress of a reconcile and of a cleanup.                           *)

\* Nothing comes into use with the tag of d, and no id is used again.
Shrinks(d) ==
    \A i \in Ids :
        /\ peers[i].state # "unused" =>
              /\ peers'[i].endpoint = peers[i].endpoint /\ peers'[i].ip = peers[i].ip
              /\ peers'[i].state # "unused"
        /\ peers'[i].tag = d /\ peers'[i].state \in Working =>
              peers[i].tag = d /\ peers[i].state \in Working

LEMMA FadesShrinks ==
  ASSUME NEW d, \A j \in Ids : Fades(peers[j], peers'[j]) PROVE Shrinks(d)
  BY DEF Shrinks, Fades

LEMMA NewShrinks ==
  ASSUME NEW e, NEW a, NEW tag, NewPeer(e, a, tag), NEW d, d # tag PROVE Shrinks(d)
  BY DEF NewPeer, Shrinks

LEMMA TaggedFields ==
  ASSUME TypeOK, NEW c, NEW i \in Ids, Tagged(c, i)
  PROVE  /\ peers'[i].endpoint = peers[i].endpoint /\ peers'[i].ip = peers[i].ip
         /\ peers'[i].state = peers[i].state /\ peers'[i].tag = c
         /\ \A j \in Ids \ {i} : peers'[j] = peers[j]
  <1>1. peers[i] \in Peers
    BY DEF TypeOK
  <1>2. /\ [peers[i] EXCEPT !.tag = c].endpoint = peers[i].endpoint
        /\ [peers[i] EXCEPT !.tag = c].ip = peers[i].ip
        /\ [peers[i] EXCEPT !.tag = c].state = peers[i].state
        /\ [peers[i] EXCEPT !.tag = c].tag = c
    BY <1>1 DEF Peers
  <1> QED
    BY <1>2 DEF Tagged

LEMMA TaggedShrinks ==
  ASSUME TypeOK, NEW c, NEW i \in Ids, Tagged(c, i), NEW d, d # c PROVE Shrinks(d)
  BY TaggedFields DEF Shrinks

\* What is behind the worker of d.
LEMMA ReachedShrinks ==
  ASSUME NEW d, Shrinks(d), NEW i \in Ids, peers'[i].tag = d, peers'[i].state \in Working
  PROVE  /\ peers[i].tag = d /\ peers[i].state \in Working
         /\ peers'[i].endpoint = peers[i].endpoint /\ peers'[i].ip = peers[i].ip
  BY DEF Shrinks, Working

LEMMA OtherKeeps ==
  ASSUME TypeOK, NEW d \in Clusters, ProgressInv(d), AddInv(d), Shrinks(d), worker'[d] = worker[d]
  PROVE  ProgressInv(d)' /\ AddInv(d)'
  <1>1. ASSUME NEW i \in Reached(d)'
        PROVE  i \in Reached(d) /\ (Placed(d, i) => Placed(d, i)')
    BY <1>1, ReachedShrinks DEF Reached, Placed
  <1>2. ProgressInv(d)'
    BY <1>1 DEF ProgressInv
  <1>3. AddInv(d)'
    BY WorkerType DEF AddInv, Shrinks
  <1> QED
    BY <1>2, <1>3

\* A worker that has reached nothing yet.
LEMMA RestKeeps ==
  ASSUME NEW c, worker'[c].step \in {"idle", "skipped"} PROVE ProgressInv(c)' /\ AddInv(c)'
  BY DEF ProgressInv, AddInv, ReconcileSteps, CleanupSteps

\* The worker of c goes on, or fails, and the others see their peers only fade.
LEMMA OneMoves ==
  ASSUME IInv, NEW c \in Clusters, NEW w, Moves(c, w),
         \A d \in Clusters \ {c} : Shrinks(d),
         ProgressInv(c)', AddInv(c)'
  PROVE  \A d \in Clusters : ProgressInv(d)' /\ AddInv(d)'
  BY OtherKeeps DEF IInv, Moves

LEMMA FailKeeps ==
  ASSUME IInv, NEW c \in Clusters, Moves(c, Idle), \A d \in Clusters \ {c} : Shrinks(d)
  PROVE  \A d \in Clusters : ProgressInv(d)' /\ AddInv(d)'
  <1>1. ProgressInv(c)' /\ AddInv(c)'
    BY IdleType, RestKeeps DEF Moves
  <1> QED
    BY <1>1, OneMoves

\* Steps that leave the peers alone.
LEMMA QuietPeers ==
  ASSUME IInv, UNCHANGED peers PROVE UnusedInv' /\ \A d \in Clusters : Shrinks(d)
  <1>1. UnusedInv'
    BY DEF IInv, UnusedInv
  <1> QED
    BY <1>1, StillFades, FadesShrinks DEF IInv

LEMMA FadingUnused ==
  ASSUME IInv, \A j \in Ids : Fades(peers[j], peers'[j]) PROVE UnusedInv'
  BY DEF IInv, UnusedInv, Fades

LEMMA DiscoverStep ==
  ASSUME IInv, NEW c \in Clusters, DiscoverEndpoints(c)
  PROVE  UnusedInv' /\ \A d \in Clusters : ProgressInv(d)' /\ AddInv(d)'
  <1>1. UnusedInv' /\ \A d \in Clusters : Shrinks(d)
    BY QuietPeers DEF DiscoverEndpoints
  <1>2. CASE Moves(c, Idle)
    BY <1>1, <1>2, FailKeeps
  <1>3. CASE Moves(c, Skipped)
    <2>1. Skipped.step = "skipped"
      BY IdleType DEF Skipped, Reconciles
    <2> QED
      BY <1>1, <1>3, <2>1, RestKeeps, OneMoves DEF Moves
  <1>4. ASSUME NEW step \in {"cleanup", "nodes"}, Moves(c, Begun(c, step))
        PROVE  \A d \in Clusters : ProgressInv(d)' /\ AddInv(d)'
    <2>1. /\ Begun(c, step).step = step /\ Begun(c, step).endpoints = discovered[c]
          /\ Begun(c, step).todo = discovered[c]
      BY IdleType DEF Begun, Reconciles
    <2>2. /\ worker'[c].step = step /\ worker'[c].endpoints = discovered[c]
          /\ worker'[c].todo = discovered[c]
      BY <1>4, <2>1 DEF Moves
    <2>3. Reached(c)' = {}
      BY <2>2 DEF Reached
    <2>4. ProgressInv(c)' /\ AddInv(c)'
      BY <2>2, <2>3 DEF ProgressInv, AddInv, ReconcileSteps
    <2> QED
      BY <1>1, <1>4, <2>4, OneMoves
  <1> QED
    BY <1>1, <1>2, <1>3, <1>4, DiscoverMoves DEF IInv

LEMMA ReconcileStep ==
  ASSUME IInv, NEW c \in Clusters, ReconcileNodes(c)
  PROVE  UnusedInv' /\ \A d \in Clusters : ProgressInv(d)' /\ AddInv(d)'
  <1>1. UnusedInv' /\ \A d \in Clusters : Shrinks(d)
    BY QuietPeers DEF ReconcileNodes
  <1>2. CASE Moves(c, Idle)
    BY <1>1, <1>2, FailKeeps
  <1>3. CASE Moves(c, Listing(c))
    <2>1. worker[c] \in Reconciles /\ worker[c].todo = worker[c].endpoints
      BY WorkerType DEF IInv, ProgressInv, ReconcileNodes
    <2>2. /\ Listing(c).step = "list" /\ Listing(c).endpoints = worker[c].endpoints
          /\ Listing(c).todo = worker[c].todo
      BY <2>1 DEF Listing, Reconciles
    <2>3. Reached(c)' = {} /\ worker'[c].step = "list"
      BY <1>3, <2>1, <2>2 DEF Reached, Moves
    <2>4. ProgressInv(c)' /\ AddInv(c)'
      BY <2>3 DEF ProgressInv, AddInv, CleanupSteps
    <2> QED
      BY <1>1, <1>3, <2>4, OneMoves
  <1> QED
    BY <1>1, <1>2, <1>3, ReconcileMoves DEF IInv

\* The list of the endpoint's managed peers finds every one of c in use there.
LEMMA ListStep ==
  ASSUME IInv, NEW c \in Clusters, ListManaged(c)
  PROVE  UnusedInv' /\ \A d \in Clusters : ProgressInv(d)' /\ AddInv(d)'
  <1>1. UnusedInv' /\ \A d \in Clusters : Shrinks(d) /\ peers' = peers
    BY QuietPeers DEF ListManaged
  <1>2. CASE Moves(c, Idle)
    BY <1>1, <1>2, FailKeeps
  <1>3. ASSUME NEW e \in worker[c].todo, Moves(c, Listed(c, e))
        PROVE  \A d \in Clusters : ProgressInv(d)' /\ AddInv(d)'
    <2>1. worker[c] \in Reconciles /\ worker[c].step = "list" /\ ProgressInv(c)
      BY WorkerType DEF IInv, ListManaged
    <2>2. /\ Listed(c, e).step = "stale" /\ Listed(c, e).endpoints = worker[c].endpoints
          /\ Listed(c, e).todo = worker[c].todo \ {e} /\ Listed(c, e).desired = worker[c].desired
          /\ Listed(c, e).stale = StaleOn(c, e)
      BY <2>1 DEF Listed, Reconciles
    <2>3. /\ worker'[c].step = "stale" /\ worker'[c].endpoints = worker[c].endpoints
          /\ worker'[c].todo = worker[c].todo \ {e} /\ worker'[c].desired = worker[c].desired
          /\ worker'[c].stale = StaleOn(c, e)
      BY <1>3, <2>2 DEF Moves
    <2>4. ASSUME NEW i \in Reached(c)'
          PROVE  Placed(c, i)' \/ i \in worker'[c].stale
      <3>1. CASE peers[i].endpoint = e
        BY <1>1, <2>3, <3>1 DEF Reached, Placed, StaleOn, ManagedOn, ListManagedPeers,
           ListAllPeers, IsDeleted, IsDeleting, Working
      <3>2. CASE peers[i].endpoint # e
        <4>1. i \in Reached(c)
          BY <1>1, <2>3, <3>2 DEF Reached
        <4>2. Placed(c, i)
          BY <2>1, <4>1 DEF ProgressInv, ReconcileSteps
        <4> QED
          BY <1>1, <2>3, <4>2 DEF Placed
      <3> QED
        BY <3>1, <3>2
    <2>5. ProgressInv(c)' /\ AddInv(c)'
      BY <2>3, <2>4 DEF ProgressInv, AddInv, CleanupSteps
    <2> QED
      BY <1>1, <1>3, <2>5, OneMoves
  <1> QED
    BY <1>1, <1>2, <1>3, ListMoves DEF IInv

\* A deletion takes one id off the list, and that peer out of use.
LEMMA DeleteStep ==
  ASSUME IInv, NEW c \in Clusters, NEW i \in worker[c].stale, DeletePeer(c, i, Deleted(c, i)),
         worker[c].step \in {"stale", "release"}
  PROVE  UnusedInv' /\ \A d \in Clusters : ProgressInv(d)' /\ AddInv(d)'
  <1>1. UnusedInv' /\ \A d \in Clusters : Shrinks(d)
    BY DeleteMoves, FadingUnused, FadesShrinks DEF IInv
  <1>2. CASE Moves(c, Idle)
    BY <1>1, <1>2, FailKeeps
  <1>3. CASE Moves(c, Deleted(c, i)) /\ peers'[i].state = "deleting"
    <2>1. worker[c] \in Reconciles /\ ProgressInv(c)
      BY WorkerType DEF IInv
    <2>2. /\ Deleted(c, i).step = worker[c].step /\ Deleted(c, i).endpoints = worker[c].endpoints
          /\ Deleted(c, i).todo = worker[c].todo /\ Deleted(c, i).desired = worker[c].desired
          /\ Deleted(c, i).stale = worker[c].stale \ {i}
      BY <2>1 DEF Deleted, Reconciles
    <2>3. /\ worker'[c].step = worker[c].step /\ worker'[c].endpoints = worker[c].endpoints
          /\ worker'[c].todo = worker[c].todo /\ worker'[c].desired = worker[c].desired
          /\ worker'[c].stale = worker[c].stale \ {i}
      BY <1>3, <2>2 DEF Moves
    <2>4. ASSUME NEW j \in Reached(c)'
          PROVE  j \in Reached(c) /\ (Placed(c, j) => Placed(c, j)') /\ j # i
      <3>1. j \in Reached(c) /\ (Placed(c, j) => Placed(c, j)')
        BY <1>1, <2>3, ReachedShrinks DEF Reached, Placed
      <3>2. j # i
        BY <1>3 DEF Reached, Working
      <3> QED
        BY <3>1, <3>2
    <2>5. ProgressInv(c)'
      BY <2>1, <2>3, <2>4 DEF ProgressInv, ReconcileSteps, CleanupSteps
    <2>6. AddInv(c)'
      BY <2>3 DEF AddInv
    <2> QED
      BY <1>1, <1>3, <2>5, <2>6, OneMoves
  <1> QED
    BY <1>1, <1>2, <1>3, DeleteMoves DEF IInv

LEMMA ListAllStep ==
  ASSUME IInv, NEW c \in Clusters, ListAll(c)
  PROVE  UnusedInv' /\ \A d \in Clusters : ProgressInv(d)' /\ AddInv(d)'
  <1>1. UnusedInv' /\ \A d \in Clusters : Shrinks(d) /\ peers' = peers
    BY QuietPeers DEF ListAll
  <1>2. CASE Moves(c, Idle)
    BY <1>1, <1>2, FailKeeps
  <1>3. CASE Moves(c, Adding(c))
    <2>1. /\ worker[c] \in Reconciles /\ ProgressInv(c)
          /\ worker[c].step = "stale" /\ worker[c].stale = {}
      BY WorkerType DEF IInv, ListAll
    <2>2. /\ Adding(c).step = "missing" /\ Adding(c).endpoints = worker[c].endpoints
          /\ Adding(c).todo = worker[c].todo /\ Adding(c).desired = worker[c].desired
          /\ Adding(c).endpoint = worker[c].endpoint
          /\ Adding(c).missing = MissingFor(c) /\ Adding(c).adoptable = AdoptableBy(c)
      BY <2>1 DEF Adding, Reconciles
    <2>3. /\ worker'[c].step = "missing" /\ worker'[c].endpoints = worker[c].endpoints
          /\ worker'[c].todo = worker[c].todo /\ worker'[c].desired = worker[c].desired
          /\ worker'[c].endpoint = worker[c].endpoint
          /\ worker'[c].missing = MissingFor(c) /\ worker'[c].adoptable = AdoptableBy(c)
      BY <1>3, <2>2 DEF Moves
    <2>4. ASSUME NEW i \in Reached(c)' PROVE Placed(c, i)'
      <3>1. i \in Reached(c)
        BY <1>1, <2>3 DEF Reached
      <3>2. Placed(c, i)
        BY <2>1, <3>1 DEF ProgressInv, ReconcileSteps
      <3> QED
        BY <1>1, <2>3, <3>2 DEF Placed
    <2>5. ProgressInv(c)'
      BY <2>3, <2>4 DEF ProgressInv, CleanupSteps
    <2>6. AddInv(c)'
      <3>1. MissingFor(c) \subseteq InZone(worker[c].desired, worker[c].endpoint)
        BY DEF MissingFor
      <3>2. \A i \in AdoptableBy(c) : /\ peers[i].endpoint = worker[c].endpoint
                                      /\ peers[i].state # "unused"
        BY DEF AdoptableBy, ListAllPeers
      <3> QED
        BY <1>1, <2>3, <3>1, <3>2 DEF AddInv
    <2> QED
      BY <1>1, <1>3, <2>5, <2>6, OneMoves
  <1> QED
    BY <1>1, <1>2, <1>3, ListAllMoves DEF IInv

\* A peer that c adds or adopts is that of a node in the zone of the endpoint.
LEMMA AddStep ==
  ASSUME IInv, NEW c \in Clusters, AddPeer(c)
  PROVE  UnusedInv' /\ \A d \in Clusters : ProgressInv(d)' /\ AddInv(d)'
  <1> DEFINE w == worker[c]
  <1>1. PICK a \in w.missing :
           /\ Moves(c, Idle) \/ Moves(c, Added(c, a))
           /\ \/ UNCHANGED peers
              \/ NewPeer(w.endpoint, a, c)
              \/ \E i \in w.adoptable : peers[i].ip = a /\ Tagged(c, i)
    BY AddMoves DEF IInv
  <1>2. /\ w \in Reconciles /\ w.step = "missing" /\ ProgressInv(c)
        /\ a \in InZone(w.desired, w.endpoint) /\ w.adoptable \subseteq Ids
        /\ \A i \in w.adoptable : peers[i].endpoint = w.endpoint /\ peers[i].state # "unused"
        /\ c # "other"
    BY <1>1, WorkerType, NobodyAssumption DEF IInv, AddPeer, AddInv
  <1> DEFINE Grows ==
               \A i \in Ids :
                   /\ peers[i].state # "unused" =>
                         /\ peers'[i].endpoint = peers[i].endpoint
                         /\ peers'[i].ip = peers[i].ip /\ peers'[i].state # "unused"
                   /\ peers'[i].tag = c /\ peers'[i].state \in Working =>
                         \/ /\ peers[i].tag = c /\ peers[i].state \in Working
                            /\ peers'[i].endpoint = peers[i].endpoint
                            /\ peers'[i].ip = peers[i].ip
                         \/ peers'[i].endpoint = w.endpoint /\ peers'[i].ip = a
  <1>3. (\A d \in Clusters \ {c} : Shrinks(d)) /\ UnusedInv' /\ Grows
    <2>1. CASE UNCHANGED peers
      BY <2>1, QuietPeers
    <2>2. CASE NewPeer(w.endpoint, a, c)
      <3>1. PICK k \in Ids, s \in Working :
               /\ peers[k].state = "unused"
               /\ peers'[k] = [endpoint |-> w.endpoint, ip |-> a, state |-> s, tag |-> c]
               /\ \A j \in Ids \ {k} : peers'[j] = peers[j]
        BY <2>2 DEF NewPeer
      <3>2. peers'[k].endpoint = w.endpoint /\ peers'[k].ip = a /\ peers'[k].state # "unused"
        BY <3>1 DEF Working
      <3>3. UnusedInv'
        BY <3>1, <3>2 DEF IInv, UnusedInv
      <3>4. \A d \in Clusters \ {c} : Shrinks(d)
        BY <2>2, NewShrinks
      <3> QED
        BY <3>1, <3>2, <3>3, <3>4
    <2>3. ASSUME NEW i \in w.adoptable, peers[i].ip = a, Tagged(c, i)
          PROVE  (\A d \in Clusters \ {c} : Shrinks(d)) /\ UnusedInv' /\ Grows
      <3>1. /\ i \in Ids /\ peers'[i].endpoint = w.endpoint /\ peers'[i].ip = a
            /\ peers'[i].state = peers[i].state
            /\ peers[i].state # "unused" /\ \A j \in Ids \ {i} : peers'[j] = peers[j]
            /\ peers[i].endpoint = w.endpoint
        BY <1>2, <2>3, TaggedFields DEF IInv
      <3>2. UnusedInv'
        BY <3>1 DEF IInv, UnusedInv
      <3>3. \A d \in Clusters \ {c} : Shrinks(d)
        BY <2>3, <3>1, TaggedShrinks DEF IInv
      <3> QED
        BY <2>3, <3>1, <3>2, <3>3
    <2> QED
      BY <1>1, <2>1, <2>2, <2>3
  <1>4. CASE Moves(c, Idle)
    BY <1>3, <1>4, FailKeeps
  <1>5. CASE Moves(c, Added(c, a))
    <2>1. /\ Added(c, a).step = "missing" /\ Added(c, a).endpoints = w.endpoints
          /\ Added(c, a).todo = w.todo /\ Added(c, a).desired = w.desired
          /\ Added(c, a).endpoint = w.endpoint
          /\ Added(c, a).missing = w.missing \ {a} /\ Added(c, a).adoptable = w.adoptable
      BY <1>2 DEF Added, Reconciles
    <2>2. /\ worker'[c].step = "missing" /\ worker'[c].endpoints = w.endpoints
          /\ worker'[c].todo = w.todo /\ worker'[c].desired = w.desired
          /\ worker'[c].endpoint = w.endpoint
          /\ worker'[c].missing = w.missing \ {a} /\ worker'[c].adoptable = w.adoptable
      BY <1>5, <2>1 DEF Moves
    <2>3. ASSUME NEW i \in Reached(c)' PROVE Placed(c, i)'
      <3>1. i \in Ids /\ peers'[i].tag = c /\ peers'[i].state \in Working
            /\ peers'[i].endpoint \in w.endpoints \ w.todo
        BY <2>2 DEF Reached
      <3>2. CASE peers'[i].endpoint = w.endpoint /\ peers'[i].ip = a
        BY <1>2, <2>2, <3>2 DEF Placed
      <3>3. CASE /\ peers[i].tag = c /\ peers[i].state \in Working
                 /\ peers'[i].endpoint = peers[i].endpoint /\ peers'[i].ip = peers[i].ip
        <4>1. i \in Reached(c)
          BY <3>1, <3>3 DEF Reached
        <4>2. Placed(c, i)
          BY <1>2, <4>1 DEF ProgressInv, ReconcileSteps
        <4> QED
          BY <2>2, <3>3, <4>2 DEF Placed
      <3> QED
        BY <1>3, <3>1, <3>2, <3>3
    <2>4. ProgressInv(c)'
      BY <2>2, <2>3 DEF ProgressInv, CleanupSteps
    <2>5. AddInv(c)'
      <3>1. w.missing \subseteq InZone(w.desired, w.endpoint)
        BY <1>2 DEF IInv, AddInv
      <3> QED
        BY <1>2, <1>3, <2>2, <3>1 DEF AddInv
    <2> QED
      BY <1>3, <1>5, <2>4, <2>5, OneMoves
  <1> QED
    BY <1>1, <1>3, <1>4, <1>5

\* The other steps of a reconcile, and those of a cleanup that delete nothing.
LEMMA GoOnStep ==
  ASSUME IInv, NEW c \in Clusters,
         \/ NextEndpoint(c) \/ CountPeers(c) \/ DisableSourceDestCheck(c) \/ Succeed(c)
         \/ Return(c)
  PROVE  UnusedInv' /\ \A d \in Clusters : ProgressInv(d)' /\ AddInv(d)'
  <1> DEFINE w == worker[c]
  <1>1. UnusedInv' /\ (\A d \in Clusters : Shrinks(d)) /\ peers' = peers
    BY QuietPeers DEF NextEndpoint, CountPeers, DisableSourceDestCheck, Succeed, Return
  <1>2. w \in Reconciles /\ ProgressInv(c)
    BY WorkerType DEF IInv
  <1>3. CASE Moves(c, Idle)
    BY <1>1, <1>3, FailKeeps
  <1>4. ASSUME NEW v, Moves(c, v), v.endpoints = w.endpoints, v.todo = w.todo,
               v.desired = w.desired, v.step \in {"list", "check", "done"},
               v.step \in {"check", "done"} => w.todo = {},
               w.step \in {"list", "missing", "check", "done"}
        PROVE  \A d \in Clusters : ProgressInv(d)' /\ AddInv(d)'
    <2>1. worker'[c] = v
      BY <1>4 DEF Moves
    <2>2. ASSUME NEW i \in Reached(c)' PROVE Placed(c, i)'
      <3>1. i \in Reached(c)
        BY <1>1, <1>4, <2>1 DEF Reached
      <3>2. Placed(c, i)
        BY <1>2, <1>4, <3>1 DEF ProgressInv, ReconcileSteps
      <3> QED
        BY <1>1, <1>4, <2>1, <3>2 DEF Placed
    <2>3. ProgressInv(c)' /\ AddInv(c)'
      BY <1>4, <2>1, <2>2 DEF ProgressInv, AddInv, CleanupSteps
    <2> QED
      BY <1>1, <1>4, <2>3, OneMoves
  <1>5. CASE NextEndpoint(c)
    <2>1. /\ NextOne(c).endpoints = w.endpoints /\ NextOne(c).todo = w.todo
          /\ NextOne(c).desired = w.desired /\ NextOne(c).step = "list"
      BY <1>2 DEF NextOne, Reconciles
    <2>2. Moves(c, NextOne(c)) /\ w.step = "missing"
      BY <1>5, NextEndpointMoves DEF IInv, NextEndpoint
    <2> QED
      BY <1>1, <1>4, <2>1, <2>2
  <1>6. CASE CountPeers(c)
    <2>1. /\ Counted(c).endpoints = w.endpoints /\ Counted(c).todo = w.todo
          /\ Counted(c).desired = w.desired /\ Counted(c).step = "check"
      BY <1>2 DEF Counted, Reconciles
    <2>2. Moves(c, Idle) \/ Moves(c, Counted(c))
      BY <1>6, CountMoves DEF IInv
    <2>3. w.step = "list" /\ w.todo = {}
      BY <1>6 DEF CountPeers
    <2> QED
      BY <1>1, <1>3, <1>4, <2>1, <2>2, <2>3
  <1>7. CASE DisableSourceDestCheck(c)
    <2>1. w.step = "check" /\ w.todo = {}
      BY <1>2, <1>7 DEF DisableSourceDestCheck, ProgressInv
    <2>2. ASSUME NEW a PROVE /\ CheckedOff(c, a).endpoints = w.endpoints
                             /\ CheckedOff(c, a).todo = w.todo
                             /\ CheckedOff(c, a).desired = w.desired
                             /\ CheckedOff(c, a).step = "check"
      BY <1>2, <2>1 DEF CheckedOff, Reconciles
    <2>3. Moves(c, Idle) \/ \E a \in w.unchecked : Moves(c, CheckedOff(c, a))
      BY <1>7, CheckMoves DEF IInv
    <2> QED
      BY <1>1, <1>3, <1>4, <2>1, <2>2, <2>3
  <1>8. CASE Succeed(c)
    <2>1. w.step = "check" /\ w.todo = {}
      BY <1>2, <1>8 DEF Succeed, ProgressInv
    <2>2. /\ AtStep(c, "done").endpoints = w.endpoints /\ AtStep(c, "done").todo = w.todo
          /\ AtStep(c, "done").desired = w.desired /\ AtStep(c, "done").step = "done"
      BY <1>2 DEF AtStep, Reconciles
    <2>3. Moves(c, AtStep(c, "done"))
      BY <1>8, EndMoves DEF IInv
    <2> QED
      BY <1>1, <1>4, <2>1, <2>2, <2>3
  <1>9. CASE Return(c)
    BY <1>1, <1>3, <1>9, EndMoves DEF IInv
  <1> QED
    BY <1>5, <1>6, <1>7, <1>8, <1>9

LEMMA CleanupStep ==
  ASSUME IInv, NEW c \in Clusters,
         \/ ListForCleanup(c) \/ Cleaned(c)
         \/ /\ DeleteManaged(c) /\ worker[c].stale = {} /\ Moves(c, AtStep(c, "cleanup"))
            /\ UNCHANGED peers
  PROVE  UnusedInv' /\ \A d \in Clusters : ProgressInv(d)' /\ AddInv(d)'
  <1> DEFINE w == worker[c]
  <1>1. UnusedInv' /\ (\A d \in Clusters : Shrinks(d)) /\ peers' = peers
    BY QuietPeers DEF ListForCleanup, Cleaned
  <1>2. w \in Reconciles /\ ProgressInv(c)
    BY WorkerType DEF IInv
  <1>3. CASE Moves(c, Idle)
    BY <1>1, <1>3, FailKeeps
  <1>4. ASSUME NEW e \in w.todo, Moves(c, Releasing(c, e)), w.step = "cleanup"
        PROVE  \A d \in Clusters : ProgressInv(d)' /\ AddInv(d)'
    <2>1. /\ Releasing(c, e).step = "release" /\ Releasing(c, e).endpoints = w.endpoints
          /\ Releasing(c, e).todo = w.todo \ {e} /\ Releasing(c, e).stale = Releasable(c, e)
      BY <1>2 DEF Releasing, Reconciles
    <2>2. /\ worker'[c].step = "release" /\ worker'[c].endpoints = w.endpoints
          /\ worker'[c].todo = w.todo \ {e} /\ worker'[c].stale = Releasable(c, e)
      BY <1>4, <2>1 DEF Moves
    <2>3. ASSUME NEW i \in Reached(c)' PROVE i \in Releasable(c, e)
      <3>1. CASE peers[i].endpoint = e
        BY <1>1, <3>1 DEF Reached, Releasable, ListManagedPeers, ListAllPeers, IsDeleted,
           IsDeleting, Working
      <3>2. CASE peers[i].endpoint # e
        <4>1. i \in Reached(c)
          BY <1>1, <2>2, <3>2 DEF Reached
        <4> QED
          BY <1>2, <1>4, <4>1 DEF ProgressInv, CleanupSteps
      <3> QED
        BY <3>1, <3>2
    <2>4. ProgressInv(c)' /\ AddInv(c)'
      BY <2>2, <2>3 DEF ProgressInv, AddInv, ReconcileSteps
    <2> QED
      BY <1>1, <1>4, <2>4, OneMoves
  <1>5. ASSUME NEW v, Moves(c, v), v.endpoints = w.endpoints, v.todo = w.todo,
               v.step \in {"cleanup", "clean"}, v.step = "clean" => w.todo = {},
               w.step = "cleanup" \/ (w.step = "release" /\ w.stale = {})
        PROVE  \A d \in Clusters : ProgressInv(d)' /\ AddInv(d)'
    <2>1. worker'[c] = v
      BY <1>5 DEF Moves
    <2>2. Reached(c)' = Reached(c)
      BY <1>1, <1>5, <2>1 DEF Reached
    <2>3. Reached(c) = {}
      BY <1>2, <1>5 DEF ProgressInv, CleanupSteps
    <2>4. ProgressInv(c)' /\ AddInv(c)'
      BY <1>5, <2>1, <2>2, <2>3 DEF ProgressInv, AddInv, ReconcileSteps
    <2> QED
      BY <1>1, <1>5, <2>4, OneMoves
  <1>6. CASE ListForCleanup(c)
    <2>1. w.step = "cleanup"
      BY <1>6 DEF ListForCleanup
    <2> QED
      BY <1>1, <1>3, <1>4, <1>6, <2>1, ListForCleanupMoves DEF IInv
  <1>7. CASE Cleaned(c)
    <2>1. w.step = "cleanup" /\ w.todo = {}
      BY <1>7 DEF Cleaned
    <2>2. /\ Clean(c).step = "clean" /\ Clean(c).endpoints = w.endpoints
          /\ Clean(c).todo = {}
      BY IdleType DEF Clean, Reconciles
    <2> QED
      BY <1>1, <1>5, <1>7, <2>1, <2>2, CleanedMoves DEF IInv
  <1>8. CASE DeleteManaged(c) /\ w.stale = {} /\ Moves(c, AtStep(c, "cleanup"))
    <2>1. w.step = "release"
      BY <1>8 DEF DeleteManaged
    <2>2. /\ AtStep(c, "cleanup").step = "cleanup"
          /\ AtStep(c, "cleanup").endpoints = w.endpoints /\ AtStep(c, "cleanup").todo = w.todo
      BY <1>2 DEF AtStep, Reconciles
    <2> QED
      BY <1>1, <1>5, <1>8, <2>1, <2>2
  <1> QED
    BY <1>6, <1>7, <1>8

\* EC2, people and the environment add no peer with a cluster's tag.
LEMMA EnvironmentStep ==
  ASSUME IInv, Environment
  PROVE  UnusedInv' /\ \A d \in Clusters : ProgressInv(d)' /\ AddInv(d)'
  <1>1. ASSUME UnusedInv', \A d \in Clusters : Shrinks(d), worker' = worker
        PROVE  UnusedInv' /\ \A d \in Clusters : ProgressInv(d)' /\ AddInv(d)'
    BY <1>1, OtherKeeps DEF IInv
  <1>2. ASSUME NEW i \in Ids, PeerProgresses(i) \/ PeerFails(i) \/ PeerDeletedByHand(i)
        PROVE  UnusedInv' /\ \A d \in Clusters : ProgressInv(d)' /\ AddInv(d)'
    <2>1. UnusedInv' /\ \A d \in Clusters : Shrinks(d)
      BY <1>2, ProgressFades, FadingUnused, FadesShrinks DEF IInv
    <2>2. worker' = worker
      BY <1>2 DEF PeerProgresses, PeerFails, PeerDeletedByHand
    <2> QED
      BY <1>1, <2>1, <2>2
  <1>3. ASSUME NEW e \in Endpoints, NEW a \in Addresses, ForeignPeerCreated(e, a)
        PROVE  UnusedInv' /\ \A d \in Clusters : ProgressInv(d)' /\ AddInv(d)'
    <2>1. NewPeer(e, a, "other")
      BY <1>3, CreatedPeer DEF ForeignPeerCreated, Working, IInv
    <2>2. \A d \in Clusters : Shrinks(d)
      BY <2>1, NewShrinks, NobodyAssumption
    <2>3. UnusedInv'
      BY <2>1 DEF NewPeer, UnusedInv, IInv
    <2> QED
      BY <1>1, <1>3, <2>2, <2>3 DEF ForeignPeerCreated
  <1>4. CASE \/ \E a \in Addresses : NodeChanges(a)
             \/ \E c \in Clusters : EndpointsChange(c) \/ ConfigDeleted(c)
    <2>1. UNCHANGED <<peers, worker>>
      BY <1>4 DEF NodeChanges, EndpointsChange, ConfigDeleted
    <2> QED
      BY <1>1, <2>1, QuietPeers
  <1>5. ASSUME NEW c \in Clusters, Restart(c)
        PROVE  UnusedInv' /\ \A d \in Clusters : ProgressInv(d)' /\ AddInv(d)'
    <2>1. Moves(c, Idle)
      BY <1>5, IdleType, GotoMoves DEF Restart, Goto, IInv
    <2> QED
      BY <1>5, <2>1, QuietPeers, FailKeeps DEF Restart
  <1> QED
    BY <1>2, <1>3, <1>4, <1>5 DEF Environment

LEMMA InitInv == Init => IInv
  <1> SUFFICES ASSUME Init PROVE IInv
    OBVIOUS
  <1>1. TypeOK
    BY TypeInit
  <1>2. UnusedInv
    BY UnusedType DEF Init, UnusedInv
  <1>3. ASSUME NEW c \in Clusters PROVE ProgressInv(c) /\ AddInv(c)
    <2>1. worker[c].step = "idle"
      BY IdleType DEF Init
    <2> QED
      BY <2>1 DEF ProgressInv, AddInv, ReconcileSteps, CleanupSteps
  <1> QED
    BY <1>1, <1>2, <1>3 DEF IInv

LEMMA StepInv == IInv /\ [Next]_vars => IInv'
  <1> SUFFICES ASSUME IInv, [Next]_vars
               PROVE  UnusedInv' /\ \A d \in Clusters : ProgressInv(d)' /\ AddInv(d)'
    BY TypeStep DEF IInv
  <1>1. CASE Environment
    BY <1>1, EnvironmentStep
  <1>2. ASSUME NEW c \in Clusters, Operator(c)
        PROVE  UnusedInv' /\ \A d \in Clusters : ProgressInv(d)' /\ AddInv(d)'
    <2>1. CASE DiscoverEndpoints(c)
      BY <2>1, DiscoverStep
    <2>2. CASE ReconcileNodes(c)
      BY <2>2, ReconcileStep
    <2>3. CASE ListManaged(c)
      BY <2>3, ListStep
    <2>4. CASE DeleteStale(c)
      BY <2>4, DeleteStep DEF DeleteStale, Deleted
    <2>5. CASE ListAll(c)
      BY <2>5, ListAllStep
    <2>6. CASE AddPeer(c)
      BY <2>6, AddStep
    <2>7. CASE \/ NextEndpoint(c) \/ CountPeers(c) \/ DisableSourceDestCheck(c) \/ Succeed(c)
               \/ Return(c)
      BY <2>7, GoOnStep
    <2>8. CASE ListForCleanup(c) \/ Cleaned(c)
      BY <2>8, CleanupStep
    <2>9. CASE DeleteManaged(c)
      <3>1. worker[c].step = "release"
        BY <2>9 DEF DeleteManaged
      <3> QED
        BY <2>9, <3>1, DeleteManagedMoves, DeleteStep, CleanupStep DEF IInv
    <2> QED
      BY <1>2, <2>1, <2>2, <2>3, <2>4, <2>5, <2>6, <2>7, <2>8, <2>9 DEF Operator
  <1>3. CASE UNCHANGED vars
    <2>1. peers' = peers /\ worker' = worker
      BY <1>3 DEF vars
    <2> QED
      BY <2>1, QuietPeers, OtherKeeps DEF IInv
  <1> QED
    BY <1>1, <1>2, <1>3 DEF Next

\* The inductive invariant holds in every reachable state.
THEOREM Invariance == Spec => []IInv
  BY InitInv, StepInv, PTL DEF Spec

\* A ReconcileNodes that succeeds leaves the cluster no peer in use on its
\* endpoints but those of the router nodes it listed, each in its own zone, for
\* any number of clusters that share them: between the list of an endpoint and the
\* end of the call nobody else can bring a peer of the cluster into use.
THEOREM NodesOnly == Spec => []OnlyNodesArePeered
  <1>1. IInv => OnlyNodesArePeered
    <2> SUFFICES ASSUME IInv, NEW c \in Clusters, worker[c].step = "done", NEW i \in Ids,
                        peers[i].tag = c, peers[i].state \in Working,
                        peers[i].endpoint \in worker[c].endpoints
                 PROVE  peers[i].ip \in InZone(worker[c].desired, peers[i].endpoint)
      BY DEF OnlyNodesArePeered
    <2>1. ProgressInv(c) /\ worker[c].todo = {}
      BY DEF IInv, ProgressInv
    <2>2. i \in Reached(c)
      BY <2>1 DEF Reached
    <2> QED
      BY <2>1, <2>2 DEF ProgressInv, ReconcileSteps, Placed
  <1> QED
    BY <1>1, Invariance, PTL

\* A Cleanup that runs to its end leaves no peer of the cluster in use on the
\* endpoints it was given, however often it failed and started over.
THEOREM CleanupReleases == Spec => []CleanupReleasesPeers
  <1>1. IInv => CleanupReleasesPeers
    <2> SUFFICES ASSUME IInv, NEW c \in Clusters, worker[c].step = "clean", NEW i \in Ids,
                        peers[i].tag = c, peers[i].endpoint \in worker[c].endpoints
                 PROVE  peers[i].state \notin Working
      BY DEF CleanupReleasesPeers
    <2>1. ProgressInv(c) /\ worker[c].todo = {}
      BY DEF IInv, ProgressInv
    <2> QED
      BY <2>1 DEF ProgressInv, CleanupSteps, Reached
  <1> QED
    BY <1>1, Invariance, PTL


-----------------------------------------------------------------------------
(* Whose peers an operator deletes.                                        *)

\* The tag of a cluster stays on a peer.
TagsStay == \A i \in Ids, d \in Clusters : peers[i].tag = d => peers'[i].tag = d

\* The next worker lists the nodes afresh or keeps them, and what it is to delete
\* has its tag.
Follows(c, w) ==
    /\ w.step \in ReconcileSteps =>
          \/ w.desired = Nodes(c)
          \/ worker[c].step \in ReconcileSteps /\ w.desired = worker[c].desired
    /\ w.step \in {"stale", "release"} => \A i \in w.stale : peers[i].tag = c

LEMMA RestFollows ==
  ASSUME NEW c, NEW w, w.step \in {"idle", "skipped", "nodes", "cleanup", "clean"} PROVE Follows(c, w)
  BY DEF Follows, ReconcileSteps

LEMMA SameFollows ==
  ASSUME NEW c, NEW w, worker[c].step \in ReconcileSteps, w.desired = worker[c].desired,
         w.step \in {"list", "missing", "check", "done"}
  PROVE  Follows(c, w)
  BY DEF Follows

LEMMA DeletedFollows ==
  ASSUME TypeOK, OwnInv, NEW c \in Clusters, worker[c].step \in {"stale", "release"},
         NEW i \in worker[c].stale
  PROVE  Follows(c, Deleted(c, i))
  <1>1. worker[c] \in Reconciles
    BY WorkerType
  <1>2. /\ Deleted(c, i).step = worker[c].step /\ Deleted(c, i).desired = worker[c].desired
        /\ Deleted(c, i).stale = worker[c].stale \ {i}
    BY <1>1 DEF Deleted, Reconciles
  <1> QED
    BY <1>2 DEF Follows, ReconcileSteps, OwnInv

\* Every step of an operator follows.
LEMMA OperatorFollows ==
  ASSUME TypeOK, OwnInv, NEW c \in Clusters, Operator(c)
  PROVE  \E w : Moves(c, w) /\ Follows(c, w)
  <1> DEFINE w == worker[c]
  <1>1. w \in Reconciles
    BY WorkerType
  <1>2. Follows(c, Idle)
    BY IdleType, RestFollows
  <1>3. CASE DiscoverEndpoints(c)
    <2>1. Begun(c, "cleanup").step = "cleanup" /\ Begun(c, "nodes").step = "nodes"
      BY IdleType DEF Begun, Reconciles
    <2>2. Skipped.step = "skipped"
      BY IdleType DEF Skipped, Reconciles
    <2> QED
      BY <1>2, <1>3, <2>1, <2>2, DiscoverMoves, RestFollows
  <1>4. CASE ReconcileNodes(c)
    <2>1. Listing(c).step = "list" /\ Listing(c).desired = Nodes(c)
      BY <1>1 DEF Listing, Reconciles
    <2>2. Follows(c, Listing(c))
      BY <2>1 DEF Follows
    <2> QED
      BY <1>2, <1>4, <2>2, ReconcileMoves
  <1>5. CASE ListManaged(c)
    <2>1. w.step = "list"
      BY <1>5 DEF ListManaged
    <2>2. ASSUME NEW e \in w.todo PROVE Follows(c, Listed(c, e))
      <3>1. /\ Listed(c, e).step = "stale" /\ Listed(c, e).desired = w.desired
            /\ Listed(c, e).stale = StaleOn(c, e)
        BY <1>1 DEF Listed, Reconciles
      <3>2. \A i \in StaleOn(c, e) : peers[i].tag = c
        BY DEF StaleOn, ManagedOn, ListManagedPeers
      <3> QED
        BY <2>1, <3>1, <3>2 DEF Follows, ReconcileSteps
    <2> QED
      BY <1>2, <1>5, <2>2, ListMoves
  <1>6. CASE DeleteStale(c)
    <2>1. w.step = "stale"
      BY <1>6 DEF DeleteStale
    <2>2. PICK i \in w.stale : DeletePeer(c, i, Deleted(c, i))
      BY <1>6 DEF DeleteStale, Deleted
    <2>3. Follows(c, Deleted(c, i))
      BY <2>1, DeletedFollows
    <2> QED
      BY <1>2, <2>2, <2>3, DeleteMoves
  <1>7. CASE ListAll(c)
    <2>1. w.step = "stale"
      BY <1>7 DEF ListAll
    <2>2. Adding(c).step = "missing" /\ Adding(c).desired = w.desired
      BY <1>1 DEF Adding, Reconciles
    <2>3. Follows(c, Adding(c))
      BY <2>1, <2>2, SameFollows DEF ReconcileSteps
    <2> QED
      BY <1>2, <1>7, <2>3, ListAllMoves
  <1>8. CASE AddPeer(c)
    <2>1. w.step = "missing"
      BY <1>8 DEF AddPeer
    <2>2. ASSUME NEW a \in w.missing PROVE Follows(c, Added(c, a))
      <3>1. Added(c, a).step = "missing" /\ Added(c, a).desired = w.desired
        BY <1>1, <2>1 DEF Added, Reconciles
      <3> QED
        BY <2>1, <3>1, SameFollows DEF ReconcileSteps
    <2> QED
      BY <1>2, <1>8, <2>2, AddMoves
  <1>9. CASE NextEndpoint(c)
    <2>1. w.step = "missing"
      BY <1>9 DEF NextEndpoint
    <2>2. NextOne(c).step = "list" /\ NextOne(c).desired = w.desired
      BY <1>1 DEF NextOne, Reconciles
    <2>3. Follows(c, NextOne(c))
      BY <2>1, <2>2, SameFollows DEF ReconcileSteps
    <2> QED
      BY <1>9, <2>3, NextEndpointMoves
  <1>10. CASE CountPeers(c)
    <2>1. w.step = "list"
      BY <1>10 DEF CountPeers
    <2>2. Counted(c).step = "check" /\ Counted(c).desired = w.desired
      BY <1>1 DEF Counted, Reconciles
    <2>3. Follows(c, Counted(c))
      BY <2>1, <2>2, SameFollows DEF ReconcileSteps
    <2> QED
      BY <1>2, <1>10, <2>3, CountMoves
  <1>11. CASE DisableSourceDestCheck(c)
    <2>1. w.step = "check"
      BY <1>11 DEF DisableSourceDestCheck
    <2>2. ASSUME NEW a \in w.unchecked PROVE Follows(c, CheckedOff(c, a))
      <3>1. CheckedOff(c, a).step = "check" /\ CheckedOff(c, a).desired = w.desired
        BY <1>1, <2>1 DEF CheckedOff, Reconciles
      <3> QED
        BY <2>1, <3>1, SameFollows DEF ReconcileSteps
    <2> QED
      BY <1>2, <1>11, <2>2, CheckMoves
  <1>12. CASE Succeed(c)
    <2>1. w.step = "check"
      BY <1>12 DEF Succeed
    <2>2. AtStep(c, "done").step = "done" /\ AtStep(c, "done").desired = w.desired
      BY <1>1 DEF AtStep, Reconciles
    <2>3. Follows(c, AtStep(c, "done"))
      BY <2>1, <2>2, SameFollows DEF ReconcileSteps
    <2> QED
      BY <1>12, <2>3, EndMoves
  <1>13. CASE Return(c)
    BY <1>2, <1>13, EndMoves
  <1>14. CASE ListForCleanup(c)
    <2>1. ASSUME NEW e \in w.todo PROVE Follows(c, Releasing(c, e))
      <3>1. Releasing(c, e).step = "release" /\ Releasing(c, e).stale = Releasable(c, e)
        BY <1>1 DEF Releasing, Reconciles
      <3>2. \A i \in Releasable(c, e) : peers[i].tag = c
        BY DEF Releasable, ListManagedPeers
      <3> QED
        BY <3>1, <3>2 DEF Follows, ReconcileSteps
    <2> QED
      BY <1>2, <1>14, <2>1, ListForCleanupMoves
  <1>15. CASE DeleteManaged(c)
    <2>1. w.step = "release"
      BY <1>15 DEF DeleteManaged
    <2>2. ASSUME NEW i \in w.stale, DeletePeer(c, i, Deleted(c, i))
          PROVE  \E v : Moves(c, v) /\ Follows(c, v)
      <3>1. Follows(c, Deleted(c, i))
        BY <2>1, DeletedFollows
      <3> QED
        BY <1>2, <2>2, <3>1, DeleteMoves
    <2>3. Follows(c, AtStep(c, "cleanup"))
      <3>1. AtStep(c, "cleanup").step = "cleanup"
        BY <1>1 DEF AtStep, Reconciles
      <3> QED
        BY <3>1, RestFollows
    <2> QED
      BY <1>15, <2>2, <2>3, DeleteManagedMoves
  <1>16. CASE Cleaned(c)
    <2>1. Clean(c).step = "clean"
      BY IdleType DEF Clean, Reconciles
    <2> QED
      BY <1>16, <2>1, CleanedMoves, RestFollows
  <1> QED
    BY <1>3, <1>4, <1>5, <1>6, <1>7, <1>8, <1>9, <1>10, <1>11, <1>12, <1>13, <1>14, <1>15, <1>16
    DEF Operator

\* The peers of a cluster keep its tag, and a new tag is put on an address of its
\* subnet.
LEMMA FadingTags ==
  ASSUME OwnInv, \A j \in Ids : Fades(peers[j], peers'[j])
  PROVE  /\ TagsStay
         /\ \A i \in Ids : peers'[i].tag = peers[i].tag /\ peers'[i].ip = peers[i].ip
  BY DEF Fades, TagsStay

TagsOwned == \A i \in Ids : peers'[i].tag \in Clusters => peers'[i].ip \in Subnet[peers'[i].tag]

LEMMA FadingOwned ==
  ASSUME OwnInv, \A j \in Ids : Fades(peers[j], peers'[j])
  PROVE  TagsStay /\ TagsOwned
  BY FadingTags DEF OwnInv, TagsOwned

LEMMA NewOwned ==
  ASSUME IInv, OwnInv, NEW e \in Endpoints, NEW a \in Addresses, NEW tag \in Clusters \cup {"other"},
         NewPeer(e, a, tag),
         tag \in Clusters => a \in Subnet[tag]
  PROVE  TagsStay /\ TagsOwned
  <1>1. PICK k \in Ids, s \in Working :
           /\ peers[k].state = "unused"
           /\ peers'[k] = [endpoint |-> e, ip |-> a, state |-> s, tag |-> tag]
           /\ \A j \in Ids \ {k} : peers'[j] = peers[j]
    BY DEF NewPeer
  <1>2. peers[k].tag = "other" /\ peers'[k].ip = a /\ peers'[k].tag = tag
    BY <1>1 DEF IInv, UnusedInv
  <1>3. peers[k].tag \notin Clusters
    BY <1>2, NobodyAssumption
  <1>4. TagsStay
    BY <1>1, <1>3 DEF TagsStay
  <1> QED
    BY <1>1, <1>2, <1>4 DEF TagsOwned, OwnInv

\* An operator takes over only a peer of no cluster, or of its own.
LEMMA TaggedOwned ==
  ASSUME IInv, OwnInv, Undisputed, NEW c \in Clusters, NEW i \in Ids, Tagged(c, i),
         peers[i].ip \in Subnet[c]
  PROVE  TagsStay /\ TagsOwned
  <1>1. /\ peers'[i].ip = peers[i].ip /\ peers'[i].tag = c
        /\ \A j \in Ids \ {i} : peers'[j] = peers[j]
    BY TaggedFields DEF IInv
  <1>2. ASSUME NEW d \in Clusters, peers[i].tag = d PROVE d = c
    BY <1>2 DEF Undisputed, OwnInv
  <1>3. TagsStay
    BY <1>1, <1>2 DEF TagsStay
  <1> QED
    BY <1>1, <1>3 DEF TagsOwned, OwnInv

LEMMA AddOwned ==
  ASSUME IInv, OwnInv, Undisputed, NEW c \in Clusters, AddPeer(c)
  PROVE  TagsStay /\ TagsOwned
  <1> DEFINE w == worker[c]
  <1>1. PICK a \in w.missing :
           \/ UNCHANGED peers
           \/ NewPeer(w.endpoint, a, c)
           \/ \E i \in w.adoptable : peers[i].ip = a /\ Tagged(c, i)
    BY AddMoves DEF IInv
  <1>2. w.step = "missing"
    BY DEF AddPeer
  <1>3. a \in w.desired /\ a \in Addresses /\ w.adoptable \subseteq Ids /\ w.endpoint \in Endpoints
    BY <1>2, WorkerType DEF IInv, AddInv, InZone
  <1>4. a \in Subnet[c]
    BY <1>2, <1>3 DEF OwnInv, ReconcileSteps
  <1>5. CASE UNCHANGED peers
    BY <1>5, StillFades, FadingOwned DEF IInv
  <1>6. CASE NewPeer(w.endpoint, a, c)
    BY <1>3, <1>4, <1>6, NewOwned
  <1>7. ASSUME NEW i \in w.adoptable, peers[i].ip = a, Tagged(c, i)
        PROVE  TagsStay /\ TagsOwned
    BY <1>3, <1>4, <1>7, TaggedOwned
  <1> QED
    BY <1>1, <1>5, <1>6, <1>7

\* What an operator deletes is on its list.
LEMMA OperatorDeletes ==
  ASSUME TypeOK, NEW c \in Clusters, Operator(c), ~AddPeer(c)
  PROVE  /\ \A j \in Ids : Fades(peers[j], peers'[j])
         /\ \/ UNCHANGED peers
            \/ /\ worker[c].step \in {"stale", "release"}
               /\ \E i \in worker[c].stale : \A j \in Ids : peers'[j] = peers[j] \/ j = i
  <1>1. CASE DeleteStale(c)
    <2>1. worker[c].step = "stale" /\ \E i \in worker[c].stale : DeletePeer(c, i, Deleted(c, i))
      BY <1>1 DEF DeleteStale, Deleted
    <2> QED
      BY <2>1, DeleteMoves
  <1>2. CASE DeleteManaged(c)
    <2>1. worker[c].step = "release"
      BY <1>2 DEF DeleteManaged
    <2>2. CASE \E i \in worker[c].stale : DeletePeer(c, i, Deleted(c, i))
      BY <2>1, <2>2, DeleteMoves
    <2>3. CASE UNCHANGED peers
      BY <2>3, StillFades
    <2> QED
      BY <1>2, <2>2, <2>3, DeleteManagedMoves
  <1>3. CASE ~DeleteStale(c) /\ ~DeleteManaged(c)
    <2>1. UNCHANGED peers
      BY <1>3 DEF Operator, DiscoverEndpoints, ReconcileNodes, ListManaged, ListAll, NextEndpoint,
                  CountPeers, DisableSourceDestCheck, Succeed, Return, ListForCleanup, Cleaned
    <2> QED
      BY <2>1, StillFades
  <1> QED
    BY <1>1, <1>2, <1>3

LEMMA OperatorOwner == ASSUME NEW c \in Clusters, Operator(c) PROVE owner' = owner
  BY DEF Operator, DiscoverEndpoints, ReconcileNodes, ListManaged, ListAll, NextEndpoint, AddPeer,
         DeleteStale, DeleteManaged, CountPeers, DisableSourceDestCheck, Succeed, Return,
         ListForCleanup, Cleaned, specVars

LEMMA OwnInit == Init => OwnInv
  <1> SUFFICES ASSUME Init PROVE OwnInv
    OBVIOUS
  <1>1. \A i \in Ids : peers[i].tag \notin Clusters
    BY UnusedType, NobodyAssumption DEF Init
  <1>2. \A c \in Clusters : worker[c].step = "idle"
    BY IdleType DEF Init
  <1> QED
    BY <1>1, <1>2 DEF Init, OwnInv, ReconcileSteps

LEMMA NodesInSubnet == ASSUME OwnInv, NEW c \in Clusters PROVE Nodes(c) \subseteq Subnet[c]
  BY NobodyAssumption DEF OwnInv, Nodes, MayOwn

\* Workers that rest keep their part.
LEMMA OwnRest ==
  ASSUME OwnInv, TagsStay, TagsOwned, \A a \in Addresses : owner'[a] \in MayOwn(a),
         \A c \in Clusters : worker'[c] = worker[c] \/ worker'[c].step = "idle"
                             \/ Follows(c, worker'[c]),
         TypeOK'
  PROVE  OwnInv'
  <1>1. ASSUME NEW c \in Clusters, worker'[c].step \in ReconcileSteps
        PROVE  worker'[c].desired \subseteq Subnet[c]
    BY <1>1, NodesInSubnet DEF OwnInv, Follows, ReconcileSteps
  <1>2. ASSUME NEW c \in Clusters, worker'[c].step \in {"stale", "release"},
               NEW i \in worker'[c].stale
        PROVE  peers'[i].tag = c
    <2>1. worker'[c].stale \subseteq Ids
      BY DEF TypeOK, Reconciles
    <2>2. peers[i].tag = c
      BY <1>2 DEF OwnInv, Follows
    <2> QED
      BY <2>1, <2>2 DEF TagsStay
  <1> QED
    BY <1>1, <1>2 DEF OwnInv, TagsOwned, MayOwn

LEMMA OwnStep == ASSUME Undisputed, IInv, OwnInv, [Next]_vars PROVE OwnInv'
  <1>0. TypeOK /\ TypeOK'
    BY TypeStep DEF IInv
  <1>1. ASSUME NEW c \in Clusters, Operator(c) PROVE OwnInv'
    <2>1. PICK w : Moves(c, w) /\ Follows(c, w)
      BY <1>0, <1>1, OperatorFollows
    <2>2. \A d \in Clusters : worker'[d] = worker[d] \/ Follows(d, worker'[d])
      BY <2>1 DEF Moves
    <2>3. TagsStay /\ TagsOwned
      BY <1>0, <1>1, AddOwned, OperatorDeletes, FadingOwned
    <2> QED
      BY <1>0, <1>1, <2>2, <2>3, OwnRest, OperatorOwner DEF OwnInv
  <1>2. ASSUME NEW i \in Ids, PeerProgresses(i) \/ PeerFails(i) \/ PeerDeletedByHand(i)
        PROVE  OwnInv'
    <2>1. worker' = worker /\ owner' = owner
      BY <1>2 DEF PeerProgresses, PeerFails, PeerDeletedByHand, specVars
    <2>2. TagsStay /\ TagsOwned
      BY <1>0, <1>2, ProgressFades, FadingOwned
    <2> QED
      BY <1>0, <2>1, <2>2, OwnRest DEF OwnInv
  <1>3. ASSUME NEW e \in Endpoints, NEW a \in Addresses, ForeignPeerCreated(e, a) PROVE OwnInv'
    <2>1. worker' = worker /\ owner' = owner
      BY <1>3 DEF ForeignPeerCreated, specVars
    <2>2. NewPeer(e, a, "other")
      BY <1>0, <1>3, CreatedPeer DEF ForeignPeerCreated, Working
    <2>3. TagsStay /\ TagsOwned
      BY <2>2, NewOwned, NobodyAssumption
    <2> QED
      BY <1>0, <2>1, <2>3, OwnRest DEF OwnInv
  <1>4. ASSUME UNCHANGED peers, \A a \in Addresses : owner'[a] \in MayOwn(a),
               \A c \in Clusters : worker'[c] = worker[c] \/ worker'[c].step = "idle"
        PROVE  OwnInv'
    BY <1>0, <1>4, OwnRest, StillFades, FadingOwned
  <1>5. ASSUME NEW a \in Addresses, NodeChanges(a) PROVE OwnInv'
    <2>1. \A b \in Addresses : owner'[b] \in MayOwn(b)
      BY <1>0, <1>5 DEF NodeChanges, OwnInv, TypeOK
    <2> QED
      BY <1>4, <1>5, <2>1 DEF NodeChanges
  <1>6. ASSUME NEW c \in Clusters, EndpointsChange(c) \/ ConfigDeleted(c) PROVE OwnInv'
    BY <1>4, <1>6 DEF EndpointsChange, ConfigDeleted, OwnInv
  <1>7. ASSUME NEW c \in Clusters, Restart(c) PROVE OwnInv'
    <2>1. worker' = [worker EXCEPT ![c] = Idle] /\ worker \in [Clusters -> Reconciles]
      BY <1>0, <1>7 DEF Restart, TypeOK
    <2>2. \A d \in Clusters : worker'[d] = worker[d] \/ worker'[d].step = "idle"
      BY <2>1, IdleType
    <2> QED
      BY <1>4, <1>7, <2>2 DEF Restart, specVars, OwnInv
  <1>8. CASE UNCHANGED vars
    BY <1>4, <1>8 DEF vars, OwnInv
  <1> QED
    BY <1>1, <1>2, <1>3, <1>5, <1>6, <1>7, <1>8 DEF Next, Environment

\* Only the operator that deletes a peer moves in that step.
LEMMA DeletesOwn ==
  ASSUME Undisputed, IInv, OwnInv, [Next]_vars
  PROVE  \A c \in Clusters, i \in Ids :
            (worker'[c] # worker[c] /\ peers[i].state \in Working /\ peers'[i].state = "deleting")
            => peers[i].tag = c
  <1> SUFFICES ASSUME NEW c \in Clusters, NEW i \in Ids, worker'[c] # worker[c],
                      peers[i].state \in Working, peers'[i].state = "deleting"
               PROVE  peers[i].tag = c
    OBVIOUS
  <1>0. TypeOK
    BY DEF IInv
  <1>1. ASSUME NEW d \in Clusters, Operator(d) PROVE peers[i].tag = c
    <2>1. d = c
      BY <1>0, <1>1, OperatorFollows DEF Moves
    <2>2. peers'[i].state # peers[i].state
      BY DEF Working
    <2>3. CASE AddPeer(d)
      <3>1. PICK a \in worker[d].missing :
              \/ UNCHANGED peers
              \/ NewPeer(worker[d].endpoint, a, d)
              \/ \E k \in worker[d].adoptable : peers[k].ip = a /\ Tagged(d, k)
        BY <1>0, <2>3, AddMoves
      <3>2. CASE NewPeer(worker[d].endpoint, a, d)
        BY <2>2, <3>2 DEF NewPeer, Working
      <3>3. ASSUME NEW k \in worker[d].adoptable, Tagged(d, k) PROVE FALSE
        <4>1. k \in Ids
          BY <1>0, <3>3, WorkerType
        <4> QED
          BY <1>0, <2>2, <3>3, <4>1, TaggedFields
      <3> QED
        BY <2>2, <3>1, <3>2, <3>3
    <2>4. CASE ~AddPeer(d)
      BY <1>0, <1>1, <2>1, <2>2, <2>4, OperatorDeletes DEF OwnInv
    <2> QED
      BY <2>3, <2>4
  <1>2. CASE Environment
    <2>1. CASE \E d \in Clusters : Restart(d)
      BY <2>1 DEF Restart, Working
    <2>2. CASE ~\E d \in Clusters : Restart(d)
      BY <1>2, <2>2 DEF Environment, PeerProgresses, PeerFails, PeerDeletedByHand, ForeignPeerCreated,
                        NodeChanges, EndpointsChange, ConfigDeleted
    <2> QED
      BY <2>1, <2>2
  <1>3. CASE UNCHANGED vars
    BY <1>3 DEF vars
  <1> QED
    BY <1>1, <1>2, <1>3 DEF Next

\* Operators that share the endpoints do not delete each other's peers, whatever
\* nodes come and go, fail or are replaced, as long as their clusters have subnets
\* of their own: a cluster's tag is then on peers at addresses of its subnet only,
\* so that nobody else adopts what its operator has listed.  (In a shared subnet an
\* address may pass to the other cluster, whose operator then adopts the peer.)
THEOREM OwnPeersOnly == ASSUME Undisputed PROVE Spec => NoInterference
  <1>1. Init => IInv /\ OwnInv
    BY InitInv, OwnInit
  <1>2. IInv /\ OwnInv /\ [Next]_vars => (IInv /\ OwnInv)'
    BY StepInv, OwnStep
  <1>3. IInv /\ OwnInv /\ [Next]_vars =>
          [\A c \in Clusters, i \in Ids :
             (worker'[c] # worker[c] /\ peers[i].state \in Working
                /\ peers'[i].state = "deleting") => peers[i].tag = c]_vars
    BY DeletesOwn
  <1> QED
    BY <1>1, <1>2, <1>3, PTL DEF Spec, NoInterference
=============================================================================
