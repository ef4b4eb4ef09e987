------------------------ MODULE GCPCloudRouterProofs ------------------------
(***************************************************************************)
(* Proofs about the GCP platform, for any number of VMs, interfaces, peers *)
(* of others and events, and any limit on the size of a spoke.             *)
(*                                                                         *)
(* The spokes are the operator's alone, so what a call has written of them *)
(* stays; the router is shared, and is written as it was read.  GInv says  *)
(* what each step of a call may rely on: CallInv which call it is and for  *)
(* which nodes, InterfaceInv that peers are on interfaces of the router,   *)
(* so that a router read without one has no peer of ours, PeerInv that the *)
(* peers are those written, SpokeInv how far the chunks have got, and      *)
(* OthersInv that the peers of others are still as read where nobody wrote *)
(* them.                                                                   *)
(***************************************************************************)
EXTENDS GCPCloudRouter, FiniteSetTheorems, TLAPS

CallInv ==
    /\ worker.step \in {"idle", "nodes", "skipped"} =>
          worker.nodes = {} /\ worker.call = "ReconcileNodes"
    /\ worker.step \in {"forward", "nested", "read", "patch", "written", "done"} =>
          worker.call = "ReconcileNodes"
    /\ worker.step \in {"clear", "update", "clean"} => worker.call = "Cleanup"
    /\ worker.step \notin {"idle", "nodes", "skipped"} =>
          (worker.nodes = {} <=> worker.call = "Cleanup")
    /\ worker.step \in {"idle", "nodes", "forward", "nested", "clear", "update"} =>
          worker.next = 0

OnInterfaces == \A n \in Names : peers[n] # Absent => Listed(peers[n].interface, interfaces)

InterfaceInv ==
    /\ OnInterfaces
    /\ worker.step \in {"read", "patch"} /\ worker.interfaces = <<>> => peers = NoPeers

PeerInv ==
    /\ worker.step \in {"written", "done"} =>
          peers = DesiredPeers(worker.nodes, worker.interfaces)
    /\ worker.call = "Cleanup" /\ worker.step \in {"spokes", "prune", "clean"} => peers = NoPeers

Wanted == DOMAIN SpokesOf(worker.nodes)

\* The spoke numbered i holds its chunk of the nodes.
Holds(i) == spokes[i] # Absent /\ spokes[i].vms = SpokesOf(worker.nodes)[i]

SizeInv ==
    \A i \in SpokeIds : spokes[i] # Absent =>
        Cardinality(spokes[i].vms) <= NCCMaxInstancesPerSpoke

SpokeInv ==
    /\ worker.step = "spokes" => \A i \in Wanted : i < worker.next => Holds(i)
    /\ worker.step = "prune" =>
          /\ \A i \in Wanted : Holds(i) /\ i \notin worker.stale
          /\ \A i \in SpokeIds \ Wanted : spokes[i] = Absent \/ i \in worker.stale
    /\ worker.step \in {"read", "patch", "written", "done", "clean"} =>
          /\ \A i \in Wanted : Holds(i)
          /\ \A i \in SpokeIds \ Wanted : spokes[i] = Absent

OthersInv ==
    worker.step \in {"patch", "update"} =>
        \A p \in Foreign \ touched : p \in worker.others <=> p \in others

GInv == TypeOK /\ CallInv /\ InterfaceInv /\ PeerInv /\ SizeInv /\ SpokeInv /\ OthersInv

-----------------------------------------------------------------------------
(* Sorting and slicing.                                                    *)

LEMMA OrderType ==
  /\ Len(NameOrder) \in Nat /\ Len(NameOrder) >= 1
  /\ DOMAIN NameOrder = 1..Len(NameOrder)
  /\ \A k \in 1..Len(NameOrder) : NameOrder[k] \in VMs
  BY OrderAssumption DEF VMs

LEMMA IndexType ==
  /\ \A v \in VMs : NameIndex(v) \in 1..Len(NameOrder) /\ NameOrder[NameIndex(v)] = v
  /\ \A u, v \in VMs : NameIndex(u) = NameIndex(v) => u = v
  <1>1. \A v \in VMs : NameIndex(v) \in 1..Len(NameOrder) /\ NameOrder[NameIndex(v)] = v
    BY OrderType DEF VMs, NameIndex
  <1> QED
    BY <1>1

LEMMA VMsFinite == IsFiniteSet(VMs) /\ Cardinality(VMs) <= Len(NameOrder)
  <1> DEFINE f == [v \in VMs |-> NameIndex(v)]
  <1>1. f \in Injection(VMs, 1..Len(NameOrder))
    BY IndexType DEF Injection, IsInjective
  <1>2. IsFiniteSet(1..Len(NameOrder)) /\ Cardinality(1..Len(NameOrder)) = Len(NameOrder)
    BY OrderType, FS_Interval
  <1> QED
    BY <1>1, <1>2, FS_Injection

LEMMA NodesFinite ==
  ASSUME NEW nodes \in SUBSET VMs
  PROVE  /\ IsFiniteSet(nodes) /\ Cardinality(nodes) \in Nat
         /\ Cardinality(nodes) <= Len(NameOrder)
  <1>1. IsFiniteSet(nodes) /\ Cardinality(nodes) <= Cardinality(VMs)
    BY VMsFinite, FS_Subset
  <1>2. Cardinality(nodes) \in Nat /\ Cardinality(VMs) \in Nat
    BY <1>1, VMsFinite, FS_CardinalityType
  <1> QED
    BY <1>1, <1>2, VMsFinite, OrderType

\* Counting the nodes up to each gives its place.
LEMMA CanBeSorted ==
  ASSUME NEW nodes \in SUBSET VMs
  PROVE  \E s \in [1..Cardinality(nodes) -> nodes] :
            \A j, k \in 1..Cardinality(nodes) : j < k => NameIndex(s[j]) < NameIndex(s[k])
  <1> DEFINE n == Cardinality(nodes)
             upTo(v) == {u \in nodes : NameIndex(u) <= NameIndex(v)}
             place == [v \in nodes |-> Cardinality(upTo(v))]
             s == [k \in 1..n |-> CHOOSE v \in nodes : place[v] = k]
  <1>0. n \in Nat /\ IsFiniteSet(nodes)
    BY NodesFinite
  <1>1. \A v \in nodes : NameIndex(v) \in Nat
    BY IndexType, OrderType
  <1>2. ASSUME NEW v \in nodes
        PROVE  IsFiniteSet(upTo(v)) /\ Cardinality(upTo(v)) \in 1..n
    <2>1. upTo(v) \subseteq nodes /\ v \in upTo(v)
      BY <1>1
    <2>2. IsFiniteSet(upTo(v)) /\ Cardinality(upTo(v)) <= n
      BY <1>0, <2>1, FS_Subset
    <2>3. Cardinality(upTo(v)) \in Nat /\ Cardinality(upTo(v)) # 0
      BY <2>1, <2>2, FS_CardinalityType, FS_EmptySet
    <2> QED
      BY <1>0, <2>2, <2>3
  <1>3. ASSUME NEW u \in nodes, NEW v \in nodes, NameIndex(u) < NameIndex(v)
        PROVE  Cardinality(upTo(u)) < Cardinality(upTo(v))
    <2>1. upTo(u) \subseteq upTo(v) /\ v \in upTo(v) /\ v \notin upTo(u)
      BY <1>1, <1>3
    <2>2. Cardinality(upTo(u)) <= Cardinality(upTo(v)) /\ Cardinality(upTo(u)) # Cardinality(upTo(v))
      BY <1>2, <2>1, FS_Subset
    <2>3. Cardinality(upTo(u)) \in Nat /\ Cardinality(upTo(v)) \in Nat
      BY <1>0, <1>2
    <2> QED
      BY <2>2, <2>3
  <1> HIDE DEF upTo
  <1>4. place \in [nodes -> 1..n] /\ \A v \in nodes : place[v] = Cardinality(upTo(v))
    BY <1>2
  <1> HIDE DEF place
  <1>5. \A u, v \in nodes : place[u] = place[v] => u = v
    <2> SUFFICES ASSUME NEW u \in nodes, NEW v \in nodes, u # v PROVE place[u] # place[v]
      OBVIOUS
    <2>1. NameIndex(u) # NameIndex(v)
      BY IndexType
    <2>2. NameIndex(u) < NameIndex(v) \/ NameIndex(v) < NameIndex(u)
      BY <1>1, <2>1
    <2>3. place[u] < place[v] \/ place[v] < place[u]
      BY <1>3, <1>4, <2>2
    <2>4. place[u] \in Nat /\ place[v] \in Nat
      BY <1>0, <1>4
    <2> QED
      BY <2>3, <2>4
  <1>6. place \in Surjection(nodes, 1..n)
    <2>1. place \in Injection(nodes, 1..n)
      BY <1>4, <1>5 DEF Injection, IsInjective
    <2>2. IsFiniteSet(1..n) /\ Cardinality(1..n) = n
      BY <1>0, FS_Interval
    <2> QED
      BY <2>1, <2>2, FS_Injection
  <1>7. \A k \in 1..n : s[k] \in nodes /\ place[s[k]] = k
    BY <1>6 DEF Surjection
  <1>8. s \in [1..n -> nodes]
    BY <1>7
  <1> HIDE DEF s
  <1>9. ASSUME NEW j \in 1..n, NEW k \in 1..n, j < k PROVE NameIndex(s[j]) < NameIndex(s[k])
    <2>1. CASE NameIndex(s[k]) < NameIndex(s[j])
      <3>1. place[s[k]] < place[s[j]]
        BY <1>3, <1>4, <1>7, <2>1
      <3> QED
        BY <1>0, <1>7, <1>9, <3>1
    <2>2. NameIndex(s[j]) # NameIndex(s[k])
      <3>1. s[j] # s[k]
        BY <1>0, <1>7, <1>9
      <3> QED
        BY <1>7, <3>1, IndexType
    <2> QED
      BY <1>1, <1>7, <2>1, <2>2
  <1> QED
    BY <1>8, <1>9

\* Every node is at one place of the sorted nodes.
LEMMA Sorted ==
  ASSUME NEW nodes \in SUBSET VMs
  PROVE  /\ SortByName(nodes) \in [1..Cardinality(nodes) -> nodes]
         /\ \A j, k \in 1..Cardinality(nodes) : SortByName(nodes)[j] = SortByName(nodes)[k] => j = k
         /\ \A v \in nodes : \E k \in 1..Cardinality(nodes) : SortByName(nodes)[k] = v
  <1> DEFINE n == Cardinality(nodes)
             s == SortByName(nodes)
  <1>0. n \in Nat /\ IsFiniteSet(nodes) /\ IsFiniteSet(1..n) /\ Cardinality(1..n) = n
    BY NodesFinite, FS_Interval
  <1>1. /\ s \in [1..n -> nodes]
        /\ \A j, k \in 1..n : j < k => NameIndex(s[j]) < NameIndex(s[k])
    BY CanBeSorted DEF SortByName
  <1> HIDE DEF s
  <1>2. ASSUME NEW j \in 1..n, NEW k \in 1..n, j < k PROVE s[j] # s[k]
    <2>1. NameIndex(s[j]) \in Nat /\ NameIndex(s[j]) < NameIndex(s[k])
      BY <1>1, <1>2, IndexType, OrderType
    <2> QED
      BY <2>1
  <1>3. \A j, k \in 1..n : s[j] = s[k] => j = k
    BY <1>0, <1>2
  <1>4. s \in Injection(1..n, nodes)
    BY <1>1, <1>3 DEF Injection, IsInjective
  <1>5. s \in Surjection(1..n, nodes)
    BY <1>0, <1>4, FS_Injection
  <1> QED
    BY <1>1, <1>3, <1>5 DEF Surjection, s

\* Which slice a place is in: slices of m places follow one another.
InSlice(k, i, m) == i * m < k /\ k <= (i + 1) * m

LEMMA NextSlice == ASSUME NEW i \in Nat, NEW m \in Nat PROVE i * m \in Nat /\ (i + 1) * m = i * m + m
  OBVIOUS

LEMMA SlicesFollow ==
  ASSUME NEW i \in Nat, NEW j \in Nat, NEW m \in Nat, i <= j PROVE i * m <= j * m
  <1> DEFINE d == j - i
  <1>1. d \in Nat /\ j = i + d
    OBVIOUS
  <1> HIDE DEF d
  <1> QED
    BY <1>1

LEMMA SliceExists ==
  ASSUME NEW m \in Nat \ {0}, NEW k \in Nat \ {0}
  PROVE  \E i \in Nat : InSlice(k, i, m) /\ i < k
  <1> DEFINE q == (k - 1) \div m
  <1>1. q \in Nat /\ q * m <= k - 1 /\ k - 1 < (q + 1) * m /\ q <= k - 1
    OBVIOUS
  <1> QED
    BY <1>1 DEF InSlice

LEMMA SliceUnique ==
  ASSUME NEW m \in Nat \ {0}, NEW k \in Nat, NEW i \in Nat, NEW j \in Nat,
         InSlice(k, i, m), InSlice(k, j, m)
  PROVE  i = j
  <1>1. ASSUME NEW x \in Nat, NEW y \in Nat, InSlice(k, x, m), InSlice(k, y, m), x < y PROVE FALSE
    <2>1. (x + 1) * m <= y * m
      BY <1>1, SlicesFollow
    <2>2. (x + 1) * m \in Nat /\ y * m \in Nat
      BY NextSlice
    <2> QED
      BY <1>1, <2>1, <2>2 DEF InSlice
  <1> QED
    BY <1>1

\* The chunks of the nodes: the slices of the sorted nodes that are not empty.
LEMMA ChunksAre ==
  ASSUME NEW nodes \in SUBSET VMs
  PROVE  /\ DOMAIN SpokesOf(nodes) =
              {i \in SpokeIds : i * NCCMaxInstancesPerSpoke < Cardinality(nodes)}
         /\ \A i \in DOMAIN SpokesOf(nodes) :
              SpokesOf(nodes)[i] =
                {SortByName(nodes)[k] : k \in {j \in 1..Cardinality(nodes) :
                                                 InSlice(j, i, NCCMaxInstancesPerSpoke)}}
  <1> DEFINE n == Cardinality(nodes)
             m == NCCMaxInstancesPerSpoke
             end(i) == IF (i + 1) * m > n THEN n ELSE (i + 1) * m
             sorted == SortByName(nodes)
  <1>1. SpokesOf(nodes) =
          [i \in {k \in SpokeIds : k * m < n} |-> {sorted[k] : k \in (i * m + 1)..end(i)}]
    <2>1. ~(m <= 0)
      BY SpokeAssumption
    <2> QED
      BY <2>1 DEF SpokesOf, ChunkRouterNodes
  <1>2. n \in Nat /\ m \in Nat /\ \A i \in SpokeIds : i \in Nat
    BY NodesFinite, SpokeAssumption, OrderType DEF SpokeIds
  <1> HIDE DEF sorted
  <1>3. ASSUME NEW i \in SpokeIds
        PROVE  (i * m + 1)..end(i) = {j \in 1..n : InSlice(j, i, m)}
    <2>1. i * m \in Nat /\ (i + 1) * m \in Nat
      BY <1>2, NextSlice
    <2> QED
      BY <1>2, <2>1 DEF InSlice
  <1> HIDE DEF end, n, m
  <1> QED
    BY <1>1, <1>3 DEF n, m, sorted

\* No chunk is larger than a spoke may be.
LEMMA ChunkSize ==
  ASSUME NEW nodes \in SUBSET VMs, NEW i \in DOMAIN SpokesOf(nodes)
  PROVE  /\ SpokesOf(nodes)[i] \subseteq nodes
         /\ Cardinality(SpokesOf(nodes)[i]) <= NCCMaxInstancesPerSpoke
  <1> DEFINE n == Cardinality(nodes)
             m == NCCMaxInstancesPerSpoke
             slice == {j \in 1..n : InSlice(j, i, m)}
             whole == (i * m + 1)..((i + 1) * m)
             sorted == SortByName(nodes)
             f == [k \in slice |-> sorted[k]]
             chunk == SpokesOf(nodes)[i]
  <1>1. n \in Nat /\ m \in Nat /\ i \in Nat /\ i * m \in Nat /\ (i + 1) * m = i * m + m
    <2>1. n \in Nat /\ m \in Nat /\ i \in Nat
      BY NodesFinite, SpokeAssumption, OrderType, ChunksAre DEF SpokeIds
    <2> QED
      BY <2>1, NextSlice
  <1>2. chunk = {sorted[k] : k \in slice} /\ \A k \in slice : sorted[k] \in nodes
    BY ChunksAre, Sorted
  <1>3. slice \subseteq whole
    BY <1>1 DEF InSlice
  <1>4. IsFiniteSet(whole) /\ Cardinality(whole) <= m
    <2> DEFINE a == i * m + 1
               b == (i + 1) * m
    <2>1. a \in Int /\ b \in Int /\ b = a + m - 1
      BY <1>1
    <2> HIDE DEF a, b
    <2>2. IsFiniteSet(a..b) /\ Cardinality(a..b) = IF a > b THEN 0 ELSE b - a + 1
      BY <2>1, FS_Interval
    <2>3. Cardinality(a..b) <= m
      BY <1>1, <2>1, <2>2
    <2> QED
      BY <2>2, <2>3 DEF a, b
  <1> HIDE DEF chunk, slice, whole, sorted, m, n
  <1>5. IsFiniteSet(slice) /\ Cardinality(slice) <= Cardinality(whole)
    BY <1>3, <1>4, FS_Subset
  <1>6. f \in Surjection(slice, chunk)
    BY <1>2 DEF Surjection
  <1>7. IsFiniteSet(chunk) /\ Cardinality(chunk) <= Cardinality(slice)
    BY <1>5, <1>6, FS_Surjection
  <1>8. Cardinality(chunk) \in Nat /\ Cardinality(slice) \in Nat /\ Cardinality(whole) \in Nat
    BY <1>4, <1>5, <1>7, FS_CardinalityType
  <1>9. Cardinality(chunk) <= m
    BY <1>1, <1>4, <1>5, <1>7, <1>8
  <1> QED
    BY <1>2, <1>9 DEF chunk, m

\* Every node is in one chunk, and in no other.
LEMMA ChunksPartition ==
  ASSUME NEW nodes \in SUBSET VMs, NEW v \in nodes
  PROVE  \E i \in DOMAIN SpokesOf(nodes) :
            \A j \in DOMAIN SpokesOf(nodes) : v \in SpokesOf(nodes)[j] <=> j = i
  <1> DEFINE n == Cardinality(nodes)
             m == NCCMaxInstancesPerSpoke
             sorted == SortByName(nodes)
  <1>1. n \in Nat /\ m \in Nat \ {0} /\ n <= Len(NameOrder) /\ Len(NameOrder) \in Nat
    BY NodesFinite, SpokeAssumption, OrderType
  <1>2. PICK k \in 1..n : sorted[k] = v
    BY Sorted
  <1>3. \A j \in 1..n : sorted[j] = v => j = k
    BY <1>2, Sorted
  <1>4. PICK i \in Nat : InSlice(k, i, m) /\ i < k
    <2>1. k \in Nat \ {0}
      BY <1>1
    <2> QED
      BY <1>1, <2>1, SliceExists
  <1>5. i \in DOMAIN SpokesOf(nodes)
    <2>1. i * m \in Nat
      BY <1>1, NextSlice
    <2>2. i \in SpokeIds /\ i * m < n
      BY <1>1, <1>4, <2>1 DEF InSlice, SpokeIds
    <2> QED
      BY <2>2, ChunksAre
  <1> HIDE DEF n, m, sorted
  <1>6. ASSUME NEW j \in DOMAIN SpokesOf(nodes) PROVE v \in SpokesOf(nodes)[j] <=> j = i
    <2>1. SpokesOf(nodes)[j] = {sorted[x] : x \in {y \in 1..n : InSlice(y, j, m)}}
      BY ChunksAre DEF n, m, sorted
    <2>2. v \in SpokesOf(nodes)[j] <=> InSlice(k, j, m)
      BY <1>2, <1>3, <2>1
    <2>3. j \in Nat
      BY ChunksAre, OrderType DEF SpokeIds
    <2>4. InSlice(k, j, m) => j = i
      BY <1>1, <1>4, <2>3, SliceUnique
    <2> QED
      BY <1>4, <2>2, <2>4
  <1> QED
    BY <1>5, <1>6

\* The numbers of the chunks run from 0 without a gap.
LEMMA ChunksFollow ==
  ASSUME NEW nodes \in SUBSET VMs, NEW j \in DOMAIN SpokesOf(nodes),
         NEW i \in 0..Len(NameOrder), i \notin DOMAIN SpokesOf(nodes)
  PROVE  j < i
  <1> DEFINE n == Cardinality(nodes)
             m == NCCMaxInstancesPerSpoke
  <1>1. /\ n \in Nat /\ m \in Nat /\ Len(NameOrder) \in Nat /\ j \in SpokeIds /\ j * m < n
        /\ i \in SpokeIds => ~(i * m < n)
    BY NodesFinite, SpokeAssumption, OrderType, ChunksAre
  <1>2. j \in Nat /\ i \in Nat /\ j < Len(NameOrder)
    BY <1>1 DEF SpokeIds
  <1> SUFFICES ASSUME i <= j PROVE FALSE
    BY <1>2
  <1>3. i \in SpokeIds
    BY <1>1, <1>2 DEF SpokeIds
  <1>4. i * m <= j * m
    BY <1>1, <1>2, SlicesFollow
  <1>5. i * m \in Nat /\ j * m \in Nat
    BY <1>1, <1>2, NextSlice
  <1> HIDE DEF n, m
  <1> QED
    BY <1>1, <1>3, <1>4, <1>5

LEMMA NoChunks == DOMAIN SpokesOf({}) = {}
  <1>1. {} \in SUBSET VMs /\ Cardinality({}) = 0
    BY FS_EmptySet
  <1>2. ASSUME NEW i \in SpokeIds PROVE ~(i * NCCMaxInstancesPerSpoke < 0)
    <2>1. i \in Nat /\ NCCMaxInstancesPerSpoke \in Nat
      BY OrderType, SpokeAssumption DEF SpokeIds
    <2>2. i * NCCMaxInstancesPerSpoke \in Nat
      BY <2>1, NextSlice
    <2> QED
      BY <2>2
  <1> QED
    BY <1>1, <1>2, ChunksAre

-----------------------------------------------------------------------------
(* Types.                                                                  *)

Steps == {"idle", "nodes", "forward", "nested", "spokes", "prune", "read", "patch", "written",
          "done", "clear", "update", "clean", "skipped"}

LEMMA InterfacesFinite == Cardinality(Interfaces) \in Nat /\ Cardinality(Interfaces) >= 1
  BY BoundAssumption, FS_CardinalityType, FS_EmptySet

LEMMA ListFields ==
  ASSUME NEW s \in InterfaceLists
  PROVE  /\ \A k \in DOMAIN s : s[k] \in Interfaces
         /\ s # <<>> => 1 \in DOMAIN s /\ 1 \in 1..Cardinality(Interfaces)
  <1>1. PICK k \in 0..Cardinality(Interfaces) : s \in [1..k -> Interfaces]
    BY DEF InterfaceLists
  <1>2. k \in Nat /\ (s # <<>> => k # 0)
    BY <1>1, InterfacesFinite
  <1> QED
    BY <1>1, <1>2, InterfacesFinite

LEMMA EmptyList == <<>> \in InterfaceLists
  <1>1. 0 \in 0..Cardinality(Interfaces) /\ <<>> \in [1..0 -> Interfaces]
    BY InterfacesFinite
  <1>2. \A j, k \in DOMAIN <<>> : <<>>[j] = <<>>[k] => j = k
    OBVIOUS
  <1> QED
    BY <1>1, <1>2 DEF InterfaceLists

LEMMA IdleTyped ==
  /\ Idle \in Reconciles
  /\ Idle.step = "idle" /\ Idle.call = "ReconcileNodes" /\ Idle.nodes = {} /\ Idle.next = 0
  BY OrderType, EmptyList DEF Idle, Reconciles

LEMMA Fields ==
  ASSUME NEW w \in Reconciles
  PROVE  /\ w.step \in Steps /\ w.call \in {"ReconcileNodes", "Cleanup"}
         /\ w.nodes \in SUBSET VMs /\ w.todo \in SUBSET VMs /\ w.node \in VMs
         /\ w.next \in 0..Len(NameOrder) /\ w.stale \in SUBSET SpokeIds
         /\ w.interfaces \in InterfaceLists /\ w.siteToSite \in BOOLEAN /\ w.others \in SUBSET Foreign
  BY DEF Reconciles, Steps

LEMMA GotoFields ==
  ASSUME worker \in Reconciles, NEW s \in Steps, Goto(s)
  PROVE  /\ worker' \in Reconciles /\ worker'.step = s
         /\ worker'.call = worker.call /\ worker'.nodes = worker.nodes
         /\ worker'.next = worker.next /\ worker'.stale = worker.stale
         /\ worker'.interfaces = worker.interfaces /\ worker'.others = worker.others
  BY DEF Goto, Reconciles, Steps

LEMMA ChargeTyped ==
  ASSUME budget \in Nat, NEW vms, NEW out \in OutcomesFor(vms), Charge(out) PROVE budget' \in Nat
  BY DEF Outcomes, OutcomesFor, Charge

LEMMA OutcomesAre == \A out \in Outcomes : out \in OutcomesFor({})
  BY DEF OutcomesFor

LEMMA NamesFinite == IsFiniteSet(Names)
  <1> DEFINE f == [v \in VMs |-> Address[v]]
  <1>1. f \in Surjection(VMs, Addresses)
    BY DEF Surjection, Addresses
  <1>2. IsFiniteSet(Addresses)
    BY <1>1, VMsFinite, FS_Surjection
  <1>3. IsFiniteSet(1..Cardinality(Interfaces))
    BY InterfacesFinite, FS_Interval
  <1> QED
    BY <1>2, <1>3, FS_Product DEF Names

LEMMA CountTyped == ASSUME NEW p PROVE Count(p) \in Nat
  <1>1. {n \in Names : p[n] # Absent} \in SUBSET Names
    OBVIOUS
  <1>2. IsFiniteSet({n \in Names : p[n] # Absent})
    BY <1>1, NamesFinite, FS_Subset
  <1> QED
    BY <1>2, FS_CardinalityType DEF Count

LEMMA DesiredTyped ==
  ASSUME NEW nodes \in SUBSET VMs, NEW ifaces \in InterfaceLists
  PROVE  DesiredPeers(nodes, ifaces) \in Peers
  <1>1. ASSUME NEW n \in Names, n[2] \in DOMAIN ifaces, \E v \in nodes : Address[v] = n[1]
        PROVE  [vm |-> CHOOSE v \in nodes : Address[v] = n[1], interface |-> ifaces[n[2]]] \in PeerRecords
    <2>1. (CHOOSE v \in nodes : Address[v] = n[1]) \in VMs
      BY <1>1
    <2>2. ifaces[n[2]] \in Interfaces
      BY <1>1, ListFields
    <2> QED
      BY <2>1, <2>2 DEF PeerRecords
  <1> QED
    BY <1>1 DEF DesiredPeers, Peers

\* Without an interface nothing is wanted.
LEMMA DesiredNone == ASSUME NEW nodes PROVE DesiredPeers(nodes, <<>>) = NoPeers
  <1>1. \A k : k \notin DOMAIN <<>>
    OBVIOUS
  <1> QED
    BY <1>1 DEF DesiredPeers, NoPeers

LEMMA NoPeersTyped == NoPeers \in Peers
  BY DEF NoPeers, Peers

-----------------------------------------------------------------------------
(* Initial states, and the environment.                                    *)

\* No call in progress relies on anything.
LEMMA IdleKeeps ==
  ASSUME worker' = Idle
  PROVE  CallInv' /\ PeerInv' /\ SpokeInv' /\ OthersInv' /\ (OnInterfaces' => InterfaceInv')
  BY IdleTyped DEF CallInv, PeerInv, SpokeInv, OthersInv, InterfaceInv

LEMMA InitGInv == Init => GInv
  <1> SUFFICES ASSUME Init PROVE GInv
    OBVIOUS
  <1>1. TypeOK
    BY IdleTyped, NoPeersTyped, BoundAssumption, AtFirstAssumption DEF Init, TypeOK, RouterSets
  <1>2. CallInv /\ PeerInv /\ SpokeInv /\ OthersInv /\ InterfaceInv
    BY IdleTyped DEF Init, CallInv, PeerInv, SpokeInv, OthersInv, InterfaceInv, OnInterfaces, NoPeers
  <1>3. SizeInv
    BY DEF Init, SizeInv
  <1> QED
    BY <1>1, <1>2, <1>3 DEF GInv

\* A call may be given up at any point, whatever its last step did.
LEMMA GivingUpKeeps ==
  ASSUME GInv, worker' = Idle, UNCHANGED specVars, peers' \in Peers, others' \in SUBSET Foreign,
         interfaces' \in InterfaceLists, OnInterfaces',
         spokes' \in [SpokeIds -> Spokes \cup {Absent}], SizeInv',
         forwarding' \in SUBSET VMs, nested' \in SUBSET VMs, gauge' \in Nat,
         touched' \in SUBSET Foreign, budget' \in Nat
  PROVE  GInv'
  <1>1. TypeOK'
    BY IdleTyped DEF GInv, TypeOK, specVars
  <1> QED
    BY <1>1, IdleKeeps DEF GInv

LEMMA SpokesStay == ASSUME GInv, UNCHANGED spokes PROVE SizeInv'
  BY DEF GInv, SizeInv

\* The call fails and nothing else changed but instances, the metric or the budget.
LEMMA FailingKeeps ==
  ASSUME GInv, worker' = Idle, UNCHANGED <<routerVars, spokes, specVars>>,
         forwarding' \in SUBSET VMs, nested' \in SUBSET VMs, gauge' \in Nat,
         touched' \in SUBSET Foreign, budget' \in Nat
  PROVE  GInv'
  <1>1. SizeInv'
    BY SpokesStay
  <1> QED
    BY <1>1, GivingUpKeeps DEF GInv, TypeOK, InterfaceInv, OnInterfaces, routerVars

LEMMA EnvironmentKeeps == ASSUME GInv, Environment PROVE GInv'
  <1> USE DEF specVars, routerVars, vmVars, Event
  <1>1. ASSUME NEW p \in Foreign, OthersWrite(p) PROVE GInv'
    <2>1. UNCHANGED <<peers, interfaces, spokes, worker>>
      BY <1>1 DEF OthersWrite
    <2>2. /\ others' \in SUBSET Foreign /\ touched' = touched \cup {p}
          /\ \A q \in Foreign \ {p} : q \in others' <=> q \in others
      BY <1>1 DEF OthersWrite, GInv, TypeOK
    <2>3. TypeOK'
      BY <1>1, <2>1, <2>2 DEF OthersWrite, GInv, TypeOK
    <2>4. OthersInv'
      BY <2>1, <2>2 DEF GInv, OthersInv
    <2>5. CallInv' /\ InterfaceInv' /\ PeerInv'
      BY <2>1 DEF GInv, CallInv, InterfaceInv, OnInterfaces, PeerInv
    <2>6. SizeInv' /\ SpokeInv'
      BY <2>1 DEF GInv, SizeInv, SpokeInv, Wanted, Holds
    <2> QED
      BY <2>3, <2>4, <2>5, <2>6 DEF GInv
  <1>2. CASE InterfacesChange
    <2>1. UNCHANGED <<peers, others, touched, spokes, worker>> /\ OnInterfaces'
      BY <1>2 DEF InterfacesChange, OnInterfaces
    <2>2. TypeOK'
      BY <1>2, <2>1 DEF InterfacesChange, GInv, TypeOK
    <2>3. CallInv' /\ InterfaceInv' /\ PeerInv' /\ OthersInv'
      BY <2>1 DEF GInv, CallInv, InterfaceInv, OnInterfaces, PeerInv, OthersInv
    <2>4. SizeInv' /\ SpokeInv'
      BY <2>1 DEF GInv, SizeInv, SpokeInv, Wanted, Holds
    <2> QED
      BY <2>2, <2>3, <2>4 DEF GInv
  <1>3. CASE RoutersChange \/ SiteToSiteEdited \/ ConfigDeleted
    <2>1. UNCHANGED <<peers, others, touched, spokes, worker, interfaces>>
      BY <1>3 DEF RoutersChange, SiteToSiteEdited, ConfigDeleted
    <2>2. TypeOK'
      <3>1. CASE RoutersChange
        BY <3>1 DEF RoutersChange, RouterSets, GInv, TypeOK
      <3>2. CASE SiteToSiteEdited
        BY <3>2 DEF SiteToSiteEdited, GInv, TypeOK
      <3>3. CASE ConfigDeleted
        BY <3>3 DEF ConfigDeleted, GInv, TypeOK
      <3> QED
        BY <1>3, <3>1, <3>2, <3>3
    <2>3. CallInv' /\ InterfaceInv' /\ PeerInv' /\ OthersInv'
      BY <2>1 DEF GInv, CallInv, InterfaceInv, OnInterfaces, PeerInv, OthersInv
    <2>4. SizeInv' /\ SpokeInv'
      BY <2>1 DEF GInv, SizeInv, SpokeInv, Wanted, Holds
    <2> QED
      BY <2>2, <2>3, <2>4 DEF GInv
  <1>4. CASE Restart
    BY <1>4, FailingKeeps DEF Restart, GInv, TypeOK
  <1> QED
    BY <1>1, <1>2, <1>3, <1>4 DEF Environment

-----------------------------------------------------------------------------
(* ReconcileNodes and Cleanup.                                             *)

\* The call goes on and leaves the router and the spokes alone.
LEMMA GoingOn ==
  ASSUME GInv, worker' \in Reconciles, UNCHANGED <<routerVars, spokes, specVars>>,
         forwarding' \in SUBSET VMs, nested' \in SUBSET VMs, gauge' \in Nat,
         touched' \in SUBSET Foreign, budget' \in Nat
  PROVE  TypeOK' /\ SizeInv' /\ OnInterfaces'
  <1>1. TypeOK'
    BY DEF GInv, TypeOK, routerVars, specVars
  <1>2. OnInterfaces'
    BY DEF GInv, InterfaceInv, OnInterfaces, routerVars
  <1> QED
    BY <1>1, <1>2, SpokesStay

LEMMA DiscoverEndpointsKeeps == ASSUME GInv, DiscoverEndpoints PROVE GInv'
  <1>1. budget' \in Nat
    BY ChargeTyped, OutcomesAre DEF DiscoverEndpoints, GInv, TypeOK
  <1>2. /\ worker.step = "idle" /\ worker \in Reconciles /\ worker.nodes = {}
        /\ worker.call = "ReconcileNodes" /\ worker.next = 0
        /\ UNCHANGED <<routerVars, spokes, specVars, vmVars, gauge, touched>>
    BY DEF DiscoverEndpoints, GInv, TypeOK, CallInv
  <1>3. CASE worker' = Idle
    BY <1>1, <1>2, <1>3, FailingKeeps DEF GInv, TypeOK, vmVars
  <1>4. CASE \/ worker' = [Idle EXCEPT !.step = "nodes", !.siteToSite = siteToSite]
             \/ Goto("skipped")
    <2>1. /\ worker' \in Reconciles /\ worker'.step \in {"nodes", "skipped"} /\ worker'.nodes = {}
          /\ worker'.call = "ReconcileNodes" /\ worker'.next = 0
      <3>1. CASE worker' = [Idle EXCEPT !.step = "nodes", !.siteToSite = siteToSite]
        <4>1. siteToSite \in BOOLEAN
          BY DEF GInv, TypeOK
        <4>2. worker' \in Reconciles
          BY <3>1, <4>1, IdleTyped DEF Reconciles
        <4> QED
          BY <3>1, <4>2, IdleTyped DEF Idle
      <3>2. CASE Goto("skipped")
        BY <1>2, <3>2, GotoFields DEF Steps
      <3> QED
        BY <1>4, <3>1, <3>2
    <2>2. TypeOK' /\ SizeInv' /\ OnInterfaces'
      BY <1>1, <1>2, <2>1, GoingOn DEF GInv, TypeOK, vmVars
    <2> QED
      BY <2>1, <2>2 DEF GInv, CallInv, InterfaceInv, PeerInv, SpokeInv, OthersInv
  <1>5. CASE worker' = [Idle EXCEPT !.step = "clear", !.call = "Cleanup"]
    <2>1. worker' \in Reconciles
      BY <1>5, IdleTyped DEF Reconciles
    <2>2. /\ worker'.step = "clear" /\ worker'.nodes = {}
          /\ worker'.call = "Cleanup" /\ worker'.next = 0
      BY <1>5 DEF Idle
    <2>3. TypeOK' /\ SizeInv' /\ OnInterfaces'
      BY <1>1, <1>2, <2>1, GoingOn DEF GInv, TypeOK, vmVars
    <2> QED
      BY <2>2, <2>3 DEF GInv, CallInv, InterfaceInv, PeerInv, SpokeInv, OthersInv
  <1> QED
    BY <1>3, <1>4, <1>5 DEF DiscoverEndpoints, Fail

LEMMA ReconcileNodesKeeps == ASSUME GInv, ReconcileNodes PROVE GInv'
  <1>1. /\ worker.step = "nodes" /\ worker \in Reconciles /\ routers \in SUBSET VMs
        /\ worker.call = "ReconcileNodes" /\ worker.next = 0
        /\ UNCHANGED <<routerVars, spokes, specVars, vmVars, gauge, touched, budget>>
    BY DEF ReconcileNodes, GInv, TypeOK, CallInv
  <1>2. CASE worker' = Idle
    BY <1>1, <1>2, FailingKeeps DEF GInv, TypeOK, vmVars
  <1>3. CASE /\ routers # {}
             /\ worker' = [worker EXCEPT !.step = "forward", !.nodes = routers, !.todo = routers]
    <2>1. worker' \in Reconciles
      BY <1>1, <1>3 DEF Reconciles
    <2>2. /\ worker'.step = "forward" /\ worker'.nodes # {}
          /\ worker'.call = "ReconcileNodes" /\ worker'.next = 0
      BY <1>1, <1>3 DEF Reconciles
    <2>3. TypeOK' /\ SizeInv' /\ OnInterfaces'
      BY <1>1, <2>1, GoingOn DEF GInv, TypeOK, vmVars
    <2> QED
      BY <2>2, <2>3 DEF GInv, CallInv, InterfaceInv, PeerInv, SpokeInv, OthersInv
  <1> QED
    BY <1>2, <1>3 DEF ReconcileNodes

LEMMA EnsureKeeps ==
  ASSUME GInv, EnsureCanIPForward \/ EnsureNestedVirtualization PROVE GInv'
  <1>1. /\ worker.step \in {"forward", "nested"} /\ worker \in Reconciles
        /\ UNCHANGED <<routerVars, spokes, specVars, gauge, touched>>
    BY DEF EnsureCanIPForward, EnsureNestedVirtualization, GInv, TypeOK
  <1>2. /\ worker.call = "ReconcileNodes" /\ worker.next = 0 /\ worker.nodes # {}
    BY <1>1 DEF GInv, CallInv
  <1>3. budget' \in Nat
    BY ChargeTyped, OutcomesAre DEF EnsureCanIPForward, EnsureNestedVirtualization, GInv, TypeOK
  <1>4. forwarding' \in SUBSET VMs /\ nested' \in SUBSET VMs
    BY <1>1, Fields DEF EnsureCanIPForward, EnsureNestedVirtualization, GInv, TypeOK
  <1>5. CASE worker' = Idle
    BY <1>1, <1>3, <1>4, <1>5, FailingKeeps DEF GInv, TypeOK
  <1>6. CASE /\ worker' \in Reconciles /\ worker'.step \in {"forward", "nested"}
             /\ worker'.nodes = worker.nodes /\ worker'.call = worker.call
             /\ worker'.next = worker.next
    <2>1. TypeOK' /\ SizeInv' /\ OnInterfaces'
      BY <1>1, <1>3, <1>4, <1>6, GoingOn DEF GInv, TypeOK
    <2> QED
      BY <1>2, <1>6, <2>1 DEF GInv, CallInv, InterfaceInv, PeerInv, SpokeInv, OthersInv
  <1>7. CASE EnsureCanIPForward
    <2>1. PICK v \in worker.todo :
            \/ worker' = Idle
            \/ worker' = [worker EXCEPT !.step = "nested", !.node = v]
            \/ worker' = [worker EXCEPT !.todo = @ \ {v}]
      BY <1>7 DEF EnsureCanIPForward, EnsureInstance, Fail
    <2>2. v \in VMs /\ worker.step = "forward"
      BY <1>1, <1>7, Fields DEF EnsureCanIPForward
    <2>3. CASE worker' = [worker EXCEPT !.step = "nested", !.node = v]
      BY <1>1, <1>6, <2>2, <2>3 DEF Reconciles
    <2>4. CASE worker' = [worker EXCEPT !.todo = @ \ {v}]
      BY <1>1, <1>6, <2>2, <2>4 DEF Reconciles
    <2> QED
      BY <1>5, <2>1, <2>3, <2>4
  <1>8. CASE EnsureNestedVirtualization
    <2>1. \/ worker' = Idle
          \/ worker' = [worker EXCEPT !.step = "forward", !.todo = @ \ {worker.node}]
      BY <1>8 DEF EnsureNestedVirtualization, EnsureInstance, Fail
    <2>2. CASE worker' = [worker EXCEPT !.step = "forward", !.todo = @ \ {worker.node}]
      BY <1>1, <1>6, <2>2 DEF Reconciles
    <2> QED
      BY <1>5, <2>1, <2>2
  <1> QED
    BY <1>7, <1>8

LEMMA NodesForwardKeeps == ASSUME GInv, NodesForward PROVE GInv'
  <1>1. /\ worker.step = "forward" /\ worker \in Reconciles
        /\ UNCHANGED <<routerVars, spokes, specVars, vmVars, gauge, touched, budget>>
    BY DEF NodesForward, GInv, TypeOK
  <1>2. worker.call = "ReconcileNodes" /\ worker.next = 0 /\ worker.nodes # {}
    BY <1>1 DEF GInv, CallInv
  <1>3. /\ worker' \in Reconciles /\ worker'.step = "spokes" /\ worker'.nodes # {}
        /\ worker'.call = "ReconcileNodes" /\ worker'.next = 0
    BY <1>1, <1>2, GotoFields DEF NodesForward, Steps
  <1>4. TypeOK' /\ SizeInv' /\ OnInterfaces'
    BY <1>1, <1>3, GoingOn DEF GInv, TypeOK, vmVars
  <1>5. \A i \in Wanted' : ~(i < 0)
    <2>1. worker'.nodes \in SUBSET VMs
      BY <1>3, Fields
    <2>2. Wanted' = DOMAIN SpokesOf(worker'.nodes)
      BY DEF Wanted
    <2>3. Wanted' \subseteq SpokeIds
      BY <2>1, <2>2, ChunksAre
    <2> QED
      BY <2>3, OrderType DEF SpokeIds
  <1>6. SpokeInv'
    BY <1>3, <1>5 DEF SpokeInv
  <1> QED
    BY <1>3, <1>4, <1>6 DEF GInv, CallInv, InterfaceInv, PeerInv, OthersInv

\* One spoke is written: the others stay.
LEMMA PutSpoke ==
  ASSUME GInv, NEW i \in SpokeIds, NEW s \in Spokes \cup {Absent},
         s # Absent => Cardinality(s.vms) <= NCCMaxInstancesPerSpoke,
         spokes' = spokes \/ spokes' = [spokes EXCEPT ![i] = s]
  PROVE  /\ spokes' \in [SpokeIds -> Spokes \cup {Absent}] /\ SizeInv'
         /\ \A j \in SpokeIds \ {i} : spokes'[j] = spokes[j]
  <1>1. spokes \in [SpokeIds -> Spokes \cup {Absent}]
    BY DEF GInv, TypeOK
  <1>2. /\ spokes' \in [SpokeIds -> Spokes \cup {Absent}]
        /\ \A j \in SpokeIds \ {i} : spokes'[j] = spokes[j]
        /\ spokes'[i] = spokes[i] \/ spokes'[i] = s
    BY <1>1
  <1>3. \A j \in SpokeIds : spokes'[j] # Absent => Cardinality(spokes'[j].vms) <= NCCMaxInstancesPerSpoke
    BY <1>2 DEF GInv, SizeInv
  <1> QED
    BY <1>2, <1>3 DEF SizeInv

LEMMA ReconcileSpokeKeeps == ASSUME GInv, ReconcileSpoke PROVE GInv'
  <1> DEFINE i == worker.next
             nodes == worker.nodes
             s == [vms |-> SpokesOf(nodes)[i], siteToSite |-> worker.siteToSite]
  <1>1. /\ worker.step = "spokes" /\ worker \in Reconciles /\ i \in DOMAIN SpokesOf(nodes)
        /\ UNCHANGED <<routerVars, specVars, vmVars, gauge, touched>>
        /\ nodes \in SUBSET VMs /\ worker.siteToSite \in BOOLEAN
    BY Fields DEF ReconcileSpoke, GInv, TypeOK
  <1>2. PICK out \in OutcomesFor(SpokesOf(nodes)[i]) :
          /\ Charge(out)
          /\ spokes' = IF ~Applied(out) THEN spokes ELSE [spokes EXCEPT ![i] = s]
          /\ \/ out = "ok" /\ worker' = [worker EXCEPT !.next = @ + 1]
             \/ worker' = Idle
    BY DEF ReconcileSpoke, Fail
  <1>3. budget' \in Nat
    BY <1>2, ChargeTyped, OutcomesAre DEF GInv, TypeOK
  <1>4. /\ i \in SpokeIds /\ s \in Spokes /\ s # Absent /\ s.vms = SpokesOf(nodes)[i]
        /\ Cardinality(s.vms) <= NCCMaxInstancesPerSpoke
    <2>1. i \in SpokeIds
      BY <1>1, ChunksAre
    <2>2. /\ SpokesOf(nodes)[i] \subseteq nodes
          /\ Cardinality(SpokesOf(nodes)[i]) <= NCCMaxInstancesPerSpoke
      BY <1>1, ChunkSize
    <2>3. s \in Spokes
      BY <1>1, <2>2 DEF Spokes, GInv, TypeOK
    <2> QED
      BY <2>1, <2>2, <2>3, AbsentAssumption
  <1>5. /\ spokes' \in [SpokeIds -> Spokes \cup {Absent}] /\ SizeInv'
        /\ \A j \in SpokeIds \ {i} : spokes'[j] = spokes[j]
    <2> HIDE DEF s, i
    <2> QED
      BY <1>2, <1>4, PutSpoke
  <1>6. CASE worker' = Idle
    BY <1>1, <1>3, <1>5, <1>6, GivingUpKeeps DEF GInv, TypeOK, InterfaceInv, OnInterfaces, vmVars, routerVars
  <1>7. CASE out = "ok" /\ worker' = [worker EXCEPT !.next = @ + 1]
    <2>1. i + 1 \in 0..Len(NameOrder) /\ i \in Nat
      BY <1>4, OrderType DEF SpokeIds
    <2>2. worker' \in Reconciles
      BY <1>1, <1>7, <2>1 DEF Reconciles
    <2>3. /\ worker'.step = "spokes" /\ worker'.next = i + 1 /\ worker'.nodes = nodes
          /\ worker'.call = worker.call
      BY <1>1, <1>7 DEF Reconciles
    <2>4. spokes' = [spokes EXCEPT ![i] = s]
      BY <1>2, <1>7 DEF Applied
    <2>5. spokes'[i] = s
      BY <1>4, <2>4 DEF GInv, TypeOK
    <2>6. ASSUME NEW j \in Wanted', j < i + 1 PROVE Holds(j)'
      <3>1. Wanted' = Wanted /\ j \in SpokeIds
        BY <1>1, <2>3, ChunksAre DEF Wanted
      <3>2. CASE j = i
        BY <1>4, <2>3, <2>5, <3>2 DEF Holds
      <3>3. CASE j < i
        <4>1. Holds(j)
          BY <1>1, <3>1, <3>3 DEF GInv, SpokeInv
        <4>2. spokes'[j] = spokes[j]
          BY <1>5, <2>1, <3>1, <3>3, OrderType DEF SpokeIds
        <4> QED
          BY <2>3, <4>1, <4>2 DEF Holds
      <3>4. j \in Nat
        BY <3>1, OrderType DEF SpokeIds
      <3>5. j = i \/ j < i
        BY <2>1, <2>6, <3>4
      <3> QED
        BY <3>2, <3>3, <3>5
    <2>7. SpokeInv'
      BY <2>3, <2>6 DEF SpokeInv
    <2>8. TypeOK'
      BY <1>1, <1>3, <1>5, <2>2 DEF GInv, TypeOK, routerVars, specVars, vmVars
    <2>9. peers' = peers /\ interfaces' = interfaces
      BY <1>1 DEF routerVars
    <2>10. CallInv'
      BY <1>1, <2>3 DEF GInv, CallInv
    <2>11. InterfaceInv' /\ PeerInv' /\ OthersInv'
      BY <1>1, <2>3, <2>9 DEF GInv, InterfaceInv, OnInterfaces, PeerInv, OthersInv
    <2> QED
      BY <1>5, <2>7, <2>8, <2>10, <2>11 DEF GInv
  <1> QED
    BY <1>2, <1>6, <1>7

LEMMA ListSpokesKeeps == ASSUME GInv, ListSpokes PROVE GInv'
  <1> DEFINE stale == {i \in SpokeIds \ Wanted : spokes[i] # Absent}
  <1>1. /\ worker.step = "spokes" /\ worker \in Reconciles /\ worker.next \notin Wanted
        /\ UNCHANGED <<routerVars, spokes, specVars, vmVars, gauge, touched>>
        /\ worker.nodes \in SUBSET VMs /\ worker.next \in 0..Len(NameOrder)
    BY Fields DEF ListSpokes, GInv, TypeOK, Wanted
  <1>2. /\ budget' \in Nat
        /\ worker' = Idle \/ worker' = [worker EXCEPT !.step = "prune", !.stale = stale]
    BY ChargeTyped, OutcomesAre DEF ListSpokes, Wanted, Fail, GInv, TypeOK
  <1>3. CASE worker' = Idle
    BY <1>1, <1>2, <1>3, FailingKeeps DEF GInv, TypeOK, vmVars
  <1>4. CASE worker' = [worker EXCEPT !.step = "prune", !.stale = stale]
    <2>1. stale \subseteq SpokeIds
      OBVIOUS
    <2>2. \A i \in SpokeIds \ Wanted : spokes[i] = Absent \/ i \in stale
      OBVIOUS
    <2>3. \A i \in Wanted : i \notin stale
      OBVIOUS
    <2> HIDE DEF stale
    <2>4. worker' \in Reconciles
      BY <1>1, <1>4, <2>1 DEF Reconciles
    <2>5. /\ worker'.step = "prune" /\ worker'.stale = stale /\ worker'.nodes = worker.nodes
          /\ worker'.call = worker.call
      BY <1>1, <1>4 DEF Reconciles
    <2>6. TypeOK' /\ SizeInv' /\ OnInterfaces'
      BY <1>1, <1>2, <2>4, GoingOn DEF GInv, TypeOK, vmVars
    <2>7. Wanted' = Wanted /\ \A i : Holds(i)' <=> Holds(i)
      BY <1>1, <2>5 DEF Wanted, Holds
    <2>8. ASSUME NEW i \in Wanted PROVE Holds(i)
      <3>1. i < worker.next
        BY <1>1, ChunksFollow DEF Wanted
      <3> QED
        BY <1>1, <3>1 DEF GInv, SpokeInv
    <2>9. SpokeInv'
      BY <1>1, <2>2, <2>3, <2>5, <2>7, <2>8 DEF SpokeInv
    <2>10. peers' = peers
      BY <1>1 DEF routerVars
    <2>11. CallInv' /\ InterfaceInv' /\ PeerInv' /\ OthersInv'
      BY <1>1, <2>5, <2>6, <2>10 DEF GInv, CallInv, InterfaceInv, PeerInv, OthersInv
    <2> QED
      BY <2>6, <2>9, <2>11 DEF GInv
  <1> QED
    BY <1>2, <1>3, <1>4

LEMMA DeleteSpokeKeeps == ASSUME GInv, DeleteSpoke PROVE GInv'
  <1>1. /\ worker.step = "prune" /\ worker \in Reconciles
        /\ UNCHANGED <<routerVars, specVars, vmVars, gauge, touched>>
    BY DEF DeleteSpoke, GInv, TypeOK
  <1>2. PICK i \in worker.stale, out \in Outcomes :
          /\ Charge(out)
          /\ spokes' = IF Applied(out) THEN [spokes EXCEPT ![i] = Absent] ELSE spokes
          /\ IF out = "ok" THEN worker' = [worker EXCEPT !.stale = @ \ {i}] ELSE worker' = Idle
    BY DEF DeleteSpoke, Fail
  <1>3. budget' \in Nat /\ i \in SpokeIds
    BY <1>1, <1>2, Fields, ChargeTyped, OutcomesAre DEF GInv, TypeOK
  <1>4. /\ spokes' \in [SpokeIds -> Spokes \cup {Absent}] /\ SizeInv'
        /\ \A j \in SpokeIds \ {i} : spokes'[j] = spokes[j]
    BY <1>2, <1>3, PutSpoke
  <1>5. CASE worker' = Idle
    BY <1>1, <1>3, <1>4, <1>5, GivingUpKeeps DEF GInv, TypeOK, InterfaceInv, OnInterfaces, vmVars, routerVars
  <1>6. CASE out = "ok" /\ worker' = [worker EXCEPT !.stale = @ \ {i}]
    <2>1. worker' \in Reconciles
      BY <1>1, <1>6 DEF Reconciles
    <2>2. /\ worker'.step = "prune" /\ worker'.stale = worker.stale \ {i}
          /\ worker'.nodes = worker.nodes /\ worker'.call = worker.call
      BY <1>1, <1>6 DEF Reconciles
    <2>3. spokes'[i] = Absent
      BY <1>2, <1>3, <1>6 DEF Applied, GInv, TypeOK
    <2>4. Wanted' = Wanted /\ Wanted \subseteq SpokeIds
      BY <1>1, <2>2, Fields, ChunksAre DEF Wanted
    <2>5. ASSUME NEW j \in Wanted PROVE Holds(j)' /\ j \notin worker'.stale
      <3>1. Holds(j) /\ j \notin worker.stale
        BY <1>1 DEF GInv, SpokeInv
      <3>2. spokes'[j] = spokes[j]
        BY <1>2, <1>4, <2>4, <3>1
      <3> QED
        BY <2>2, <3>1, <3>2 DEF Holds
    <2>6. ASSUME NEW j \in SpokeIds \ Wanted PROVE spokes'[j] = Absent \/ j \in worker'.stale
      BY <1>1, <1>4, <2>2, <2>3 DEF GInv, SpokeInv
    <2>7. SpokeInv'
      BY <2>2, <2>4, <2>5, <2>6 DEF SpokeInv
    <2>8. TypeOK'
      BY <1>1, <1>3, <1>4, <2>1 DEF GInv, TypeOK, routerVars, specVars, vmVars
    <2>9. peers' = peers /\ interfaces' = interfaces
      BY <1>1 DEF routerVars
    <2>10. CallInv' /\ InterfaceInv' /\ PeerInv' /\ OthersInv'
      BY <1>1, <2>2, <2>9 DEF GInv, CallInv, InterfaceInv, OnInterfaces, PeerInv, OthersInv
    <2> QED
      BY <1>4, <2>7, <2>8, <2>10 DEF GInv
  <1> QED
    BY <1>2, <1>5, <1>6

\* The spokes and the nodes of the call stay.
LEMMA SpokesKept ==
  ASSUME GInv, UNCHANGED spokes, worker'.nodes = worker.nodes,
         \/ worker.step = "prune" /\ worker.stale = {}
         \/ worker.step \in {"read", "patch", "written", "done"},
         worker'.step \in {"read", "patch", "written", "done", "clean"}
  PROVE  SpokeInv'
  <1>1. Wanted' = Wanted /\ \A i : Holds(i)' <=> Holds(i)
    BY DEF Wanted, Holds
  <1>2. /\ \A i \in Wanted : Holds(i)
        /\ \A i \in SpokeIds \ Wanted : spokes[i] = Absent
    BY DEF GInv, SpokeInv
  <1> QED
    BY <1>1, <1>2 DEF SpokeInv

LEMMA GetRouterTopologyKeeps == ASSUME GInv, GetRouterTopology PROVE GInv'
  <1>1. /\ worker.step = "prune" /\ worker.stale = {} /\ worker \in Reconciles
        /\ worker.call = "ReconcileNodes" /\ interfaces \in InterfaceLists /\ peers \in Peers
        /\ UNCHANGED <<routerVars, spokes, specVars, vmVars, gauge, touched>>
    BY DEF GetRouterTopology, GInv, TypeOK, InterfaceInv
  <1>2. /\ budget' \in Nat
        /\ \/ worker' = Idle
           \/ worker' = [worker EXCEPT !.step = "read", !.interfaces = interfaces]
    BY ChargeTyped, OutcomesAre DEF GetRouterTopology, Fail, GInv, TypeOK
  <1>3. CASE worker' = Idle
    BY <1>1, <1>2, <1>3, FailingKeeps DEF GInv, TypeOK, vmVars
  <1>4. CASE worker' = [worker EXCEPT !.step = "read", !.interfaces = interfaces]
    <2>1. worker' \in Reconciles
      BY <1>1, <1>4 DEF Reconciles
    <2>2. /\ worker'.step = "read" /\ worker'.interfaces = interfaces
          /\ worker'.nodes = worker.nodes /\ worker'.call = "ReconcileNodes"
      BY <1>1, <1>4 DEF Reconciles
    <2>3. TypeOK' /\ SizeInv' /\ OnInterfaces'
      BY <1>1, <1>2, <2>1, GoingOn DEF GInv, TypeOK, vmVars
    <2>4. SpokeInv'
      BY <1>1, <2>2, SpokesKept
    <2>5. CallInv'
      BY <1>1, <2>2 DEF GInv, CallInv
    <2>6. interfaces = <<>> => peers = NoPeers
      BY <1>1 DEF GInv, InterfaceInv, OnInterfaces, Listed, Peers, NoPeers
    <2>7. InterfaceInv' /\ PeerInv' /\ OthersInv'
      BY <1>1, <2>2, <2>3, <2>6 DEF InterfaceInv, PeerInv, OthersInv, routerVars
    <2> QED
      BY <2>3, <2>4, <2>5, <2>7 DEF GInv
  <1> QED
    BY <1>2, <1>3, <1>4

LEMMA ReadRouterKeeps == ASSUME GInv, ReadRouter PROVE GInv'
  <1>1. /\ worker.step = "read" /\ worker \in Reconciles /\ others \in SUBSET Foreign
        /\ worker.call = "ReconcileNodes" /\ touched' = {}
        /\ UNCHANGED <<routerVars, spokes, specVars, vmVars, gauge>>
    BY DEF ReadRouter, GInv, TypeOK, InterfaceInv, CallInv
  <1>2. /\ budget' \in Nat
        /\ \/ worker' = Idle
           \/ PeersEqual(DesiredPeers(worker.nodes, worker.interfaces)) /\ Goto("written")
           \/ worker' = [worker EXCEPT !.step = "patch", !.others = others]
    BY ChargeTyped, OutcomesAre DEF ReadRouter, Fail, GInv, TypeOK
  <1>3. CASE worker' = Idle
    BY <1>1, <1>2, <1>3, FailingKeeps DEF GInv, TypeOK, vmVars
  <1>4. CASE PeersEqual(DesiredPeers(worker.nodes, worker.interfaces)) /\ Goto("written")
    <2>1. /\ worker' \in Reconciles /\ worker'.step = "written"
          /\ worker'.nodes = worker.nodes /\ worker'.call = "ReconcileNodes"
          /\ worker'.interfaces = worker.interfaces
      BY <1>1, <1>4, GotoFields DEF Steps
    <2>2. TypeOK' /\ SizeInv' /\ OnInterfaces'
      BY <1>1, <1>2, <2>1, GoingOn DEF GInv, TypeOK, vmVars
    <2>3. SpokeInv'
      BY <1>1, <2>1, SpokesKept
    <2>4. CallInv'
      BY <1>1, <2>1 DEF GInv, CallInv
    <2>5. peers' = peers /\ peers = DesiredPeers(worker.nodes, worker.interfaces)
      BY <1>1, <1>4 DEF routerVars, PeersEqual
    <2>6. PeerInv'
      BY <2>1, <2>5 DEF PeerInv
    <2>7. InterfaceInv' /\ OthersInv'
      BY <1>1, <2>1, <2>2 DEF InterfaceInv, OthersInv
    <2> QED
      BY <2>2, <2>3, <2>4, <2>6, <2>7 DEF GInv
  <1>5. CASE worker' = [worker EXCEPT !.step = "patch", !.others = others]
    <2>1. worker' \in Reconciles
      BY <1>1, <1>5 DEF Reconciles
    <2>2. /\ worker'.step = "patch" /\ worker'.others = others
          /\ worker'.nodes = worker.nodes /\ worker'.call = "ReconcileNodes"
          /\ worker'.interfaces = worker.interfaces
      BY <1>1, <1>5 DEF Reconciles
    <2>3. TypeOK' /\ SizeInv' /\ OnInterfaces'
      BY <1>1, <1>2, <2>1, GoingOn DEF GInv, TypeOK, vmVars
    <2>4. SpokeInv'
      BY <1>1, <2>2, SpokesKept
    <2>5. CallInv'
      BY <1>1, <2>2 DEF GInv, CallInv
    <2>6. InterfaceInv' /\ PeerInv' /\ OthersInv'
      BY <1>1, <2>2, <2>3 DEF GInv, InterfaceInv, PeerInv, OthersInv, routerVars
    <2> QED
      BY <2>3, <2>4, <2>5, <2>6 DEF GInv
  <1> QED
    BY <1>2, <1>3, <1>4, <1>5

LEMMA PatchRouterKeeps == ASSUME GInv, PatchRouter PROVE GInv'
  <1> DEFINE want == DesiredPeers(worker.nodes, worker.interfaces)
  <1>1. /\ worker.step = "patch" /\ worker \in Reconciles
        /\ worker.call = "ReconcileNodes"
        /\ UNCHANGED <<interfaces, spokes, specVars, vmVars, gauge, touched>>
    BY DEF PatchRouter, GInv, TypeOK, InterfaceInv, CallInv
  <1>2. /\ budget' \in Nat
        /\ \/ peers' = want /\ others' = worker.others /\ Accepts(want)
           \/ UNCHANGED <<peers, others>>
        /\ \/ worker' = Idle
           \/ Goto("written") /\ peers' = want
    BY ChargeTyped, OutcomesAre DEF PatchRouter, Fail, Applied, GInv, TypeOK
  <1>3. want \in Peers /\ worker.others \in SUBSET Foreign
    BY <1>1, Fields, DesiredTyped
  <1> HIDE DEF want
  <1>4. peers' \in Peers /\ others' \in SUBSET Foreign /\ SizeInv' /\ OnInterfaces'
    <2>1. OnInterfaces'
      BY <1>1, <1>2 DEF GInv, InterfaceInv, OnInterfaces, Accepts
    <2> QED
      BY <1>1, <1>2, <1>3, <2>1, SpokesStay DEF GInv, TypeOK
  <1>5. CASE worker' = Idle
    BY <1>1, <1>2, <1>4, <1>5, GivingUpKeeps DEF GInv, TypeOK, vmVars
  <1>6. CASE Goto("written") /\ peers' = want
    <2>1. /\ worker' \in Reconciles /\ worker'.step = "written"
          /\ worker'.nodes = worker.nodes /\ worker'.call = "ReconcileNodes"
          /\ worker'.interfaces = worker.interfaces
      BY <1>1, <1>6, GotoFields DEF Steps
    <2>2. TypeOK'
      BY <1>1, <1>2, <1>4, <2>1 DEF GInv, TypeOK, specVars, vmVars
    <2>3. SpokeInv'
      BY <1>1, <2>1, SpokesKept
    <2>4. CallInv'
      BY <1>1, <2>1 DEF GInv, CallInv
    <2>5. PeerInv'
      BY <1>6, <2>1 DEF PeerInv, want
    <2>6. InterfaceInv' /\ OthersInv'
      BY <1>4, <2>1 DEF InterfaceInv, OthersInv
    <2> QED
      BY <1>4, <2>2, <2>3, <2>4, <2>5, <2>6 DEF GInv
  <1> QED
    BY <1>2, <1>5, <1>6

LEMMA SetCloudPeersManagedKeeps == ASSUME GInv, SetCloudPeersManaged PROVE GInv'
  <1>1. /\ worker.step = "written" /\ worker \in Reconciles
        /\ worker.call = "ReconcileNodes"
        /\ UNCHANGED <<routerVars, spokes, specVars, vmVars, touched, budget>>
    BY DEF SetCloudPeersManaged, GInv, TypeOK, InterfaceInv, CallInv
  <1>2. gauge' \in Nat
    BY CountTyped DEF SetCloudPeersManaged
  <1>3. /\ worker' \in Reconciles /\ worker'.step = "done"
        /\ worker'.nodes = worker.nodes /\ worker'.call = "ReconcileNodes"
        /\ worker'.interfaces = worker.interfaces
    BY <1>1, GotoFields DEF SetCloudPeersManaged, Steps
  <1>4. TypeOK' /\ SizeInv' /\ OnInterfaces'
    BY <1>1, <1>2, <1>3, GoingOn DEF GInv, TypeOK, vmVars
  <1>5. SpokeInv'
    BY <1>1, <1>3, SpokesKept
  <1>6. CallInv'
    BY <1>1, <1>3 DEF GInv, CallInv
  <1>7. PeerInv'
    BY <1>1, <1>3 DEF GInv, PeerInv, routerVars
  <1>8. InterfaceInv' /\ OthersInv'
    BY <1>1, <1>3, <1>4 DEF InterfaceInv, OthersInv
  <1> QED
    BY <1>4, <1>5, <1>6, <1>7, <1>8 DEF GInv

LEMMA ReturnKeeps == ASSUME GInv, Return PROVE GInv'
  BY FailingKeeps DEF Return, GInv, TypeOK, vmVars

\* Cleanup has the peers off the router and goes on to the spokes.
LEMMA ClearedKeeps ==
  ASSUME GInv, worker.step \in {"clear", "update"}, Goto("spokes"), peers' = NoPeers,
         SizeInv', OnInterfaces', TypeOK'
  PROVE  GInv'
  <1>1. worker \in Reconciles /\ worker.call = "Cleanup" /\ worker.nodes = {}
    BY DEF GInv, TypeOK, CallInv
  <1>2. worker'.step = "spokes" /\ worker'.nodes = {} /\ worker'.call = "Cleanup"
    BY <1>1, GotoFields DEF Steps
  <1>3. Wanted' = {}
    BY <1>2, NoChunks DEF Wanted
  <1>4. SpokeInv'
    BY <1>2, <1>3 DEF SpokeInv
  <1>5. CallInv' /\ PeerInv' /\ InterfaceInv' /\ OthersInv'
    BY <1>2 DEF CallInv, PeerInv, InterfaceInv, OthersInv
  <1> QED
    BY <1>4, <1>5 DEF GInv

LEMMA ReadRouterToClearKeeps == ASSUME GInv, ReadRouterToClear PROVE GInv'
  <1>1. /\ worker.step = "clear" /\ worker \in Reconciles /\ others \in SUBSET Foreign
        /\ interfaces \in InterfaceLists /\ touched' = {}
        /\ worker.call = "Cleanup" /\ worker.next = 0 /\ worker.nodes = {}
        /\ UNCHANGED <<routerVars, spokes, specVars, vmVars>>
    BY DEF ReadRouterToClear, GInv, TypeOK, InterfaceInv, CallInv
  <1>2. /\ budget' \in Nat /\ gauge' \in Nat
        /\ \/ worker' = Idle
           \/ peers = NoPeers /\ Goto("spokes")
           \/ worker' = [worker EXCEPT !.step = "update", !.others = others,
                                       !.interfaces = interfaces]
    BY ChargeTyped, OutcomesAre DEF ReadRouterToClear, Fail, GInv, TypeOK
  <1>3. CASE worker' = Idle
    BY <1>1, <1>2, <1>3, FailingKeeps DEF GInv, TypeOK, vmVars
  <1>4. CASE peers = NoPeers /\ Goto("spokes")
    <2>1. worker' \in Reconciles
      BY <1>1, <1>4, GotoFields DEF Steps
    <2>2. TypeOK' /\ SizeInv' /\ OnInterfaces'
      BY <1>1, <1>2, <2>1, GoingOn DEF GInv, TypeOK, vmVars
    <2> QED
      BY <1>1, <1>4, <2>2, ClearedKeeps DEF routerVars
  <1>5. CASE worker' = [worker EXCEPT !.step = "update", !.others = others,
                                      !.interfaces = interfaces]
    <2>1. worker' \in Reconciles
      BY <1>1, <1>5 DEF Reconciles
    <2>2. /\ worker'.step = "update" /\ worker'.others = others
          /\ worker'.interfaces = interfaces
          /\ worker'.nodes = {} /\ worker'.call = "Cleanup" /\ worker'.next = 0
      BY <1>1, <1>5 DEF Reconciles
    <2>3. TypeOK' /\ SizeInv' /\ OnInterfaces'
      BY <1>1, <1>2, <2>1, GoingOn DEF GInv, TypeOK, vmVars
    <2>4. CallInv'
      BY <2>2 DEF CallInv
    <2>5. InterfaceInv' /\ PeerInv' /\ OthersInv' /\ SpokeInv'
      BY <1>1, <2>2, <2>3 DEF InterfaceInv, PeerInv, OthersInv, SpokeInv, routerVars
    <2> QED
      BY <2>3, <2>4, <2>5 DEF GInv
  <1> QED
    BY <1>2, <1>3, <1>4, <1>5

LEMMA UpdateRouterKeeps == ASSUME GInv, UpdateRouter PROVE GInv'
  <1>1. /\ worker.step = "update" /\ worker \in Reconciles
        /\ UNCHANGED <<spokes, specVars, vmVars, touched>>
    BY DEF UpdateRouter, GInv, TypeOK
  <1>2. /\ budget' \in Nat /\ gauge' \in Nat
        /\ \/ peers' = NoPeers /\ others' = worker.others /\ interfaces' = worker.interfaces
           \/ UNCHANGED routerVars
        /\ \/ worker' = Idle
           \/ peers' = NoPeers /\ Goto("spokes")
    BY ChargeTyped, OutcomesAre DEF UpdateRouter, Fail, Applied, GInv, TypeOK
  <1>3. /\ peers' \in Peers /\ others' \in SUBSET Foreign
        /\ interfaces' \in InterfaceLists /\ OnInterfaces'
    <2>1. OnInterfaces'
      BY <1>2 DEF GInv, InterfaceInv, OnInterfaces, NoPeers, routerVars
    <2> QED
      BY <1>1, <1>2, <2>1, Fields, NoPeersTyped DEF GInv, TypeOK, routerVars
  <1>4. SizeInv'
    BY <1>1, SpokesStay
  <1>5. CASE worker' = Idle
    BY <1>1, <1>2, <1>3, <1>4, <1>5, GivingUpKeeps DEF GInv, TypeOK, vmVars
  <1>6. CASE peers' = NoPeers /\ Goto("spokes")
    <2>1. worker' \in Reconciles
      BY <1>1, <1>6, GotoFields DEF Steps
    <2>2. TypeOK'
      BY <1>1, <1>2, <1>3, <2>1 DEF GInv, TypeOK, specVars, vmVars
    <2> QED
      BY <1>1, <1>3, <1>4, <1>6, <2>2, ClearedKeeps
  <1> QED
    BY <1>2, <1>5, <1>6

LEMMA CleanedKeeps == ASSUME GInv, Cleaned PROVE GInv'
  <1>1. /\ worker.step = "prune" /\ worker.stale = {} /\ worker.call = "Cleanup"
        /\ worker \in Reconciles
        /\ UNCHANGED <<routerVars, spokes, specVars, vmVars, gauge, touched, budget>>
    BY DEF Cleaned, GInv, TypeOK
  <1>2. /\ worker' \in Reconciles /\ worker'.step = "clean"
        /\ worker'.nodes = worker.nodes /\ worker'.call = "Cleanup"
    BY <1>1, GotoFields DEF Cleaned, Steps
  <1>3. TypeOK' /\ SizeInv' /\ OnInterfaces'
    BY <1>1, <1>2, GoingOn DEF GInv, TypeOK, vmVars
  <1>4. SpokeInv'
    BY <1>1, <1>2, SpokesKept
  <1>5. CallInv' /\ PeerInv'
    BY <1>1, <1>2 DEF GInv, CallInv, PeerInv, routerVars
  <1>6. InterfaceInv' /\ OthersInv'
    BY <1>2, <1>3 DEF InterfaceInv, OthersInv
  <1> QED
    BY <1>3, <1>4, <1>5, <1>6 DEF GInv

LEMMA NextGInv == GInv /\ [Next]_vars => GInv'
  <1> SUFFICES ASSUME GInv, [Next]_vars PROVE GInv'
    OBVIOUS
  <1>1. CASE Environment
    BY <1>1, EnvironmentKeeps
  <1>2. CASE Operator
    BY <1>2, DiscoverEndpointsKeeps, ReconcileNodesKeeps, EnsureKeeps, NodesForwardKeeps,
       ReconcileSpokeKeeps, ListSpokesKeeps, DeleteSpokeKeeps, GetRouterTopologyKeeps,
       ReadRouterKeeps, PatchRouterKeeps, SetCloudPeersManagedKeeps, ReturnKeeps,
       ReadRouterToClearKeeps, UpdateRouterKeeps, CleanedKeeps DEF Operator
  <1>3. CASE UNCHANGED vars
    <2>1. UNCHANGED <<peers, others, interfaces, spokes, touched, worker>>
      BY <1>3 DEF vars, routerVars
    <2>2. TypeOK'
      BY <1>3 DEF vars, routerVars, specVars, vmVars, GInv, TypeOK
    <2>3. CallInv' /\ InterfaceInv' /\ PeerInv' /\ OthersInv'
      BY <2>1 DEF GInv, CallInv, InterfaceInv, OnInterfaces, PeerInv, OthersInv
    <2>4. SizeInv' /\ SpokeInv'
      BY <2>1 DEF GInv, SizeInv, SpokeInv, Wanted, Holds
    <2> QED
      BY <2>2, <2>3, <2>4 DEF GInv
  <1> QED
    BY <1>1, <1>2, <1>3 DEF Next

-----------------------------------------------------------------------------
(* The theorems.                                                           *)

\* The inductive invariant holds in every reachable state.
THEOREM Invariance == Spec => []GInv
  BY InitGInv, NextGInv, PTL DEF Spec

\* Every variable of the GCP model keeps its type.
THEOREM TypeCorrect == Spec => []TypeOK
  <1>1. GInv => TypeOK
    BY DEF GInv
  <1> QED
    BY <1>1, Invariance, PTL

\* No spoke is ever above the limit of GCP, and a ReconcileNodes that succeeds leaves
\* every node it was given in exactly one spoke and no other VM in any: the slices of
\* the sorted nodes are disjoint, cover the nodes and are numbered without a gap,
\* and what a call has written of the spokes stays until its end.
THEOREM OneSpokeEach == Spec => []NodesAreInOneSpoke
  <1>1. ASSUME GInv, worker.step = "done", NEW v \in VMs
        PROVE  Cardinality({i \in SpokeIds : spokes[i] # Absent /\ v \in spokes[i].vms})
                  = IF v \in worker.nodes THEN 1 ELSE 0
    <2> DEFINE members == {i \in SpokeIds : spokes[i] # Absent /\ v \in spokes[i].vms}
    <2>1. worker.nodes \in SUBSET VMs
      BY <1>1, Fields DEF GInv, TypeOK
    <2>2. Wanted \subseteq SpokeIds
      BY <2>1, ChunksAre DEF Wanted
    <2>3. /\ \A i \in Wanted : spokes[i] # Absent /\ spokes[i].vms = SpokesOf(worker.nodes)[i]
          /\ \A i \in SpokeIds \ Wanted : spokes[i] = Absent
      BY <1>1 DEF GInv, SpokeInv, Holds
    <2>4. members = {i \in Wanted : v \in SpokesOf(worker.nodes)[i]}
      BY <2>2, <2>3
    <2> HIDE DEF members
    <2>5. CASE v \in worker.nodes
      <3>1. PICK i \in Wanted : \A j \in Wanted : v \in SpokesOf(worker.nodes)[j] <=> j = i
        BY <2>1, <2>5, ChunksPartition DEF Wanted
      <3>2. members = {i}
        BY <2>4, <3>1
      <3> QED
        BY <2>5, <3>2, FS_Singleton DEF members
    <2>6. CASE v \notin worker.nodes
      <3>1. \A i \in Wanted : SpokesOf(worker.nodes)[i] \subseteq worker.nodes
        BY <2>1, ChunkSize DEF Wanted
      <3>2. members = {}
        BY <2>4, <2>6, <3>1
      <3> QED
        BY <2>6, <3>2, FS_EmptySet DEF members
    <2> QED
      BY <2>5, <2>6
  <1>2. GInv => NodesAreInOneSpoke
    BY <1>1 DEF NodesAreInOneSpoke, GInv, SizeInv
  <1> QED
    BY <1>2, Invariance, PTL

\* A Cleanup that runs to its end leaves no spoke of the operator, however often it
\* failed and started over.
THEOREM CleanupReleases == Spec => []CleanupReleasesSpokes
  <1>1. ASSUME GInv, worker.step = "clean" PROVE \A i \in SpokeIds : spokes[i] = Absent
    <2>1. worker.nodes = {}
      BY <1>1 DEF GInv, CallInv
    <2>2. Wanted = {}
      BY <2>1, NoChunks DEF Wanted
    <2> QED
      BY <1>1, <2>2 DEF GInv, SpokeInv
  <1>2. GInv => CleanupReleasesSpokes
    BY <1>1 DEF CleanupReleasesSpokes
  <1> QED
    BY <1>2, Invariance, PTL

\* A write of the router changes a peer of others only where they wrote it since.
LEMMA StepKeepsOthers ==
  ASSUME GInv, [Next]_vars, worker' # worker, NEW p \in Foreign, (p \in others') # (p \in others)
  PROVE  p \in touched
  <1>1. others' # others
    OBVIOUS
  <1>2. CASE PatchRouter \/ UpdateRouter
    <2>1. others' = worker.others /\ worker.step \in {"patch", "update"}
      BY <1>1, <1>2 DEF PatchRouter, UpdateRouter, routerVars
    <2> QED
      BY <2>1 DEF GInv, OthersInv
  <1>3. ~(DiscoverEndpoints \/ ReconcileNodes \/ EnsureCanIPForward \/ EnsureNestedVirtualization
          \/ NodesForward \/ ReconcileSpoke \/ ListSpokes \/ DeleteSpoke \/ GetRouterTopology
          \/ ReadRouter \/ SetCloudPeersManaged \/ Return \/ ReadRouterToClear \/ Cleaned)
    BY <1>1 DEF DiscoverEndpoints, ReconcileNodes, EnsureCanIPForward, EnsureNestedVirtualization,
       NodesForward, ReconcileSpoke, ListSpokes, DeleteSpoke, GetRouterTopology, ReadRouter,
       SetCloudPeersManaged, Return, ReadRouterToClear, Cleaned, routerVars
  <1>4. ~Environment /\ ~UNCHANGED vars
    BY <1>1 DEF Environment, OthersWrite, InterfacesChange, RoutersChange, SiteToSiteEdited,
       ConfigDeleted, Restart, vars, routerVars
  <1> QED
    BY <1>2, <1>3, <1>4 DEF Next, Operator

\* ReconcilePeers and ClearPeers, which write the whole list of peers, never undo what
\* they read of others.
THEOREM OthersAreKept == Spec => OthersSurvive
  <1>1. GInv /\ [Next]_vars =>
          [\A p \in Foreign :
             (worker' # worker /\ (p \in others') # (p \in others)) => p \in touched]_vars
    BY StepKeepsOthers
  <1> QED
    BY <1>1, InitGInv, NextGInv, PTL DEF Spec, OthersSurvive

-----------------------------------------------------------------------------
(* GCPCloudRouter implements CloudPlatform.                                *)

\* The wanted peers, on one interface at least, are peers of exactly the nodes.
LEMMA WantedArePeered ==
  ASSUME NEW nodes \in SUBSET VMs, NEW ifaces \in InterfaceLists, ifaces # <<>>,
         NEW a \in Addresses
  PROVE  (\E k \in 1..Cardinality(Interfaces) : DesiredPeers(nodes, ifaces)[<<a, k>>] # Absent)
            <=> a \in {Address[v] : v \in nodes}
  <1>1. 1 \in DOMAIN ifaces /\ 1 \in 1..Cardinality(Interfaces)
    BY ListFields
  <1>2. ASSUME NEW v \in nodes, Address[v] = a
        PROVE  DesiredPeers(nodes, ifaces)[<<a, 1>>] # Absent
    <2> DEFINE p == [vm |-> CHOOSE u \in nodes : Address[u] = a, interface |-> ifaces[1]]
    <2>1. <<a, 1>> \in Names /\ <<a, 1>>[1] = a /\ <<a, 1>>[2] = 1
      BY <1>1 DEF Names
    <2>2. DesiredPeers(nodes, ifaces)[<<a, 1>>] = p
      BY <1>1, <1>2, <2>1 DEF DesiredPeers
    <2>3. (CHOOSE u \in nodes : Address[u] = a) \in VMs /\ ifaces[1] \in Interfaces
      BY <1>1, <1>2, ListFields
    <2>4. p \in PeerRecords
      BY <2>3 DEF PeerRecords
    <2> QED
      BY <2>2, <2>4, AbsentAssumption
  <1>3. ASSUME NEW k \in 1..Cardinality(Interfaces), DesiredPeers(nodes, ifaces)[<<a, k>>] # Absent
        PROVE  \E v \in nodes : Address[v] = a
    <2>1. <<a, k>> \in Names /\ <<a, k>>[1] = a
      BY DEF Names
    <2> QED
      BY <1>3, <2>1 DEF DesiredPeers
  <1> QED
    BY <1>1, <1>2, <1>3

LEMMA PeeredWanted ==
  ASSUME worker \in Reconciles, worker.interfaces # <<>>
  PROVE  /\ peers = DesiredPeers(worker.nodes, worker.interfaces) => Peered = Desired
         /\ peers' = DesiredPeers(worker.nodes, worker.interfaces) => Peered' = Desired
  <1>1. worker.nodes \in SUBSET VMs /\ worker.interfaces \in InterfaceLists
    BY Fields
  <1>2. Desired \subseteq Addresses
    BY <1>1 DEF Desired, Addresses
  <1>3. ASSUME NEW p, p = DesiredPeers(worker.nodes, worker.interfaces)
        PROVE  {a \in Addresses : \E k \in 1..Cardinality(Interfaces) : p[<<a, k>>] # Absent} = Desired
    BY <1>1, <1>2, <1>3, WantedArePeered DEF Desired
  <1> QED
    BY <1>3 DEF Peered

LEMMA PeeredNone == (peers = NoPeers => Peered = {}) /\ (peers' = NoPeers => Peered' = {})
  BY DEF Peered, NoPeers, Names

LEMMA InitImplements == Init => Platform!Init
  <1> SUFFICES ASSUME Init PROVE Platform!Init
    OBVIOUS
  <1>1. Phase = "idle" /\ Desired = {} /\ Peered = {}
    BY IdleTyped, PeeredNone DEF Init, Phase, Desired
  <1> QED
    BY <1>1 DEF Platform!Init

\* Giving up at a step of a call, with the peers as they are.
LEMMA GivingUpImplements ==
  ASSUME GInv, worker.step # "clean", worker' = Idle, Peered' = Peered
  PROVE  [Platform!Next]_(Platform!vars)
  <1>1. Phase' = "idle" /\ Desired' = {}
    BY IdleTyped DEF Phase, Desired
  <1>2. worker \in Reconciles /\ worker.step \in Steps /\ Peered \in SUBSET Addresses
    BY Fields DEF GInv, TypeOK, Peered
  <1>3. CASE Phase = "idle"
    <2>1. Desired = {}
      BY <1>2, <1>3 DEF GInv, CallInv, Phase, Desired, Steps
    <2> QED
      BY <1>1, <1>3, <2>1 DEF Platform!vars
  <1>4. CASE Phase = "reconcile"
    BY <1>1, <1>2, <1>4 DEF Platform!Next, Platform!WritePeers, Platform!GivesUp
  <1>5. CASE Phase = "cleanup"
    BY <1>1, <1>2, <1>5 DEF Platform!Next, Platform!ReleasePeers, Platform!GivesUp
  <1>6. CASE Phase = "done"
    BY <1>1, <1>6 DEF Platform!Next, Platform!Return, Platform!GivesUp
  <1> QED
    BY <1>3, <1>4, <1>5, <1>6 DEF Phase

\* A step inside a call that changes no peer of ours.
LEMMA InsideImplements ==
  ASSUME Phase' = Phase, Desired' = Desired, Peered' = Peered
  PROVE  [Platform!Next]_(Platform!vars)
  BY DEF Platform!vars

LEMMA EnvironmentImplements == ASSUME GInv, Environment PROVE [Platform!Next]_(Platform!vars)
  <1>1. CASE Restart
    BY <1>1, GivingUpImplements DEF Restart, Peered, routerVars
  <1>2. CASE ~Restart
    <2>1. peers' = peers /\ worker' = worker
      BY <1>2 DEF Environment, OthersWrite, InterfacesChange, RoutersChange, SiteToSiteEdited,
         ConfigDeleted, routerVars
    <2> QED
      BY <2>1, InsideImplements DEF Phase, Desired, Peered
  <1> QED
    BY <1>1, <1>2

\* Steps of a call that leave the router alone and do not end it.
LEMMA WorkingImplements ==
  ASSUME GInv,
         \/ EnsureCanIPForward \/ EnsureNestedVirtualization \/ NodesForward \/ ReconcileSpoke
         \/ ListSpokes \/ DeleteSpoke \/ GetRouterTopology \/ ReadRouter \/ ReadRouterToClear
  PROVE  [Platform!Next]_(Platform!vars)
  <1>1. /\ worker.step \in {"forward", "nested", "spokes", "prune", "read", "clear"}
        /\ worker \in Reconciles /\ Peered' = Peered
    BY DEF EnsureCanIPForward, EnsureNestedVirtualization, NodesForward, ReconcileSpoke, ListSpokes,
       DeleteSpoke, GetRouterTopology, ReadRouter, ReadRouterToClear, routerVars, Peered, GInv, TypeOK
  <1>2. CASE worker' = Idle
    BY <1>1, <1>2, GivingUpImplements
  <1>3. CASE worker' # Idle
    <2>1. /\ worker'.step \in {"forward", "nested", "spokes", "prune", "read", "patch", "written",
                               "update"}
          /\ worker'.call = worker.call /\ worker'.nodes = worker.nodes
      <3>1. CASE EnsureCanIPForward
        <4>1. PICK v : \/ worker' = [worker EXCEPT !.step = "nested", !.node = v]
                       \/ worker' = [worker EXCEPT !.todo = @ \ {v}]
          BY <1>3, <3>1 DEF EnsureCanIPForward, EnsureInstance, Fail
        <4>2. worker.step = "forward"
          BY <3>1 DEF EnsureCanIPForward
        <4> QED
          BY <1>1, <4>1, <4>2 DEF Reconciles
      <3>2. CASE EnsureNestedVirtualization
        BY <1>1, <1>3, <3>2 DEF EnsureNestedVirtualization, EnsureInstance, Fail, Reconciles
      <3>3. CASE NodesForward
        BY <1>1, <3>3, GotoFields DEF NodesForward, Steps
      <3>4. CASE ReconcileSpoke
        BY <1>1, <1>3, <3>4 DEF ReconcileSpoke, Fail, Reconciles
      <3>5. CASE ListSpokes
        BY <1>1, <1>3, <3>5 DEF ListSpokes, Fail, Reconciles
      <3>6. CASE DeleteSpoke
        BY <1>1, <1>3, <3>6 DEF DeleteSpoke, Fail, Reconciles
      <3>7. CASE GetRouterTopology
        BY <1>1, <1>3, <3>7 DEF GetRouterTopology, Fail, Reconciles
      <3>8. CASE ReadRouter
        <4>1. Goto("written") \/ worker' = [worker EXCEPT !.step = "patch", !.others = others]
          BY <1>3, <3>8 DEF ReadRouter, Fail
        <4> QED
          BY <1>1, <4>1, GotoFields DEF Reconciles, Steps
      <3>9. CASE ReadRouterToClear
        <4>1. \/ Goto("spokes")
              \/ worker' = [worker EXCEPT !.step = "update", !.others = others,
                                          !.interfaces = interfaces]
          BY <1>3, <3>9 DEF ReadRouterToClear, Fail
        <4> QED
          BY <1>1, <4>1, GotoFields DEF Reconciles, Steps
      <3> QED
        BY <3>1, <3>2, <3>3, <3>4, <3>5, <3>6, <3>7, <3>8, <3>9
    <2>2. Phase' = Phase /\ Desired' = Desired
      BY <1>1, <2>1 DEF Phase, Desired
    <2> QED
      BY <1>1, <2>2, InsideImplements
  <1> QED
    BY <1>2, <1>3

\* The steps at which a call begins.
LEMMA BeginningImplements ==
  ASSUME GInv, DiscoverEndpoints \/ ReconcileNodes
  PROVE  [Platform!Next]_(Platform!vars)
  <1>1. /\ worker.step \in {"idle", "nodes"} /\ worker \in Reconciles /\ worker.nodes = {}
        /\ worker.call = "ReconcileNodes" /\ Peered' = Peered /\ Phase = "idle" /\ Desired = {}
    BY DEF DiscoverEndpoints, ReconcileNodes, GInv, TypeOK, CallInv, Peered, Phase, Desired,
       routerVars
  <1>2. CASE worker' = Idle
    BY <1>1, <1>2, GivingUpImplements
  <1>3. CASE \/ worker' = [Idle EXCEPT !.step = "nodes", !.siteToSite = siteToSite]
             \/ Goto("skipped")
    <2>1. worker'.step \in {"nodes", "skipped"} /\ worker'.nodes = {}
      <3>1. CASE worker' = [Idle EXCEPT !.step = "nodes", !.siteToSite = siteToSite]
        BY <3>1 DEF Idle
      <3>2. CASE Goto("skipped")
        BY <1>1, <3>2, GotoFields DEF Steps
      <3> QED
        BY <1>3, <3>1, <3>2
    <2>2. Phase' = Phase /\ Desired' = Desired
      BY <1>1, <2>1 DEF Phase, Desired
    <2> QED
      BY <1>1, <2>2, InsideImplements
  <1>4. CASE worker' = [Idle EXCEPT !.step = "clear", !.call = "Cleanup"]
    <2>1. worker'.step = "clear" /\ worker'.call = "Cleanup" /\ worker'.nodes = {}
      BY <1>4 DEF Idle
    <2>2. Phase' = "cleanup" /\ Desired' = Desired
      BY <1>1, <2>1 DEF Phase, Desired
    <2> QED
      BY <1>1, <2>2 DEF Platform!Next, Platform!Cleanup
  <1>5. CASE ReconcileNodes /\ routers # {}
    <2>1. worker'.step = "forward" /\ worker'.nodes = routers /\ worker'.call = "ReconcileNodes"
      BY <1>1, <1>5 DEF ReconcileNodes, Reconciles
    <2>2. Desired' \in (SUBSET Addresses) \ {{}}
      <3>1. Desired' = {Address[v] : v \in routers} /\ routers \in SUBSET VMs
        BY <2>1 DEF Desired, GInv, TypeOK
      <3>2. Desired' \subseteq Addresses
        BY <3>1 DEF Addresses
      <3>3. PICK v \in routers : TRUE
        BY <1>5
      <3>4. Address[v] \in Desired'
        BY <3>1
      <3> QED
        BY <3>2, <3>4
    <2>3. Phase' = "reconcile"
      BY <2>1 DEF Phase
    <2> QED
      BY <1>1, <2>2, <2>3 DEF Platform!Next, Platform!ReconcileNodes
  <1> QED
    BY <1>2, <1>3, <1>4, <1>5 DEF DiscoverEndpoints, ReconcileNodes, Fail

\* The whole list is written at once: every wanted peer, and no other of ours.
LEMMA PatchImplements == ASSUME GInv, PatchRouter PROVE [Platform!Next]_(Platform!vars)
  <1>1. /\ worker.step = "patch" /\ worker \in Reconciles
        /\ worker.call = "ReconcileNodes"
    BY DEF PatchRouter, GInv, TypeOK, CallInv
  <1>2. Phase = "reconcile"
    BY <1>1 DEF Phase
  <1>3. Peered' = Peered \/ Peered' = Desired
    <2>1. peers' = peers \/ peers' = DesiredPeers(worker.nodes, worker.interfaces)
      BY DEF PatchRouter
    <2>2. CASE peers' = peers
      BY <2>2 DEF Peered
    <2>3. CASE worker.interfaces = <<>>
      <3>1. peers = NoPeers /\ peers' = NoPeers
        BY <1>1, <2>1, <2>3, DesiredNone DEF GInv, InterfaceInv
      <3> QED
        BY <3>1 DEF Peered
    <2> QED
      BY <1>1, <2>1, <2>2, <2>3, PeeredWanted
  <1>4. (Phase' = "idle" /\ Desired' = {}) \/ (Phase' = Phase /\ Desired' = Desired)
    <2>1. CASE worker' = Idle
      BY <2>1, IdleTyped DEF Phase, Desired
    <2>2. CASE Goto("written")
      <3>1. /\ worker'.step = "written" /\ worker'.nodes = worker.nodes
            /\ worker'.call = "ReconcileNodes"
        BY <1>1, <2>2, GotoFields DEF Steps
      <3> QED
        BY <1>2, <3>1 DEF Phase, Desired
    <2> QED
      BY <2>1, <2>2 DEF PatchRouter, Fail
  <1>5. Peered' \in SUBSET Addresses
    BY DEF Peered
  <1> QED
    BY <1>2, <1>3, <1>4, <1>5
       DEF Platform!Next, Platform!WritePeers, Platform!GoesOn, Platform!GivesUp

LEMMA UpdateImplements == ASSUME GInv, UpdateRouter PROVE [Platform!Next]_(Platform!vars)
  <1>1. worker.step = "update" /\ worker \in Reconciles /\ worker.call = "Cleanup"
    BY DEF UpdateRouter, GInv, TypeOK, CallInv
  <1>2. Phase = "cleanup"
    BY <1>1 DEF Phase
  <1>3. Peered' \in SUBSET Peered
    <2>1. peers' = peers \/ peers' = NoPeers
      BY DEF UpdateRouter, routerVars
    <2>2. CASE peers' = peers
      BY <2>2 DEF Peered
    <2> QED
      BY <2>1, <2>2, PeeredNone
  <1>4. (Phase' = "idle" /\ Desired' = {}) \/ (Phase' = Phase /\ Desired' = Desired)
    <2>1. CASE worker' = Idle
      BY <2>1, IdleTyped DEF Phase, Desired
    <2>2. CASE Goto("spokes")
      <3>1. /\ worker'.step = "spokes" /\ worker'.nodes = worker.nodes
            /\ worker'.call = "Cleanup"
        BY <1>1, <2>2, GotoFields DEF Steps
      <3> QED
        BY <1>2, <3>1 DEF Phase, Desired
    <2> QED
      BY <2>1, <2>2 DEF UpdateRouter, Fail
  <1> QED
    BY <1>2, <1>3, <1>4 DEF Platform!Next, Platform!ReleasePeers, Platform!GoesOn, Platform!GivesUp

\* The steps at which a call ends.
LEMMA EndingImplements ==
  ASSUME GInv, SetCloudPeersManaged \/ Return \/ Cleaned
  PROVE  [Platform!Next]_(Platform!vars)
  <1>1. worker.step \in {"written", "done", "prune"} /\ worker \in Reconciles /\ Peered' = Peered
    BY DEF SetCloudPeersManaged, Return, Cleaned, GInv, TypeOK, Peered, routerVars
  <1>2. CASE Return
    BY <1>1, <1>2, GivingUpImplements DEF Return
  <1>3. CASE SetCloudPeersManaged
    <2>1. worker.step = "written" /\ Goto("done")
      BY <1>3 DEF SetCloudPeersManaged
    <2>2. /\ worker'.step = "done" /\ worker'.nodes = worker.nodes
          /\ worker'.interfaces = worker.interfaces /\ worker'.call = worker.call
      BY <1>1, <2>1, GotoFields DEF Steps
    <2>3. worker.call = "ReconcileNodes" /\ Phase = "reconcile" /\ Desired' = Desired
      BY <2>1, <2>2 DEF GInv, CallInv, Phase, Desired
    <2>4. CASE worker.interfaces # <<>>
      <3>1. Peered = Desired
        BY <1>1, <2>1, <2>4, PeeredWanted DEF GInv, PeerInv
      <3>2. Phase' = "done"
        BY <2>2, <2>4 DEF Phase
      <3> QED
        BY <1>1, <2>3, <3>1, <3>2 DEF Platform!Next, Platform!Succeed
    <2>5. CASE worker.interfaces = <<>>
      <3>1. Phase' = Phase
        BY <2>2, <2>3, <2>5 DEF Phase
      <3> QED
        BY <1>1, <2>3, <3>1, InsideImplements
    <2> QED
      BY <2>4, <2>5
  <1>4. CASE Cleaned
    <2>1. worker.step = "prune" /\ worker.call = "Cleanup" /\ Goto("clean")
      BY <1>4 DEF Cleaned
    <2>2. worker'.step = "clean" /\ worker'.nodes = worker.nodes
      BY <1>1, <2>1, GotoFields DEF Steps
    <2>3. Peered = {}
      BY <2>1, PeeredNone DEF GInv, PeerInv
    <2>4. Phase = "cleanup" /\ Phase' = "clean" /\ Desired' = Desired
      BY <2>1, <2>2 DEF Phase, Desired
    <2> QED
      BY <1>1, <2>3, <2>4 DEF Platform!Next, Platform!Cleaned
  <1> QED
    BY <1>2, <1>3, <1>4

\* The calls of the GCP platform keep the promises of platform.CloudPlatform: the one
\* write of the router keeps every wanted node peered, an empty node list releases
\* nothing, success means exactly the given nodes are peered unless the router had no
\* interface when the call read it, and Cleanup ends with no peer of ours.
THEOREM GCPImplementsPlatform == Spec => ImplementsPlatform
  <1>1. GInv /\ [Next]_vars => [Platform!Next]_(Platform!vars)
    <2> SUFFICES ASSUME GInv, [Next]_vars PROVE [Platform!Next]_(Platform!vars)
      OBVIOUS
    <2>1. CASE Environment
      BY <2>1, EnvironmentImplements
    <2>2. CASE Operator
      BY <2>2, BeginningImplements, WorkingImplements, PatchImplements, UpdateImplements,
         EndingImplements DEF Operator
    <2>3. CASE UNCHANGED vars
      BY <2>3, InsideImplements DEF vars, routerVars, Phase, Desired, Peered
    <2> QED
      BY <2>1, <2>2, <2>3 DEF Next
  <1> QED
    BY <1>1, InitImplements, InitGInv, NextGInv, PTL
       DEF Spec, ImplementsPlatform, Platform!Spec
=============================================================================
