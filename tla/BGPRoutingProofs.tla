-------------------------- MODULE BGPRoutingProofs --------------------------
(***************************************************************************)
(* Proofs about the BGPRouting controller, for any number of objects, any  *)
(* lag of the cache and any number of events.                              *)
(*                                                                         *)
(* The controller decides from the cache, so the argument is about how far *)
(* the cache has come: it only moves forward along the versions of the     *)
(* store, one worker reconciles at a time, and an object becomes Ready     *)
(* only through a reconcile that read it from the cache.  Hence whatever   *)
(* is Ready is in the cache, and a later listing cannot miss it.           *)
(***************************************************************************)
EXTENDS BGPRouting, TLAPS

\* a is the same version of an object as b or an earlier one.
Older(a, b) ==
    \/ a.uid < b.uid
    \/ a.uid = b.uid /\ ~b.exists
    \/ /\ a.uid = b.uid /\ a.exists /\ b.exists
       /\ a.rv <= b.rv
       /\ a.rv = b.rv => a = b
       /\ a.generation <= b.generation
       /\ a.generation = b.generation => a.net = b.net /\ a.subnets = b.subnets
       /\ a.deleting => b.deleting

\* The versions of the store from the cached one to the present one.
View(c, v, i) == IF i = 0 THEN c ELSE v[i]

\* The watch delivers every version, in order.
WatchInv ==
    /\ View(cache, views, Len(views)) = store
    /\ \A i, j \in 0..Len(views) : i <= j =>
          \A r \in Routings : Older(View(cache, views, i)[r], View(cache, views, j)[r])

ObservedInv == \A r \in Routings : store[r].status.observed <= store[r].generation

\* The worker's copy o against the cached object c: it was read from the cache.
FromCache(o, c) ==
    \/ o.uid < c.uid
    \/ o.uid = c.uid /\ (c.exists => o.generation <= c.generation)

\* The worker's copy o against the stored object s: at most as new, and of the
\* same spec when the resource version is the same.
Behind(o, s) ==
    \/ o.uid < s.uid
    \/ o.uid = s.uid /\ ~s.exists
    \/ /\ o.uid = s.uid /\ s.exists
       /\ o.rv <= s.rv
       /\ o.generation <= s.generation
       /\ o.rv = s.rv => /\ o.generation = s.generation
                         /\ o.deleting = s.deleting
                         /\ o.finalizer = s.finalizer
       /\ o.generation = s.generation => o.net = s.net /\ o.subnets = s.subnets
       /\ o.deleting => s.deleting

Deletion == {"deleteCUDN", "remaining", "deleteRA", "removeFinalizer"}

WorkerInv ==
    worker.step # "idle" =>
        /\ worker.key \in Routings
        /\ worker.obj.exists
        /\ FromCache(worker.obj, cache[worker.key])
        /\ Behind(worker.obj, store[worker.key])
        /\ worker.step = "finalizer" /\ Current(worker.obj, worker.key)
              => worker.obj = store[worker.key]
        /\ worker.step \notin Deletion \cup {"finalizer"}
              => worker.obj.status.observed = worker.obj.generation

\* Whatever is Ready has been seen by the cache, in the generation it is Ready for.
SeenInv ==
    \A r \in Routings :
        /\ Exists(store[r]) /\ store[r].status.phase = "Ready"
              => cache[r].exists /\ cache[r].uid = store[r].uid
        /\ ReadyNow(store[r]) => cache[r].generation = store[r].generation

\* The reconcile has passed the duplicate check and may end in Ready.
PastDuplicate ==
    \/ worker.step \in {"config", "namespace", "cudn", "ra"}
    \/ worker.step = "status" /\ worker.obj.status.phase = "Ready"

\* Nobody else becomes Ready for the name while the worker is past the check.
ClaimInv ==
    PastDuplicate =>
        \A s \in Routings \ {worker.key} : ReadyNow(store[s]) => store[s].net # worker.obj.net

Advertised(r) == Live(store[r]) /\ store[r].status.phase = "Ready"

\* The worker's own position with respect to the RouteAdvertisements.
AdvertiseInv ==
    /\ worker.step \in Deletion => ~Advertised(worker.key)
    /\ worker.step = "deleteRA" => \A r \in Routings : ~Advertised(r)
    /\ "drift" \notin Disturbances /\ worker.step = "status"
          /\ worker.obj.status.phase = "Ready" => ra

IInv ==
    /\ TypeOK
    /\ WatchInv
    /\ ObservedInv
    /\ WorkerInv
    /\ SeenInv
    /\ ClaimInv
    /\ UniqueClaims
    /\ AdvertiseInv
    /\ ReadyIsAdvertised

-----------------------------------------------------------------------------
(* Types.                                                                  *)

LEMMA GoneType == ASSUME NEW u \in Nat PROVE Gone(u) \in Objects
  BY NamesAssumption, SubnetsAssumption
  DEF Gone, Objects, NoStatus, Statuses, Phases, NetworkReasons, RAReasons

LEMMA BusyType ==
  ASSUME TypeOK, worker.step # "idle"
  PROVE  /\ worker \in Reconciles
         /\ worker.key \in Routings
         /\ worker.obj \in Objects
         /\ worker.obj.status \in Statuses
  BY DEF TypeOK, Idle, Reconciles, Objects

LEMMA EditType ==
  ASSUME NEW o \in Objects, NEW g \in Nat, NEW n \in Nets, NEW s \in Subnets
  PROVE  [o EXCEPT !.generation = g, !.net = n, !.subnets = s] \in Objects
  BY DEF Objects

LEMMA MarkType ==
  ASSUME NEW o \in Objects, NEW g \in Nat
  PROVE  /\ [o EXCEPT !.generation = g, !.deleting = TRUE] \in Objects
         /\ [o EXCEPT !.rv = g] \in Objects
  BY DEF Objects

LEMMA StartedType ==
  ASSUME NEW o \in Objects PROVE Started(o) \in Objects
  <1>1. [o.status EXCEPT !.phase = "Configuring", !.observed = o.generation] \in Statuses
    BY DEF Objects, Statuses, Phases
  <1> QED
    BY <1>1 DEF Started, Objects

\* The statuses the reconcile builds are well typed.
LEMMA DegradedType ==
  ASSUME NEW st \in Statuses, NEW c, NEW reason \in NetworkReasons \cup RAReasons,
         c = "NetworkCreated" => reason \in NetworkReasons,
         c = "RouteAdvertisementsCreated" => reason \in RAReasons
  PROVE  [st EXCEPT !.phase = "Degraded",
             !.networkCreated = IF c = "NetworkCreated" THEN reason ELSE @,
             !.raCreated = IF c = "RouteAdvertisementsCreated" THEN reason ELSE @] \in Statuses
  BY DEF Statuses, Phases

LEMMA GotoStatusType ==
  ASSUME worker \in Reconciles, NEW st \in Statuses, NEW q \in BOOLEAN, GotoStatus(st, q)
  PROVE  worker' \in Reconciles
  BY DEF GotoStatus, Reconciles, Steps, Objects

LEMMA SetDegradedType ==
  ASSUME worker \in Reconciles, NEW c, NEW reason \in NetworkReasons \cup RAReasons,
         c = "NetworkCreated" => reason \in NetworkReasons,
         c = "RouteAdvertisementsCreated" => reason \in RAReasons,
         SetDegraded(c, reason)
  PROVE  worker' \in Reconciles
  <1>1. worker.obj.status \in Statuses
    BY DEF Reconciles, Objects
  <1> QED
    BY <1>1, DegradedType, GotoStatusType DEF SetDegraded

LEMMA GotoType ==
  ASSUME worker \in Reconciles, NEW step \in Steps, Goto(step)
  PROVE  worker' \in Reconciles
  BY DEF Goto, Reconciles

\* A write keeps the store, the versions in transit and the cache well typed.
LEMMA PutType ==
  ASSUME TypeOK, NEW r \in Routings, NEW o \in Objects, Put(r, o)
  PROVE  /\ store' \in [Routings -> Objects]
         /\ views' \in Seq([Routings -> Objects])
         /\ cache' \in [Routings -> Objects]
  <1>1. store' \in [Routings -> Objects]
    BY DEF TypeOK, Put
  <1> QED
    BY <1>1 DEF TypeOK, Put

\* A write to a well-typed object counts the write and leaves it well typed.
LEMMA WriteType ==
  ASSUME TypeOK, NEW r \in Routings, NEW o \in Objects, Write(r, o)
  PROVE  /\ store' \in [Routings -> Objects]
         /\ views' \in Seq([Routings -> Objects])
         /\ cache' \in [Routings -> Objects]
  <1>1. [o EXCEPT !.rv = @ + 1] \in Objects
    BY DEF Objects
  <1> QED
    BY <1>1, PutType DEF Write

LEMMA TypeInit == Init => TypeOK
  <1> SUFFICES ASSUME Init PROVE TypeOK
    OBVIOUS
  <1>1. Gone(0) \in Objects
    BY GoneType
  <1>2. store \in [Routings -> Objects] /\ cache \in [Routings -> Objects]
    BY <1>1 DEF Init
  <1>3. views \in Seq([Routings -> Objects])
    BY DEF Init
  <1>4. configReady \in BOOLEAN /\ ra \in BOOLEAN /\ labelled \in SUBSET Nets
    BY Zenon DEF Init
  <1>5. cudn \in [Nets -> Subnets \cup {"none", "other"}] /\ budget \in Nat
    BY BoundsAssumption DEF Init
  <1> QED
    BY <1>2, <1>3, <1>4, <1>5 DEF Init, TypeOK

LEMMA TypeStep == TypeOK /\ [Next]_vars => TypeOK'
  <1> SUFFICES ASSUME TypeOK, [Next]_vars PROVE TypeOK'
    OBVIOUS
  <1> USE DEF apiVars, envVars, queueVars
  <1>1. ASSUME NEW r \in Routings, CreateRouting(r) PROVE TypeOK'
    <2>1. PICK n \in Names[r], s \in Subnets :
             Put(r, [exists |-> TRUE, uid |-> store[r].uid + 1, rv |-> 1, generation |-> 1,
                     net |-> n, subnets |-> s, deleting |-> FALSE, finalizer |-> FALSE,
                     status |-> NoStatus])
      BY <1>1 DEF CreateRouting
    <2>2. store[r].uid \in Nat /\ n \in Nets
      BY NamesAssumption DEF TypeOK, Objects
    <2>3. [exists |-> TRUE, uid |-> store[r].uid + 1, rv |-> 1, generation |-> 1,
           net |-> n, subnets |-> s, deleting |-> FALSE, finalizer |-> FALSE,
           status |-> NoStatus] \in Objects
      BY <2>2 DEF Objects, NoStatus, Statuses, Phases, NetworkReasons, RAReasons
    <2> QED
      BY <1>1, <2>1, <2>3, PutType DEF CreateRouting, Event, TypeOK
  <1>2. ASSUME NEW r \in Routings, EditRouting(r) PROVE TypeOK'
    <2>1. PICK n \in Names[r], s \in Subnets :
             Write(r, [store[r] EXCEPT !.generation = @ + 1, !.net = n, !.subnets = s])
      BY <1>2 DEF EditRouting
    <2>2. n \in Nets
      BY NamesAssumption
    <2>3. [store[r] EXCEPT !.generation = @ + 1, !.net = n, !.subnets = s] \in Objects
      <3>1. store[r] \in Objects /\ store[r].generation + 1 \in Nat
        BY DEF TypeOK, Objects
      <3> QED
        BY <2>2, <3>1, EditType
    <2> QED
      BY <1>2, <2>1, <2>3, WriteType DEF EditRouting, Event, TypeOK
  <1>3. ASSUME NEW r \in Routings, DeleteRouting(r) PROVE TypeOK'
    <2>1. [store[r] EXCEPT !.generation = @ + 1, !.deleting = TRUE] \in Objects
      <3>1. store[r] \in Objects /\ store[r].generation + 1 \in Nat
        BY DEF TypeOK, Objects
      <3> QED
        BY <3>1, MarkType
    <2>2. Gone(store[r].uid) \in Objects
      BY GoneType DEF TypeOK, Objects
    <2> QED
      BY <1>3, <2>1, <2>2, PutType, WriteType DEF DeleteRouting, Remove, Event, TypeOK
  <1>4. CASE ConfigChanges
    BY <1>4 DEF ConfigChanges, Event, TypeOK
  <1>5. ASSUME NEW n \in Nets, NamespaceChanges(n) PROVE TypeOK'
    BY <1>5 DEF NamespaceChanges, Event, TypeOK
  <1>6. ASSUME NEW n \in Nets, CUDNDrifts(n) PROVE TypeOK'
    BY <1>6 DEF CUDNDrifts, Event, TypeOK
  <1>7. CASE RADrifts
    <2>1. ra' \in BOOLEAN
      BY <1>7, Zenon DEF RADrifts
    <2> QED
      BY <1>7, <2>1 DEF RADrifts, Event, TypeOK
  <1>8. CASE Restart
    BY <1>8 DEF Restart, Event, TypeOK
  <1>9. CASE DeliverView
    <2>1. Head(views) \in [Routings -> Objects] /\ Tail(views) \in Seq([Routings -> Objects])
      BY <1>9 DEF DeliverView, TypeOK
    <2> QED
      BY <1>9, <2>1 DEF DeliverView, TypeOK
  <1>10. ASSUME NEW n \in Nets, MapClusterUDNToRouting(n) PROVE TypeOK'
    BY <1>10 DEF MapClusterUDNToRouting, TypeOK
  <1>11. ASSUME NEW r \in Routings, TimerFires(r) PROVE TypeOK'
    BY <1>11 DEF TimerFires, TypeOK
  <1>12. ASSUME NEW r \in Routings, GetRouting(r) PROVE TypeOK'
    <2>1. worker' \in Reconciles \cup {Idle}
      BY <1>12 DEF GetRouting, TypeOK, Reconciles, Steps, Objects
    <2> QED
      BY <1>12, <2>1 DEF GetRouting, TypeOK
  <1>13. CASE EnsureFinalizer
    <2>1. /\ worker \in Reconciles /\ worker.key \in Routings
          /\ worker.obj \in Objects /\ worker.obj.generation \in Nat
      BY <1>13, BusyType DEF EnsureFinalizer, Objects
    <2>2. Started(worker.obj) \in Objects /\ worker.obj.rv + 1 \in Nat
      BY <2>1, StartedType DEF Objects
    <2>3. [worker.obj EXCEPT !.finalizer = TRUE] \in Objects
      BY <2>1 DEF Objects
    <2>4. [Started(worker.obj) EXCEPT !.rv = worker.obj.rv + 1] \in Objects
      BY <2>2, MarkType
    <2>5. worker' \in Reconciles \cup {Idle}
      <3>1. ASSUME NEW o \in Objects
            PROVE  [worker EXCEPT !.step = "duplicate", !.obj = o] \in Reconciles
        BY <2>1 DEF Reconciles, Steps
      <3>2. \/ worker' = Idle
            \/ worker' = [worker EXCEPT !.step = "duplicate", !.obj = Started(worker.obj)]
            \/ worker' = [worker EXCEPT !.step = "duplicate",
                             !.obj = [Started(worker.obj) EXCEPT !.rv = worker.obj.rv + 1]]
        BY <1>13 DEF EnsureFinalizer, Return
      <3> QED
        BY <2>2, <2>4, <3>1, <3>2
    <2>6. /\ store' \in [Routings -> Objects]
          /\ views' \in Seq([Routings -> Objects])
          /\ cache' \in [Routings -> Objects]
      <3>1. Write(worker.key, [worker.obj EXCEPT !.finalizer = TRUE]) \/ UNCHANGED apiVars
        BY <1>13 DEF EnsureFinalizer
      <3> QED
        BY <2>1, <2>3, <3>1, WriteType DEF TypeOK
    <2>7. delayed' \in SUBSET Routings /\ budget' \in Nat
      BY <1>13, <2>1 DEF EnsureFinalizer, Return, Charge, Outcomes, TypeOK
    <2> QED
      BY <1>13, <2>5, <2>6, <2>7 DEF EnsureFinalizer, TypeOK
  <1>14. CASE CheckDuplicate \/ CheckConfig \/ ValidateNamespaceLabels
    <2>1. worker \in Reconciles /\ worker.obj.status \in Statuses
      BY <1>14, BusyType DEF CheckDuplicate, CheckConfig, ValidateNamespaceLabels
    <2>2. CASE CheckDuplicate
      <3>1. worker' \in Reconciles /\ delayed' = delayed
        BY <2>1, <2>2, SetDegradedType, GotoType
        DEF CheckDuplicate, NetworkReasons, Steps, Goto, SetDegraded, GotoStatus
      <3> QED
        BY <2>2, <3>1 DEF CheckDuplicate, TypeOK
    <2>3. CASE CheckConfig
      <3>1. [NoStatus EXCEPT !.phase = "Pending", !.observed = worker.obj.status.observed] \in Statuses
        BY <2>1 DEF NoStatus, Statuses, Phases, NetworkReasons, RAReasons
      <3>2. worker' \in Reconciles /\ delayed' = delayed
        BY <2>1, <2>3, <3>1, GotoStatusType, GotoType DEF CheckConfig, Steps, Goto, GotoStatus
      <3> QED
        BY <2>3, <3>2 DEF CheckConfig, TypeOK
    <2>4. CASE ValidateNamespaceLabels
      <3>1. worker' \in Reconciles /\ delayed' = delayed
        BY <2>1, <2>4, SetDegradedType, GotoType
        DEF ValidateNamespaceLabels, NetworkReasons, Steps, Goto, SetDegraded, GotoStatus
      <3> QED
        BY <2>4, <3>1 DEF ValidateNamespaceLabels, TypeOK
    <2> QED
      BY <1>14, <2>2, <2>3, <2>4
  <1>15. CASE EnsureClusterUDN
    <2>1. worker \in Reconciles /\ worker.obj \in Objects /\ worker.obj.status \in Statuses
      BY <1>15, BusyType DEF EnsureClusterUDN
    <2>2. [worker EXCEPT !.step = "ra", !.obj.status.networkCreated = "Created"] \in Reconciles
      BY <2>1 DEF Reconciles, Steps, Objects, Statuses, NetworkReasons
    <2>3. worker' \in Reconciles
      BY <1>15, <2>1, <2>2, SetDegradedType DEF EnsureClusterUDN, NetworkReasons
    <2>4. /\ cudn' \in [Nets -> Subnets \cup {"none", "other"}]
          /\ cudnEvents' \in SUBSET Nets
      BY <1>15, <2>1 DEF EnsureClusterUDN, CreateOrUpdateCUDN, TypeOK, Objects
    <2>5. delayed' = delayed /\ budget' \in Nat
      BY <1>15 DEF EnsureClusterUDN, SetDegraded, GotoStatus, Charge, Outcomes, TypeOK
    <2> QED
      BY <1>15, <2>3, <2>4, <2>5 DEF EnsureClusterUDN, TypeOK
  <1>16. CASE EnsureRouteAdvertisements
    <2>1. worker \in Reconciles /\ worker.obj.status \in Statuses
      BY <1>16, BusyType DEF EnsureRouteAdvertisements, CreateOrUpdateRA
    <2>2. [worker.obj.status EXCEPT !.raCreated = "Created", !.phase = "Ready"] \in Statuses
      BY <2>1 DEF Statuses, Phases, RAReasons
    <2>3. worker' \in Reconciles
      BY <1>16, <2>1, <2>2, SetDegradedType, GotoStatusType
      DEF EnsureRouteAdvertisements, CreateOrUpdateRA, RAReasons
    <2>4. delayed' = delayed /\ budget' \in Nat
      BY <1>16
      DEF EnsureRouteAdvertisements, CreateOrUpdateRA, SetDegraded, GotoStatus, Charge, Outcomes,
          TypeOK
    <2>5. ra' \in BOOLEAN
      BY <1>16, Zenon DEF EnsureRouteAdvertisements, CreateOrUpdateRA
    <2> QED
      BY <1>16, <2>3, <2>4, <2>5 DEF EnsureRouteAdvertisements, CreateOrUpdateRA, TypeOK
  <1>17. CASE PatchRoutingStatus
    <2>1. worker.key \in Routings /\ worker.obj \in Objects
      BY <1>17, BusyType DEF PatchRoutingStatus
    <2>2. /\ worker' = Idle
          /\ delayed' \in SUBSET Routings
          /\ budget' \in Nat
      BY <1>17, <2>1 DEF PatchRoutingStatus, Return, Charge, Outcomes, TypeOK
    <2>3. Write(worker.key, worker.obj) \/ UNCHANGED apiVars
      BY <1>17 DEF PatchRoutingStatus
    <2>4. /\ store' \in [Routings -> Objects]
          /\ views' \in Seq([Routings -> Objects])
          /\ cache' \in [Routings -> Objects]
      BY <2>1, <2>3, WriteType DEF TypeOK
    <2> QED
      BY <1>17, <2>2, <2>4 DEF PatchRoutingStatus, TypeOK
  <1>18. CASE DeleteClusterUDN
    <2>1. worker \in Reconciles /\ worker.key \in Routings /\ worker.obj \in Objects
      BY <1>18, BusyType DEF DeleteClusterUDN, DeleteCUDN
    <2>2. worker' \in Reconciles \cup {Idle} /\ delayed' \in SUBSET Routings
      BY <1>18, <2>1, GotoType DEF DeleteClusterUDN, DeleteCUDN, Steps, Goto, Return, TypeOK
    <2>3. /\ cudn' \in [Nets -> Subnets \cup {"none", "other"}]
          /\ cudnEvents' \in SUBSET Nets
          /\ budget' \in Nat
      BY <1>18, <2>1 DEF DeleteClusterUDN, DeleteCUDN, TypeOK, Objects, Charge, Outcomes
    <2> QED
      BY <1>18, <2>2, <2>3 DEF DeleteClusterUDN, DeleteCUDN, TypeOK
  <1>19. CASE CountRemaining
    <2>1. worker \in Reconciles
      BY <1>19, BusyType DEF CountRemaining
    <2>2. worker' \in Reconciles /\ delayed' = delayed
      BY <1>19, <2>1, GotoType DEF CountRemaining, Steps, Goto
    <2> QED
      BY <1>19, <2>2 DEF CountRemaining, TypeOK
  <1>20. CASE DeleteRouteAdvertisements
    <2>1. worker \in Reconciles /\ worker.key \in Routings
      BY <1>20, BusyType DEF DeleteRouteAdvertisements, DeleteRA
    <2>2. worker' \in Reconciles \cup {Idle} /\ delayed' \in SUBSET Routings
      BY <1>20, <2>1, GotoType DEF DeleteRouteAdvertisements, DeleteRA, Steps, Goto, Return, TypeOK
    <2>3. budget' \in Nat
      BY <1>20 DEF DeleteRouteAdvertisements, DeleteRA, TypeOK, Charge, Outcomes
    <2>4. ra' \in BOOLEAN
      BY <1>20, Zenon DEF DeleteRouteAdvertisements, DeleteRA
    <2> QED
      BY <1>20, <2>2, <2>3, <2>4 DEF DeleteRouteAdvertisements, DeleteRA, TypeOK
  <1>21. CASE RemoveFinalizer
    <2>1. /\ worker.key \in Routings
          /\ Gone(store[worker.key].uid) \in Objects
      BY <1>21, BusyType, GoneType DEF RemoveFinalizer, TypeOK, Objects
    <2>2. /\ worker' = Idle
          /\ delayed' \in SUBSET Routings
          /\ budget' \in Nat
      BY <1>21, <2>1 DEF RemoveFinalizer, Return, Charge, Outcomes, TypeOK
    <2>3. Put(worker.key, Gone(store[worker.key].uid)) \/ UNCHANGED apiVars
      BY <1>21 DEF RemoveFinalizer, Remove
    <2>4. /\ store' \in [Routings -> Objects]
          /\ views' \in Seq([Routings -> Objects])
          /\ cache' \in [Routings -> Objects]
      BY <2>1, <2>3, PutType DEF TypeOK
    <2> QED
      BY <1>21, <2>2, <2>4 DEF RemoveFinalizer, TypeOK
  <1>22. CASE UNCHANGED vars
    BY <1>22 DEF vars, TypeOK
  <1> QED
    BY <1>1, <1>2, <1>3, <1>4, <1>5, <1>6, <1>7, <1>8, <1>9, <1>10, <1>11, <1>12, <1>13,
       <1>14, <1>15, <1>16, <1>17, <1>18, <1>19, <1>20, <1>21, <1>22
    DEF Next, Environment, Reconcile

\* Every variable keeps its type, whatever users, faults and restarts do.
THEOREM TypeCorrect == Spec => []TypeOK
  BY TypeInit, TypeStep, PTL DEF Spec

-----------------------------------------------------------------------------
(* Versions and the watch.                                                 *)

LEMMA OlderReflexive == ASSUME NEW a \in Objects PROVE Older(a, a)
  BY DEF Older, Objects

LEMMA OlderTransitive ==
  ASSUME NEW a \in Objects, NEW b \in Objects, NEW c \in Objects, Older(a, b), Older(b, c)
  PROVE  Older(a, c)
  BY DEF Older, Objects

\* The cached object is an earlier version of the stored one.
LEMMA CacheIsOlder ==
  ASSUME TypeOK, WatchInv, NEW r \in Routings
  PROVE  Older(cache[r], store[r])
  <1>1. Len(views) \in Nat
    BY DEF TypeOK
  <1> QED
    BY <1>1 DEF WatchInv, View

\* A write of a later version of one object extends the chain of versions.
LEMMA PutWatch ==
  ASSUME TypeOK, WatchInv, NEW r \in Routings, NEW o \in Objects, Older(store[r], o), Put(r, o)
  PROVE  /\ WatchInv'
         /\ \A q \in Routings : Older(store[q], store'[q])
  <1>0. /\ store \in [Routings -> Objects] /\ store' \in [Routings -> Objects]
        /\ cache \in [Routings -> Objects] /\ views \in Seq([Routings -> Objects])
        /\ store' = [store EXCEPT ![r] = o]
    BY PutType DEF TypeOK, Put
  <1>1. \A q \in Routings : Older(store[q], store'[q])
    BY <1>0, OlderReflexive
  <1>2. /\ Len(views) \in Nat
        /\ Len(views') = Len(views) + 1
        /\ View(cache', views', Len(views) + 1) = store'
        /\ \A i \in 0..Len(views) : View(cache', views', i) = View(cache, views, i)
    BY <1>0 DEF Put, View
  <1>3. \A i \in 0..Len(views) : View(cache, views, i) \in [Routings -> Objects]
    BY <1>0 DEF View
  <1>4. ASSUME NEW i \in 0..Len(views'), NEW j \in 0..Len(views'), i <= j, NEW q \in Routings
        PROVE  Older(View(cache', views', i)[q], View(cache', views', j)[q])
    <2>1. CASE j <= Len(views)
      BY <1>2, <1>4, <2>1 DEF WatchInv
    <2>2. CASE i <= Len(views) /\ j = Len(views) + 1
      <3>1. Older(View(cache, views, i)[q], store[q])
        BY <1>2, <2>2 DEF WatchInv
      <3>2. /\ View(cache, views, i)[q] \in Objects
            /\ store[q] \in Objects /\ store'[q] \in Objects
        BY <1>0, <1>2, <1>3, <2>2
      <3>3. Older(View(cache, views, i)[q], store'[q])
        BY <1>1, <3>1, <3>2, OlderTransitive
      <3> QED
        BY <1>2, <2>2, <3>3
    <2>3. CASE i = Len(views) + 1
      <3>1. i = j /\ View(cache', views', i) = store' /\ store'[q] \in Objects
        BY <1>0, <1>2, <1>4, <2>3
      <3> QED
        BY <3>1, OlderReflexive
    <2> QED
      BY <1>2, <1>4, <2>1, <2>2, <2>3
  <1> QED
    BY <1>1, <1>2, <1>4 DEF WatchInv

\* Delivery moves the cache one version on.
LEMMA DeliverWatch ==
  ASSUME TypeOK, WatchInv, DeliverView
  PROVE  /\ WatchInv'
         /\ \A q \in Routings : Older(cache[q], cache'[q])
  <1>1. /\ Len(views) \in Nat /\ Len(views) > 0
        /\ Len(views') = Len(views) - 1
        /\ \A i \in 0..Len(views') : View(cache', views', i) = View(cache, views, i + 1)
        /\ cache' = View(cache, views, 1)
    BY DEF DeliverView, TypeOK, View
  <1>2. View(cache', views', Len(views')) = store'
    BY <1>1 DEF WatchInv, DeliverView
  <1>3. ASSUME NEW i \in 0..Len(views'), NEW j \in 0..Len(views'), i <= j, NEW q \in Routings
        PROVE  Older(View(cache', views', i)[q], View(cache', views', j)[q])
    BY <1>1, <1>3 DEF WatchInv
  <1>4. \A q \in Routings : Older(cache[q], cache'[q])
    BY <1>1 DEF WatchInv, View
  <1> QED
    BY <1>1, <1>2, <1>3, <1>4 DEF WatchInv

-----------------------------------------------------------------------------
(* What a step preserves when it makes no object Ready.                    *)

\* The stored object t, written over s, is Ready only if s was, for the same spec.
NotNewlyReady(s, t) ==
    /\ Exists(t) /\ t.status.phase = "Ready"
          => Exists(s) /\ s.uid = t.uid /\ s.status.phase = "Ready"
    /\ ReadyNow(t) => ReadyNow(s) /\ s.generation = t.generation /\ s.net = t.net
    /\ t.status.observed <= t.generation

\* A step that moves the store and the cache forward.
Forward ==
    /\ TypeOK /\ TypeOK' /\ WatchInv /\ WatchInv'
    /\ \A q \in Routings : Older(cache[q], cache'[q]) /\ Older(store[q], store'[q])

LEMMA BehindOlder ==
  ASSUME NEW o \in Objects, NEW s \in Objects, NEW t \in Objects, Behind(o, s), Older(s, t)
  PROVE  Behind(o, t)
  BY DEF Behind, Older, Objects

LEMMA FromCacheOlder ==
  ASSUME NEW o \in Objects, NEW s \in Objects, NEW t \in Objects, FromCache(o, s), Older(s, t)
  PROVE  FromCache(o, t)
  BY DEF FromCache, Older, Objects

LEMMA StoreKeeps ==
  ASSUME Forward, SeenInv, UniqueClaims, ReadyIsAdvertised, ra => ra',
         \A q \in Routings : NotNewlyReady(store[q], store'[q])
  PROVE  ObservedInv' /\ SeenInv' /\ UniqueClaims' /\ ReadyIsAdvertised'
  <1>0. ASSUME NEW q \in Routings
        PROVE  /\ store[q] \in Objects /\ store'[q] \in Objects
               /\ cache[q] \in Objects /\ cache'[q] \in Objects
               /\ Older(cache[q], cache'[q]) /\ Older(store[q], store'[q])
               /\ Older(cache'[q], store'[q])
    <2>1. Len(views') \in Nat
      BY DEF Forward, TypeOK
    <2>2. Older(cache'[q], store'[q])
      BY <2>1 DEF Forward, WatchInv, View
    <2> QED
      BY <2>2 DEF Forward, TypeOK
  <1>1. ObservedInv'
    BY DEF ObservedInv, NotNewlyReady
  <1>2. SeenInv'
    <2> SUFFICES ASSUME NEW r \in Routings
                 PROVE  /\ Exists(store'[r]) /\ store'[r].status.phase = "Ready"
                              => cache'[r].exists /\ cache'[r].uid = store'[r].uid
                        /\ ReadyNow(store'[r]) => cache'[r].generation = store'[r].generation
      BY DEF SeenInv
    <2>1. ASSUME Exists(store'[r]), store'[r].status.phase = "Ready"
          PROVE  cache'[r].exists /\ cache'[r].uid = store'[r].uid
      BY <1>0, <2>1 DEF SeenInv, NotNewlyReady, Older, Objects, Exists
    <2>2. ASSUME ReadyNow(store'[r])
          PROVE  cache'[r].generation = store'[r].generation
      <3>1. /\ cache[r].generation = store'[r].generation
            /\ cache[r].uid = store'[r].uid /\ cache[r].exists
        <4>1. ReadyNow(store[r]) /\ store[r].generation = store'[r].generation
          BY <2>2 DEF NotNewlyReady
        <4>2. Exists(store'[r]) /\ store'[r].status.phase = "Ready"
          BY <2>2 DEF ReadyNow, Live
        <4>3. store[r].uid = store'[r].uid
          BY <4>2 DEF NotNewlyReady
        <4> QED
          BY <4>1, <4>3 DEF SeenInv, ReadyNow, Live
      <3>2. cache'[r].exists /\ cache'[r].uid = store'[r].uid
        BY <2>1, <2>2 DEF ReadyNow, Live
      <3>3. /\ cache[r] \in Objects /\ cache'[r] \in Objects /\ store'[r] \in Objects
            /\ Older(cache[r], cache'[r]) /\ Older(cache'[r], store'[r])
        BY <1>0
      <3>4. store'[r].exists
        BY <2>2 DEF ReadyNow, Live, Exists
      <3> QED
        BY <3>1, <3>2, <3>3, <3>4 DEF Older, Objects
    <2> QED
      BY <2>1, <2>2
  <1>3. UniqueClaims'
    BY DEF UniqueClaims, NotNewlyReady
  <1>4. ReadyIsAdvertised'
    <2> SUFFICES ASSUME "drift" \notin Disturbances, NEW r \in Routings,
                        Live(store'[r]), store'[r].status.phase = "Ready"
                 PROVE  ra'
      BY DEF ReadyIsAdvertised
    <2>1. Live(store[r]) /\ store[r].status.phase = "Ready"
      <3>1. Exists(store[r]) /\ store[r].uid = store'[r].uid /\ store[r].status.phase = "Ready"
        BY DEF Live, NotNewlyReady
      <3> QED
        BY <1>0, <3>1 DEF Live, Older, Exists, Objects
    <2>2. ra
      BY <2>1 DEF ReadyIsAdvertised
    <2> QED
      BY <2>2
  <1> QED
    BY <1>1, <1>2, <1>3, <1>4

LEMMA WorkerKeeps ==
  ASSUME Forward, WorkerInv, ClaimInv, AdvertiseInv, worker' = worker, ra => ra',
         \A q \in Routings : NotNewlyReady(store[q], store'[q])
  PROVE  WorkerInv' /\ ClaimInv' /\ AdvertiseInv'
  <1>0. ASSUME NEW q \in Routings
        PROVE  /\ store[q] \in Objects /\ store'[q] \in Objects
               /\ cache[q] \in Objects /\ cache'[q] \in Objects
               /\ Older(cache[q], cache'[q]) /\ Older(store[q], store'[q])
    BY DEF Forward, TypeOK
  <1>1. WorkerInv'
    <2> SUFFICES ASSUME worker.step # "idle" PROVE WorkerInv'
      BY DEF WorkerInv
    <2>1. worker.key \in Routings /\ worker.obj \in Objects
      BY BusyType DEF Forward
    <2>2. /\ FromCache(worker.obj, cache'[worker.key])
          /\ Behind(worker.obj, store'[worker.key])
      BY <1>0, <2>1, BehindOlder, FromCacheOlder DEF WorkerInv
    <2>3. ASSUME worker.step = "finalizer", Current(worker.obj, worker.key)'
          PROVE  worker.obj = store'[worker.key]
      <3>1. Current(worker.obj, worker.key) /\ store[worker.key] = store'[worker.key]
        BY <1>0, <2>1, <2>3 DEF Current, WorkerInv, Behind, Older, Objects, Exists
      <3> QED
        BY <2>3, <3>1 DEF WorkerInv
    <2> QED
      BY <2>1, <2>2, <2>3 DEF WorkerInv
  <1>2. ClaimInv'
    <2> SUFFICES ASSUME PastDuplicate, NEW s \in Routings \ {worker.key}, ReadyNow(store'[s])
                 PROVE  store'[s].net # worker.obj.net
      BY DEF ClaimInv, PastDuplicate
    <2>1. ReadyNow(store[s]) /\ store[s].net = store'[s].net
      BY DEF NotNewlyReady
    <2> QED
      BY <2>1 DEF ClaimInv
  <1>3. \A r \in Routings : Advertised(r)' => Advertised(r)
    <2> SUFFICES ASSUME NEW r \in Routings, Live(store'[r]), store'[r].status.phase = "Ready"
                 PROVE  Live(store[r]) /\ store[r].status.phase = "Ready"
      BY DEF Advertised
    <2>1. Exists(store[r]) /\ store[r].uid = store'[r].uid /\ store[r].status.phase = "Ready"
      BY DEF Live, NotNewlyReady
    <2> QED
      BY <1>0, <2>1 DEF Live, Older, Exists, Objects
  <1>4. worker.step \in Deletion => worker.key \in Routings
    BY BusyType DEF Forward, Deletion
  <1>5. AdvertiseInv'
    BY <1>3, <1>4 DEF AdvertiseInv
  <1> QED
    BY <1>1, <1>2, <1>5

LEMMA IdleKeeps ==
  ASSUME worker' = Idle
  PROVE  WorkerInv' /\ ClaimInv' /\ AdvertiseInv'
  BY DEF Idle, WorkerInv, ClaimInv, AdvertiseInv, PastDuplicate, Deletion

-----------------------------------------------------------------------------
(* The actions.                                                            *)

\* A step that does not touch the API objects.
LEMMA SameStore ==
  ASSUME IInv, TypeOK', UNCHANGED <<store, views, cache>>
  PROVE  /\ Forward
         /\ \A q \in Routings : NotNewlyReady(store[q], store'[q])
  <1>1. WatchInv'
    BY DEF IInv, WatchInv, View
  <1>2. \A q \in Routings : Older(cache[q], cache'[q]) /\ Older(store[q], store'[q])
    BY OlderReflexive DEF IInv, TypeOK
  <1>3. \A q \in Routings : NotNewlyReady(store[q], store'[q])
    BY DEF IInv, ObservedInv, NotNewlyReady, ReadyNow, Live
  <1> QED
    BY <1>1, <1>2, <1>3 DEF Forward, IInv

\* A write that makes no object Ready.
LEMMA PutForward ==
  ASSUME IInv, TypeOK', NEW r \in Routings, NEW o \in Objects, Put(r, o),
         Older(store[r], o), NotNewlyReady(store[r], o)
  PROVE  /\ Forward
         /\ \A q \in Routings : NotNewlyReady(store[q], store'[q])
  <1>1. WatchInv' /\ \A q \in Routings : Older(store[q], store'[q])
    BY PutWatch DEF IInv
  <1>2. cache' = cache /\ store' = [store EXCEPT ![r] = o] /\ store \in [Routings -> Objects]
    BY DEF Put, IInv, TypeOK
  <1>3. \A q \in Routings : Older(cache[q], cache'[q])
    BY <1>2, OlderReflexive DEF IInv, TypeOK
  <1>4. ASSUME NEW q \in Routings PROVE NotNewlyReady(store[q], store'[q])
    <2>1. CASE q = r
      BY <1>2, <2>1
    <2>2. CASE q # r
      BY <1>2, <2>2 DEF IInv, ObservedInv, NotNewlyReady, ReadyNow, Live
    <2> QED
      BY <2>1, <2>2
  <1> QED
    BY <1>1, <1>3, <1>4 DEF Forward, IInv

\* A user's write keeps the invariant.
LEMMA UserWrite ==
  ASSUME IInv, TypeOK', NEW r \in Routings, NEW o \in Objects, Put(r, o),
         Older(store[r], o), NotNewlyReady(store[r], o), worker' = worker, ra' = ra
  PROVE  IInv'
  BY PutForward, StoreKeeps, WorkerKeeps DEF IInv, Forward

LEMMA GoneIsNewer ==
  ASSUME NEW o PROVE Older(o, Gone(o.uid)) /\ NotNewlyReady(o, Gone(o.uid))
  <1>1. /\ Gone(o.uid).uid = o.uid /\ Gone(o.uid).exists = FALSE
        /\ Gone(o.uid).status.observed = 0 /\ Gone(o.uid).generation = 0
    BY DEF Gone, NoStatus
  <1>2. Older(o, Gone(o.uid))
    BY <1>1 DEF Older
  <1>3. NotNewlyReady(o, Gone(o.uid))
    BY <1>1 DEF NotNewlyReady, ReadyNow, Live, Exists
  <1> QED
    BY <1>2, <1>3

LEMMA FreshNotReady ==
  ASSUME NEW s, NEW t, t.status.phase # "Ready", t.status.observed = 0, t.generation = 1
  PROVE  NotNewlyReady(s, t)
  BY DEF NotNewlyReady, ReadyNow

LEMMA CreateKeeps ==
  ASSUME IInv, TypeOK', NEW r \in Routings, CreateRouting(r) PROVE IInv'
  <1> DEFINE o(n, s) ==
        [exists |-> TRUE, uid |-> store[r].uid + 1, rv |-> 1, generation |-> 1,
         net |-> n, subnets |-> s, deleting |-> FALSE, finalizer |-> FALSE,
         status |-> NoStatus]
  <1>1. PICK n \in Names[r], s \in Subnets : Put(r, o(n, s))
    BY DEF CreateRouting
  <1>2. n \in Nets /\ store[r].uid \in Nat
    BY NamesAssumption DEF IInv, TypeOK, Objects
  <1>3. o(n, s) \in Objects
    BY <1>2 DEF Objects, NoStatus, Statuses, Phases, NetworkReasons, RAReasons
  <1>4. Older(store[r], o(n, s))
    BY <1>2 DEF Older
  <1>5. /\ o(n, s).generation = 1
        /\ o(n, s).status.phase # "Ready" /\ o(n, s).status.observed = 0
    BY DEF NoStatus
  <1>6. NotNewlyReady(store[r], o(n, s))
    <2> HIDE DEF o
    <2> QED
      BY <1>5, FreshNotReady
  <1> QED
    BY <1>1, <1>3, <1>4, <1>6, UserWrite DEF CreateRouting

LEMMA EditKeeps ==
  ASSUME IInv, TypeOK', NEW r \in Routings, EditRouting(r) PROVE IInv'
  <1> DEFINE e(n, s) == [store[r] EXCEPT !.generation = @ + 1, !.net = n, !.subnets = s]
             o(n, s) == [e(n, s) EXCEPT !.rv = @ + 1]
  <1>1. PICK n \in Names[r], s \in Subnets : Put(r, o(n, s))
    BY DEF EditRouting, Write
  <1>2. /\ n \in Nets /\ store[r] \in Objects /\ store[r].generation + 1 \in Nat
        /\ store[r].exists
    BY NamesAssumption DEF IInv, TypeOK, Objects, EditRouting, Exists
  <1>3. e(n, s) \in Objects
    BY <1>2, EditType
  <1>4. o(n, s) \in Objects
    <2> HIDE DEF e
    <2>1. e(n, s).rv + 1 \in Nat
      BY <1>3 DEF Objects
    <2> QED
      BY <1>3, <2>1, MarkType
  <1>5. /\ o(n, s).uid = store[r].uid /\ o(n, s).exists = store[r].exists
        /\ o(n, s).rv = store[r].rv + 1 /\ o(n, s).generation = store[r].generation + 1
        /\ o(n, s).deleting = store[r].deleting /\ o(n, s).status = store[r].status
    BY <1>2 DEF Objects
  <1>6. store[r].status.observed <= store[r].generation /\ store[r].status.observed \in Nat
    BY <1>2 DEF IInv, ObservedInv, Objects, Statuses
  <1> HIDE DEF o
  <1>7. Older(store[r], o(n, s))
    BY <1>2, <1>5 DEF Older, Objects
  <1>8. NotNewlyReady(store[r], o(n, s))
    BY <1>2, <1>5, <1>6 DEF NotNewlyReady, ReadyNow, Exists, Objects
  <1> QED
    BY <1>1, <1>4, <1>7, <1>8, UserWrite DEF EditRouting

LEMMA DeleteKeeps ==
  ASSUME IInv, TypeOK', NEW r \in Routings, DeleteRouting(r) PROVE IInv'
  <1> DEFINE e == [store[r] EXCEPT !.generation = @ + 1, !.deleting = TRUE]
             o == [e EXCEPT !.rv = @ + 1]
  <1>1. /\ store[r] \in Objects /\ store[r].generation + 1 \in Nat /\ store[r].exists
        /\ store[r].uid \in Nat
    BY DEF IInv, TypeOK, Objects, DeleteRouting, Exists
  <1>2. CASE Put(r, o)
    <2>1. e \in Objects
      BY <1>1, MarkType
    <2>2. o \in Objects
      <3> HIDE DEF e
      <3>1. e.rv + 1 \in Nat
        BY <2>1 DEF Objects
      <3> QED
        BY <2>1, <3>1, MarkType
    <2>3. /\ o.uid = store[r].uid /\ o.exists = store[r].exists
          /\ o.rv = store[r].rv + 1 /\ o.generation = store[r].generation + 1
          /\ o.deleting = TRUE /\ o.status = store[r].status
      BY <1>1 DEF Objects
    <2>4. store[r].status.observed <= store[r].generation /\ store[r].status.observed \in Nat
      BY <1>1 DEF IInv, ObservedInv, Objects, Statuses
    <2> HIDE DEF o
    <2>5. Older(store[r], o)
      BY <1>1, <2>3 DEF Older, Objects
    <2>6. NotNewlyReady(store[r], o)
      BY <1>1, <2>3, <2>4 DEF NotNewlyReady, ReadyNow, Exists, Objects
    <2> QED
      BY <1>2, <2>2, <2>5, <2>6, UserWrite DEF DeleteRouting
  <1>3. CASE Put(r, Gone(store[r].uid))
    <2>1. Gone(store[r].uid) \in Objects
      BY <1>1, GoneType
    <2> QED
      BY <1>3, <2>1, GoneIsNewer, UserWrite DEF DeleteRouting
  <1> QED
    BY <1>2, <1>3 DEF DeleteRouting, Write, Remove

\* The environment's other steps, and the queue's, leave objects and worker alone.
LEMMA QuietKeeps ==
  ASSUME IInv, TypeOK', UNCHANGED <<store, views, cache, worker, ra>> PROVE IInv'
  BY SameStore, StoreKeeps, WorkerKeeps DEF IInv, Forward

LEMMA RADriftsKeeps ==
  ASSUME IInv, TypeOK', RADrifts PROVE IInv'
  <1>1. /\ UNCHANGED <<store, views, cache, worker>>
        /\ "drift" \in Disturbances
    BY DEF RADrifts, apiVars
  <1>2. WatchInv' /\ ObservedInv' /\ WorkerInv' /\ SeenInv' /\ ClaimInv' /\ UniqueClaims'
    BY <1>1 DEF IInv, WatchInv, View, ObservedInv, WorkerInv, Current, SeenInv, ClaimInv,
                PastDuplicate, UniqueClaims
  <1>3. AdvertiseInv' /\ ReadyIsAdvertised'
    BY <1>1 DEF IInv, AdvertiseInv, Advertised, ReadyIsAdvertised
  <1> QED
    BY <1>2, <1>3 DEF IInv

LEMMA RestartKeeps ==
  ASSUME IInv, TypeOK', Restart PROVE IInv'
  <1>1. /\ cache' = store /\ store' = store /\ views' = <<>> /\ worker' = Idle /\ ra' = ra
        /\ store \in [Routings -> Objects]
    BY DEF Restart, IInv, TypeOK
  <1>2. WatchInv'
    BY <1>1, OlderReflexive DEF WatchInv, View
  <1>3. \A q \in Routings : Older(cache[q], cache'[q]) /\ Older(store[q], store'[q])
    BY <1>1, CacheIsOlder, OlderReflexive DEF IInv
  <1>4. \A q \in Routings : NotNewlyReady(store[q], store'[q])
    BY <1>1 DEF IInv, ObservedInv, NotNewlyReady, ReadyNow, Live
  <1> QED
    BY <1>1, <1>2, <1>3, <1>4, StoreKeeps, IdleKeeps DEF IInv, Forward

LEMMA DeliverKeeps ==
  ASSUME IInv, TypeOK', DeliverView PROVE IInv'
  <1>1. store' = store /\ worker' = worker /\ ra' = ra /\ store \in [Routings -> Objects]
    BY DEF DeliverView, IInv, TypeOK
  <1>2. WatchInv' /\ \A q \in Routings : Older(cache[q], cache'[q])
    BY DeliverWatch DEF IInv
  <1>3. \A q \in Routings : NotNewlyReady(store[q], store'[q]) /\ Older(store[q], store'[q])
    BY <1>1, OlderReflexive DEF IInv, ObservedInv, NotNewlyReady, ReadyNow, Live
  <1> QED
    BY <1>1, <1>2, <1>3, StoreKeeps, WorkerKeeps DEF IInv, Forward

LEMMA GetKeeps ==
  ASSUME IInv, TypeOK', NEW r \in Routings, GetRouting(r) PROVE IInv'
  <1>1. UNCHANGED <<store, views, cache, ra>>
    BY DEF GetRouting, apiVars
  <1>2. WatchInv' /\ ObservedInv' /\ SeenInv' /\ UniqueClaims' /\ ReadyIsAdvertised'
    BY <1>1, SameStore, StoreKeeps DEF IInv, Forward
  <1>3. CASE worker' = Idle
    BY <1>2, <1>3, IdleKeeps DEF IInv
  <1>4. CASE worker' # Idle
    <2>1. /\ cache[r].exists
          /\ worker'.step = IF cache[r].deleting THEN "deleteCUDN" ELSE "finalizer"
          /\ worker'.key = r /\ worker'.obj = cache[r]
      BY <1>4 DEF GetRouting, Exists
    <2>2. /\ cache[r] \in Objects /\ store[r] \in Objects
          /\ Older(cache[r], store[r])
      BY CacheIsOlder DEF IInv, TypeOK
    <2>3. FromCache(cache[r], cache[r]) /\ Behind(cache[r], store[r])
      BY <2>1, <2>2 DEF FromCache, Behind, Older, Objects
    <2>4. Current(cache[r], r) => cache[r] = store[r]
      BY <2>1, <2>2 DEF Current, Older, Objects, Exists
    <2>5. WorkerInv'
      BY <1>1, <2>1, <2>3, <2>4 DEF WorkerInv, Deletion, Current
    <2>6. ClaimInv'
      BY <2>1 DEF ClaimInv, PastDuplicate
    <2>7. ASSUME cache[r].deleting PROVE ~Advertised(r)
      BY <2>1, <2>2, <2>7 DEF IInv, SeenInv, Advertised, Live, Exists, Older, Objects
    <2>8. AdvertiseInv'
      BY <1>1, <2>1, <2>7 DEF AdvertiseInv, Deletion, Advertised
    <2> QED
      BY <1>2, <2>5, <2>6, <2>8 DEF IInv
  <1> QED
    BY <1>3, <1>4

\* A step of the reconcile after the finalizer that only builds the status.
LEMMA BuildKeepsWorker ==
  ASSUME IInv, UNCHANGED <<store, cache>>,
         worker.step \notin Deletion \cup {"idle", "finalizer"},
         worker'.step \notin Deletion \cup {"idle", "finalizer"},
         worker'.key = worker.key,
         NEW st \in Statuses, st.observed = worker.obj.generation,
         worker'.obj = [worker.obj EXCEPT !.status = st]
  PROVE  WorkerInv'
  <1>1. worker.key \in Routings /\ worker.obj \in Objects
    BY BusyType DEF IInv
  <1>2. /\ worker'.obj.exists = worker.obj.exists /\ worker'.obj.uid = worker.obj.uid
        /\ worker'.obj.rv = worker.obj.rv /\ worker'.obj.generation = worker.obj.generation
        /\ worker'.obj.net = worker.obj.net /\ worker'.obj.subnets = worker.obj.subnets
        /\ worker'.obj.deleting = worker.obj.deleting
        /\ worker'.obj.finalizer = worker.obj.finalizer
        /\ worker'.obj.status = st
    BY <1>1 DEF Objects
  <1>3. FromCache(worker'.obj, cache[worker.key]) /\ Behind(worker'.obj, store[worker.key])
    BY <1>2 DEF IInv, WorkerInv, FromCache, Behind
  <1> QED
    BY <1>1, <1>2, <1>3 DEF IInv, WorkerInv

\* The statuses built keep the observed generation.
LEMMA GotoStatusKeeps ==
  ASSUME IInv, TypeOK', UNCHANGED <<store, views, cache>>,
         worker.step \notin Deletion \cup {"idle", "finalizer"},
         NEW st \in Statuses, NEW q, GotoStatus(st, q), st.observed = worker.obj.generation
  PROVE  WorkerInv' /\ worker'.step = "status" /\ worker'.obj.status = st
                    /\ worker'.key = worker.key /\ worker'.obj.net = worker.obj.net
  <1>1. worker \in Reconciles /\ worker.obj \in Objects
    BY BusyType DEF IInv
  <1>2. /\ worker'.step = "status" /\ worker'.key = worker.key
        /\ worker'.obj = [worker.obj EXCEPT !.status = st]
    BY <1>1 DEF GotoStatus, Reconciles
  <1>3. worker'.obj.status = st /\ worker'.obj.net = worker.obj.net
    BY <1>1, <1>2 DEF Objects
  <1> QED
    BY <1>2, <1>3, BuildKeepsWorker DEF Deletion

LEMMA SetDegradedKeeps ==
  ASSUME IInv, TypeOK', UNCHANGED <<store, views, cache>>, ra => ra',
         worker.step \notin Deletion \cup {"idle", "finalizer"},
         NEW c, NEW reason \in NetworkReasons \cup RAReasons,
         c = "NetworkCreated" => reason \in NetworkReasons,
         c = "RouteAdvertisementsCreated" => reason \in RAReasons,
         SetDegraded(c, reason)
  PROVE  IInv'
  <1> DEFINE st == [worker.obj.status EXCEPT !.phase = "Degraded",
                       !.networkCreated = IF c = "NetworkCreated" THEN reason ELSE @,
                       !.raCreated = IF c = "RouteAdvertisementsCreated" THEN reason ELSE @]
  <1>1. worker.obj.status \in Statuses /\ worker.obj.status.observed = worker.obj.generation
    BY BusyType DEF IInv, WorkerInv
  <1>2. st \in Statuses
    BY <1>1, DegradedType
  <1>3. st.phase = "Degraded" /\ st.observed = worker.obj.generation
    BY <1>1 DEF Statuses
  <1>4. GotoStatus(st, reason \notin TerminalReasons)
    BY DEF SetDegraded
  <1> HIDE DEF st
  <1>5. WorkerInv' /\ worker'.step = "status" /\ worker'.obj.status.phase = "Degraded"
    BY <1>2, <1>3, <1>4, GotoStatusKeeps
  <1>6. ClaimInv' /\ AdvertiseInv'
    BY <1>5 DEF ClaimInv, PastDuplicate, AdvertiseInv, Deletion
  <1>7. WatchInv' /\ ObservedInv' /\ SeenInv' /\ UniqueClaims' /\ ReadyIsAdvertised'
    BY SameStore, StoreKeeps DEF IInv, Forward
  <1> QED
    BY <1>5, <1>6, <1>7 DEF IInv

\* A step of the reconcile that only moves on, and keeps what it may claim.
LEMMA GotoKeeps ==
  ASSUME IInv, TypeOK', UNCHANGED <<store, views, cache, ra>>,
         worker.step \notin Deletion \cup {"idle", "finalizer"},
         NEW step \in {"config", "namespace", "cudn"}, Goto(step),
         \A s \in Routings \ {worker.key} : ReadyNow(store[s]) => store[s].net # worker.obj.net
  PROVE  IInv'
  <1>1. worker \in Reconciles /\ worker.obj \in Objects /\ worker.obj.status \in Statuses
    BY BusyType DEF IInv
  <1>2. worker'.step = step /\ worker'.key = worker.key /\ worker'.obj = worker.obj
    BY <1>1 DEF Goto, Reconciles
  <1>3. WorkerInv'
    BY <1>1, <1>2 DEF IInv, WorkerInv, Deletion
  <1>4. ClaimInv' /\ AdvertiseInv'
    BY <1>2 DEF ClaimInv, AdvertiseInv, Deletion
  <1>5. WatchInv' /\ ObservedInv' /\ SeenInv' /\ UniqueClaims' /\ ReadyIsAdvertised'
    BY SameStore, StoreKeeps DEF IInv, Forward
  <1> QED
    BY <1>3, <1>4, <1>5 DEF IInv

LEMMA CheckDuplicateKeeps ==
  ASSUME IInv, TypeOK', CheckDuplicate PROVE IInv'
  <1>1. UNCHANGED <<store, views, cache, ra>> /\ worker.step = "duplicate"
    BY DEF CheckDuplicate, apiVars
  <1>2. CASE SetDegraded("NetworkCreated", "DuplicateNetwork")
    BY <1>1, <1>2, SetDegradedKeeps DEF Deletion, NetworkReasons
  <1>3. CASE /\ Goto("config")
             /\ \A s \in Routings \ {worker.key} : ~(Exists(cache[s]) /\ cache[s].net = worker.obj.net)
    <2>1. ASSUME NEW s \in Routings \ {worker.key}, ReadyNow(store[s])
          PROVE  store[s].net # worker.obj.net
      <3>1. Exists(cache[s]) /\ cache[s].uid = store[s].uid
                             /\ cache[s].generation = store[s].generation
        BY <2>1 DEF IInv, SeenInv, ReadyNow, Live, Exists
      <3>2. Older(cache[s], store[s]) /\ cache[s] \in Objects /\ store[s] \in Objects
        BY CacheIsOlder DEF IInv, TypeOK
      <3>3. cache[s].net = store[s].net
        BY <2>1, <3>1, <3>2 DEF Older, Objects, ReadyNow, Live, Exists
      <3> QED
        BY <1>3, <3>1, <3>3
    <2> QED
      BY <1>1, <1>3, <2>1, GotoKeeps DEF Deletion
  <1> QED
    BY <1>2, <1>3 DEF CheckDuplicate

LEMMA CheckConfigKeeps ==
  ASSUME IInv, TypeOK', CheckConfig PROVE IInv'
  <1>1. UNCHANGED <<store, views, cache, ra>> /\ worker.step = "config"
    BY DEF CheckConfig, apiVars
  <1>2. CASE Goto("namespace")
    BY <1>1, <1>2, GotoKeeps DEF Deletion, IInv, ClaimInv, PastDuplicate
  <1> DEFINE st == [NoStatus EXCEPT !.phase = "Pending", !.observed = worker.obj.status.observed]
  <1>3. CASE GotoStatus(st, TRUE)
    <2>1. worker.obj.status \in Statuses /\ worker.obj.status.observed = worker.obj.generation
      BY <1>1, BusyType DEF IInv, WorkerInv, Deletion
    <2>2. st \in Statuses
      BY <2>1 DEF NoStatus, Statuses, Phases, NetworkReasons, RAReasons
    <2>3. st.observed = worker.obj.generation /\ st.phase = "Pending"
      BY <2>1 DEF NoStatus
    <2> HIDE DEF st
    <2>4. WorkerInv' /\ worker'.step = "status" /\ worker'.obj.status.phase = "Pending"
      BY <1>1, <1>3, <2>2, <2>3, GotoStatusKeeps DEF Deletion
    <2>5. ClaimInv' /\ AdvertiseInv'
      BY <2>4 DEF ClaimInv, PastDuplicate, AdvertiseInv, Deletion
    <2>6. WatchInv' /\ ObservedInv' /\ SeenInv' /\ UniqueClaims' /\ ReadyIsAdvertised'
      BY <1>1, SameStore, StoreKeeps DEF IInv, Forward
    <2> QED
      BY <2>4, <2>5, <2>6 DEF IInv
  <1> QED
    BY <1>2, <1>3 DEF CheckConfig

LEMMA ValidateKeeps ==
  ASSUME IInv, TypeOK', ValidateNamespaceLabels PROVE IInv'
  <1>1. UNCHANGED <<store, views, cache, ra>> /\ worker.step = "namespace"
    BY DEF ValidateNamespaceLabels, apiVars
  <1>2. CASE SetDegraded("NetworkCreated", "NamespaceNotReady")
    BY <1>1, <1>2, SetDegradedKeeps DEF Deletion, NetworkReasons
  <1>3. CASE Goto("cudn")
    BY <1>1, <1>3, GotoKeeps DEF Deletion, IInv, ClaimInv, PastDuplicate
  <1> QED
    BY <1>2, <1>3 DEF ValidateNamespaceLabels

\* What a write changes besides what its author changed.
LEMMA WriteFields ==
  ASSUME NEW o \in Objects, NEW g \in Nat
  PROVE  LET p == [o EXCEPT !.rv = g]
         IN  /\ p \in Objects
             /\ p.exists = o.exists /\ p.uid = o.uid /\ p.rv = g
             /\ p.generation = o.generation /\ p.net = o.net /\ p.subnets = o.subnets
             /\ p.deleting = o.deleting /\ p.finalizer = o.finalizer /\ p.status = o.status
  BY DEF Objects

LEMMA EnsureFinalizerKeeps ==
  ASSUME IInv, TypeOK', EnsureFinalizer PROVE IInv'
  <1> DEFINE w == worker.obj
             k == worker.key
  <1>0. /\ worker.step = "finalizer" /\ ra' = ra
        /\ worker \in Reconciles /\ k \in Routings /\ w \in Objects
        /\ w.status \in Statuses /\ w.generation \in Nat /\ w.rv \in Nat
        /\ store \in [Routings -> Objects]
        /\ w.exists /\ FromCache(w, cache[k]) /\ Behind(w, store[k])
    BY BusyType DEF EnsureFinalizer, IInv, WorkerInv, TypeOK, Objects
  <1>1. /\ Started(w).exists = w.exists /\ Started(w).uid = w.uid /\ Started(w).rv = w.rv
        /\ Started(w).generation = w.generation /\ Started(w).net = w.net
        /\ Started(w).subnets = w.subnets /\ Started(w).deleting = w.deleting
        /\ Started(w).finalizer = TRUE /\ Started(w).status.observed = w.generation
    BY <1>0 DEF Started, Objects, Statuses
  <1>2. CASE /\ w.finalizer
             /\ worker' = [worker EXCEPT !.step = "duplicate", !.obj = Started(w)]
             /\ UNCHANGED <<store, views, cache>>
    <2>1. worker'.step = "duplicate" /\ worker'.key = k /\ worker'.obj = Started(w)
      BY <1>0, <1>2 DEF Reconciles
    <2>2. FromCache(Started(w), cache[k]) /\ Behind(Started(w), store[k])
      BY <1>0, <1>1, <1>2 DEF FromCache, Behind
    <2>3. WorkerInv'
      BY <1>0, <1>1, <1>2, <2>1, <2>2 DEF WorkerInv
    <2>4. ClaimInv' /\ AdvertiseInv'
      BY <2>1 DEF ClaimInv, PastDuplicate, AdvertiseInv, Deletion
    <2>5. WatchInv' /\ ObservedInv' /\ SeenInv' /\ UniqueClaims' /\ ReadyIsAdvertised'
      BY <1>0, <1>2, SameStore, StoreKeeps DEF IInv, Forward
    <2> QED
      BY <2>3, <2>4, <2>5 DEF IInv
  <1> DEFINE f == [w EXCEPT !.finalizer = TRUE]
             o == [f EXCEPT !.rv = @ + 1]
             t == [Started(w) EXCEPT !.rv = w.rv + 1]
  <1>3. /\ o \in Objects
        /\ o.exists = w.exists /\ o.uid = w.uid /\ o.rv = w.rv + 1
        /\ o.generation = w.generation /\ o.net = w.net /\ o.subnets = w.subnets
        /\ o.deleting = w.deleting /\ o.finalizer = TRUE /\ o.status = w.status
    <2>1. /\ f \in Objects
          /\ f.exists = w.exists /\ f.uid = w.uid /\ f.rv = w.rv
          /\ f.generation = w.generation /\ f.net = w.net /\ f.subnets = w.subnets
          /\ f.deleting = w.deleting /\ f.finalizer = TRUE /\ f.status = w.status
      BY <1>0 DEF Objects
    <2> HIDE DEF f
    <2>2. f.rv + 1 \in Nat
      BY <1>0, <2>1
    <2> QED
      BY <2>1, <2>2, WriteFields
  <1>4. /\ t.exists = w.exists /\ t.uid = w.uid /\ t.rv = w.rv + 1
        /\ t.generation = w.generation /\ t.net = w.net
        /\ t.subnets = w.subnets /\ t.deleting = w.deleting
        /\ t.finalizer = TRUE /\ t.status.observed = w.generation
    BY <1>0, <1>1, StartedType DEF Objects
  <1>5. ASSUME Current(w, k), Put(k, o),
               \/ worker' = Idle
               \/ worker' = [worker EXCEPT !.step = "duplicate", !.obj = t]
        PROVE  IInv'
    <2>1. w = store[k]
      BY <1>0, <1>5 DEF IInv, WorkerInv
    <2>2. Older(store[k], o)
      BY <1>0, <1>3, <2>1 DEF Older
    <2>3. NotNewlyReady(store[k], o)
      BY <1>0, <1>3, <2>1 DEF IInv, ObservedInv, NotNewlyReady, ReadyNow, Live, Exists
    <2>4. Forward /\ \A q \in Routings : NotNewlyReady(store[q], store'[q])
      BY <1>0, <1>3, <1>5, <2>2, <2>3, PutForward
    <2>5. WatchInv' /\ ObservedInv' /\ SeenInv' /\ UniqueClaims' /\ ReadyIsAdvertised'
      BY <1>0, <2>4, StoreKeeps DEF IInv, Forward
    <2>6. CASE worker' = Idle
      BY <2>5, <2>6, IdleKeeps DEF IInv
    <2>7. CASE worker' = [worker EXCEPT !.step = "duplicate", !.obj = t]
      <3>1. worker'.step = "duplicate" /\ worker'.key = k /\ worker'.obj = t
        BY <1>0, <2>7 DEF Reconciles
      <3>2. store'[k] = o /\ cache' = cache
        BY <1>0, <1>5 DEF Put
      <3>3. FromCache(t, cache[k]) /\ Behind(t, o)
        <4>1. FromCache(t, cache[k])
          BY <1>0, <1>4 DEF FromCache
        <4>2. w.rv + 1 <= w.rv + 1 /\ w.generation <= w.generation
          BY <1>0
        <4> HIDE DEF t, o, w
        <4>3. Behind(t, o)
          BY <1>0, <1>3, <1>4, <4>2 DEF Behind
        <4> QED
          BY <4>1, <4>3
      <3>4. WorkerInv'
        BY <1>0, <1>4, <3>1, <3>2, <3>3 DEF WorkerInv
      <3>5. ClaimInv' /\ AdvertiseInv'
        BY <3>1 DEF ClaimInv, PastDuplicate, AdvertiseInv, Deletion
      <3> QED
        BY <2>5, <3>4, <3>5 DEF IInv
    <2> QED
      BY <1>5, <2>6, <2>7
  <1>6. CASE worker' = Idle /\ UNCHANGED <<store, views, cache>>
    <2>1. WatchInv' /\ ObservedInv' /\ SeenInv' /\ UniqueClaims' /\ ReadyIsAdvertised'
      BY <1>0, <1>6, SameStore, StoreKeeps DEF IInv, Forward
    <2> QED
      BY <1>6, <2>1, IdleKeeps DEF IInv
  <1>7. ASSUME Current(w, k), NEW out \in Outcomes,
               IF Applied(out) THEN Put(k, o) ELSE UNCHANGED <<store, views, cache>>,
               IF out = "ok"
               THEN worker' = [worker EXCEPT !.step = "duplicate", !.obj = t]
               ELSE worker' = Idle
        PROVE  IInv'
    <2> HIDE DEF t, o
    <2>1. CASE Applied(out)
      BY <1>5, <1>7, <2>1
    <2>2. CASE ~Applied(out)
      BY <1>6, <1>7, <2>2 DEF Applied
    <2> QED
      BY <2>1, <2>2
  <1>8. CASE /\ Current(w, k)
             /\ \E out \in Outcomes :
                   /\ IF Applied(out) THEN Put(k, o) ELSE UNCHANGED <<store, views, cache>>
                   /\ IF out = "ok"
                      THEN worker' = [worker EXCEPT !.step = "duplicate", !.obj = t]
                      ELSE worker' = Idle
    <2> HIDE DEF t, o
    <2> QED
      BY <1>7, <1>8
  <1> QED
    BY <1>2, <1>6, <1>8 DEF EnsureFinalizer, Write, Return, apiVars

\* The reconcile returns without having written a BGPRouting.
LEMMA ReturnKeeps ==
  ASSUME IInv, TypeOK', UNCHANGED <<store, views, cache>>, ra => ra', worker' = Idle
  PROVE  IInv'
  <1>1. WatchInv' /\ ObservedInv' /\ SeenInv' /\ UniqueClaims' /\ ReadyIsAdvertised'
    BY SameStore, StoreKeeps DEF IInv, Forward
  <1> QED
    BY <1>1, IdleKeeps DEF IInv

LEMMA EnsureClusterUDNKeeps ==
  ASSUME IInv, TypeOK', EnsureClusterUDN PROVE IInv'
  <1>1. UNCHANGED <<store, views, cache, ra>> /\ worker.step = "cudn"
    BY DEF EnsureClusterUDN, apiVars
  <1>2. CASE \/ SetDegraded("NetworkCreated", "CUDNFailed")
             \/ SetDegraded("NetworkCreated", "CUDNSpecInvalid")
    BY <1>1, <1>2, SetDegradedKeeps DEF Deletion, NetworkReasons
  <1>3. CASE worker' = [worker EXCEPT !.step = "ra", !.obj.status.networkCreated = "Created"]
    <2> DEFINE st == [worker.obj.status EXCEPT !.networkCreated = "Created"]
    <2>1. /\ worker \in Reconciles /\ worker.obj \in Objects /\ worker.obj.status \in Statuses
          /\ worker.obj.status.observed = worker.obj.generation
      BY <1>1, BusyType DEF IInv, WorkerInv, Deletion
    <2>2. st \in Statuses /\ st.observed = worker.obj.generation
      BY <2>1 DEF Statuses, NetworkReasons
    <2>3. /\ worker'.step = "ra" /\ worker'.key = worker.key
          /\ worker'.obj = [worker.obj EXCEPT !.status = st]
      BY <1>3, <2>1 DEF Reconciles, Objects
    <2> HIDE DEF st
    <2>4. WorkerInv'
      BY <1>1, <2>2, <2>3, BuildKeepsWorker DEF Deletion
    <2>5. worker'.obj.net = worker.obj.net
      BY <2>1, <2>3 DEF Objects
    <2>6. ClaimInv' /\ AdvertiseInv'
      BY <1>1, <2>3, <2>5 DEF IInv, ClaimInv, PastDuplicate, AdvertiseInv, Deletion
    <2>7. WatchInv' /\ ObservedInv' /\ SeenInv' /\ UniqueClaims' /\ ReadyIsAdvertised'
      BY <1>1, SameStore, StoreKeeps DEF IInv, Forward
    <2> QED
      BY <2>4, <2>6, <2>7 DEF IInv
  <1> QED
    BY <1>2, <1>3 DEF EnsureClusterUDN

LEMMA EnsureRAKeeps ==
  ASSUME IInv, TypeOK', EnsureRouteAdvertisements PROVE IInv'
  <1>1. UNCHANGED <<store, views, cache>> /\ worker.step = "ra" /\ (ra => ra')
    BY DEF EnsureRouteAdvertisements, CreateOrUpdateRA, apiVars
  <1> DEFINE st == [worker.obj.status EXCEPT !.raCreated = "Created", !.phase = "Ready"]
  <1>2. CASE GotoStatus(st, TRUE) /\ ra'
    <2>1. /\ worker.obj.status \in Statuses
          /\ worker.obj.status.observed = worker.obj.generation
      BY <1>1, BusyType DEF IInv, WorkerInv, Deletion
    <2>2. st \in Statuses /\ st.observed = worker.obj.generation
      BY <2>1 DEF Statuses, Phases, RAReasons
    <2> HIDE DEF st
    <2>3. /\ WorkerInv' /\ worker'.step = "status"
          /\ worker'.key = worker.key /\ worker'.obj.net = worker.obj.net
      BY <1>1, <1>2, <2>2, GotoStatusKeeps DEF Deletion
    <2>4. ClaimInv'
      BY <1>1, <2>3 DEF IInv, ClaimInv, PastDuplicate
    <2>5. AdvertiseInv'
      BY <1>2, <2>3 DEF AdvertiseInv, Deletion
    <2>6. WatchInv' /\ ObservedInv' /\ SeenInv' /\ UniqueClaims' /\ ReadyIsAdvertised'
      BY <1>1, SameStore, StoreKeeps DEF IInv, Forward
    <2> QED
      BY <2>3, <2>4, <2>5, <2>6 DEF IInv
  <1>3. CASE SetDegraded("RouteAdvertisementsCreated", "RAFailed")
    BY <1>1, <1>3, SetDegradedKeeps DEF Deletion, RAReasons
  <1>4. PICK out \in Outcomes :
          /\ ra' = (ra \/ Applied(out))
          /\ IF out = "ok" THEN GotoStatus(st, TRUE)
                           ELSE SetDegraded("RouteAdvertisementsCreated", "RAFailed")
    BY DEF EnsureRouteAdvertisements, CreateOrUpdateRA
  <1> HIDE DEF st
  <1>5. CASE out = "ok"
    <2>1. Applied(out)
      BY <1>5 DEF Applied
    <2>2. ra'
      BY <1>4, <2>1, Zenon
    <2> QED
      BY <1>2, <1>4, <1>5, <2>2
  <1> QED
    BY <1>3, <1>4, <1>5

\* The status write: what the copy says is true of the object it replaces.
LEMMA StatusWriteKeeps ==
  ASSUME IInv, TypeOK', worker.step = "status", Current(worker.obj, worker.key),
         Write(worker.key, worker.obj), worker' = Idle, ra' = ra
  PROVE  IInv'
  <1> DEFINE w == worker.obj
             k == worker.key
             o == [w EXCEPT !.rv = @ + 1]
  <1>0. /\ k \in Routings /\ w \in Objects /\ w.rv + 1 \in Nat /\ w.exists
        /\ store \in [Routings -> Objects] /\ store[k] \in Objects /\ cache[k] \in Objects
        /\ FromCache(w, cache[k]) /\ Behind(w, store[k]) /\ Older(cache[k], store[k])
        /\ w.status.observed = w.generation
        /\ store[k].exists /\ store[k].uid = w.uid /\ store[k].rv = w.rv
    <2>1. k \in Routings /\ w \in Objects /\ TypeOK /\ WatchInv
      BY BusyType DEF IInv
    <2>2. Older(cache[k], store[k])
      BY <2>1, CacheIsOlder
    <2>3. w.rv + 1 \in Nat
      BY <2>1 DEF Objects
    <2>4. /\ w.exists /\ FromCache(w, cache[k]) /\ Behind(w, store[k])
          /\ w.status.observed = w.generation
      BY DEF IInv, WorkerInv, Deletion
    <2>5. store \in [Routings -> Objects] /\ store[k] \in Objects /\ cache[k] \in Objects
      BY <2>1 DEF TypeOK
    <2>6. store[k].exists /\ store[k].uid = w.uid /\ store[k].rv = w.rv
      BY DEF Current, Exists
    <2> QED
      BY <2>1, <2>2, <2>3, <2>4, <2>5, <2>6
  <1>1. /\ o \in Objects /\ o.exists = w.exists /\ o.uid = w.uid /\ o.rv = w.rv + 1
        /\ o.generation = w.generation /\ o.net = w.net /\ o.subnets = w.subnets
        /\ o.deleting = w.deleting /\ o.status = w.status
    BY <1>0, WriteFields
  <1> HIDE DEF o, w
  <1>2. /\ w.generation = store[k].generation /\ w.net = store[k].net
        /\ w.subnets = store[k].subnets /\ w.deleting = store[k].deleting
    BY <1>0 DEF Behind, Objects
  <1>3. Older(store[k], o)
    <2>1. store[k].rv \in Nat /\ store[k].generation \in Nat
      BY <1>0 DEF Objects
    <2> HIDE DEF k
    <2> QED
      BY <1>0, <1>1, <1>2, <2>1 DEF Older
  <1>4. Put(k, o)
    BY DEF Write, o, w
  <1>5. WatchInv'
    BY <1>0, <1>1, <1>3, <1>4, PutWatch DEF IInv
  <1>6. store' = [store EXCEPT ![k] = o] /\ cache' = cache
    BY <1>4 DEF Put
  <1>7. ObservedInv'
    <2> SUFFICES ASSUME NEW r \in Routings
                 PROVE  store'[r].status.observed <= store'[r].generation
      BY DEF ObservedInv
    <2>1. CASE r = k
      BY <1>0, <1>1, <1>6, <2>1 DEF Objects
    <2>2. CASE r # k
      BY <1>0, <1>6, <2>2 DEF IInv, ObservedInv
    <2> QED
      BY <2>1, <2>2
  <1>8. /\ cache[k].exists /\ cache[k].uid = o.uid
        /\ cache[k].generation = o.generation
    BY <1>0, <1>1, <1>2 DEF FromCache, Older, Objects
  <1>9. SeenInv'
    BY <1>0, <1>6, <1>8 DEF IInv, SeenInv
  <1>10. ASSUME NEW r \in Routings \ {k}, ReadyNow(store[r]), ReadyNow(o)
         PROVE  store[r].net # o.net
    BY <1>1, <1>10 DEF IInv, ClaimInv, PastDuplicate, ReadyNow, w
  <1>11. UniqueClaims'
    <2> SUFFICES ASSUME NEW r \in Routings, NEW q \in Routings, r # q,
                        ReadyNow(store'[r]), ReadyNow(store'[q])
                 PROVE  store'[r].net # store'[q].net
      BY DEF UniqueClaims
    <2>1. CASE r = k
      BY <1>0, <1>6, <1>10, <2>1
    <2>2. CASE q = k
      BY <1>0, <1>6, <1>10, <2>2
    <2>3. CASE r # k /\ q # k
      BY <1>0, <1>6, <2>3 DEF IInv, UniqueClaims
    <2> QED
      BY <2>1, <2>2, <2>3
  <1>12. ReadyIsAdvertised'
    <2> SUFFICES ASSUME "drift" \notin Disturbances, NEW r \in Routings,
                        Live(store'[r]), store'[r].status.phase = "Ready"
                 PROVE  ra
      BY DEF ReadyIsAdvertised
    <2>1. CASE r = k
      <3>1. worker.obj.status.phase = "Ready"
        BY <1>0, <1>1, <1>6, <2>1 DEF w
      <3> QED
        BY <3>1 DEF IInv, AdvertiseInv
    <2>2. CASE r # k
      BY <1>0, <1>6, <2>2 DEF IInv, ReadyIsAdvertised
    <2> QED
      BY <2>1, <2>2
  <1> QED
    BY <1>5, <1>7, <1>9, <1>11, <1>12, IdleKeeps DEF IInv

LEMMA PatchStatusKeeps ==
  ASSUME IInv, TypeOK', PatchRoutingStatus PROVE IInv'
  <1>1. worker' = Idle /\ ra' = ra /\ worker.step = "status"
    BY DEF PatchRoutingStatus, Return
  <1>2. CASE UNCHANGED <<store, views, cache>>
    BY <1>1, <1>2, ReturnKeeps
  <1>3. CASE Current(worker.obj, worker.key) /\ Write(worker.key, worker.obj)
    BY <1>1, <1>3, StatusWriteKeeps
  <1> QED
    BY <1>2, <1>3 DEF PatchRoutingStatus, apiVars

-----------------------------------------------------------------------------
(* reconcileDelete.                                                        *)

\* A step of reconcileDelete to its next step.
LEMMA GotoDeletion ==
  ASSUME IInv, TypeOK', UNCHANGED <<store, views, cache>>, ra => ra',
         worker.step \in Deletion, NEW step \in Deletion, Goto(step),
         step = "deleteRA" => \A r \in Routings : ~Advertised(r)
  PROVE  IInv'
  <1>1. worker \in Reconciles /\ worker.key \in Routings
    BY BusyType DEF IInv, Deletion
  <1>2. worker'.step = step /\ worker'.key = worker.key /\ worker'.obj = worker.obj
    BY <1>1 DEF Goto, Reconciles
  <1>3. WorkerInv'
    BY <1>1, <1>2 DEF IInv, WorkerInv, Deletion
  <1>4. ClaimInv'
    BY <1>2 DEF ClaimInv, PastDuplicate, Deletion
  <1>5. AdvertiseInv'
    BY <1>1, <1>2 DEF IInv, AdvertiseInv, Advertised, Deletion
  <1>6. WatchInv' /\ ObservedInv' /\ SeenInv' /\ UniqueClaims' /\ ReadyIsAdvertised'
    BY SameStore, StoreKeeps DEF IInv, Forward
  <1> QED
    BY <1>3, <1>4, <1>5, <1>6 DEF IInv

LEMMA DeleteClusterUDNKeeps ==
  ASSUME IInv, TypeOK', DeleteClusterUDN PROVE IInv'
  <1>1. UNCHANGED <<store, views, cache, ra>> /\ worker.step = "deleteCUDN"
    BY DEF DeleteClusterUDN, DeleteCUDN, apiVars
  <1>2. CASE Goto("remaining")
    BY <1>1, <1>2, GotoDeletion DEF Deletion
  <1>3. CASE worker' = Idle
    BY <1>1, <1>3, ReturnKeeps
  <1> QED
    BY <1>2, <1>3 DEF DeleteClusterUDN, DeleteCUDN, Return

\* The cached count misses no object that is Ready.
LEMMA CountRemainingKeeps ==
  ASSUME IInv, TypeOK', CountRemaining PROVE IInv'
  <1>1. UNCHANGED <<store, views, cache, ra>> /\ worker.step = "remaining"
    BY DEF CountRemaining, apiVars
  <1>2. CASE Goto("removeFinalizer")
    BY <1>1, <1>2, GotoDeletion DEF Deletion
  <1>3. CASE /\ Goto("deleteRA")
             /\ \A s \in Routings \ {worker.key} : ~Exists(cache[s])
    <2>1. ASSUME NEW r \in Routings, Advertised(r) PROVE FALSE
      <3>1. Exists(store[r]) /\ store[r].status.phase = "Ready"
        BY <2>1 DEF Advertised, Live
      <3>2. Exists(cache[r])
        BY <3>1 DEF IInv, SeenInv, Exists
      <3>3. r = worker.key
        BY <1>3, <3>2
      <3> QED
        BY <1>1, <2>1, <3>3 DEF IInv, AdvertiseInv, Deletion
    <2> QED
      BY <1>1, <1>3, <2>1, GotoDeletion DEF Deletion
  <1> QED
    BY <1>2, <1>3 DEF CountRemaining

LEMMA DeleteRAKeeps ==
  ASSUME IInv, TypeOK', DeleteRouteAdvertisements PROVE IInv'
  <1>1. UNCHANGED <<store, views, cache>> /\ worker.step = "deleteRA"
    BY DEF DeleteRouteAdvertisements, DeleteRA, apiVars
  <1>2. \A r \in Routings : ~Advertised(r)
    BY <1>1 DEF IInv, AdvertiseInv
  <1>3. ReadyIsAdvertised'
    BY <1>1, <1>2 DEF ReadyIsAdvertised, Advertised
  <1>4. WatchInv' /\ ObservedInv' /\ SeenInv' /\ UniqueClaims'
    BY <1>1 DEF IInv, WatchInv, View, ObservedInv, SeenInv, UniqueClaims
  <1>5. CASE worker' = Idle
    BY <1>3, <1>4, <1>5, IdleKeeps DEF IInv
  <1>6. CASE Goto("removeFinalizer")
    <2>1. worker \in Reconciles /\ worker.key \in Routings
      BY <1>1, BusyType DEF IInv
    <2>2. /\ worker'.step = "removeFinalizer" /\ worker'.key = worker.key
          /\ worker'.obj = worker.obj
      BY <1>6, <2>1 DEF Goto, Reconciles
    <2>3. WorkerInv'
      BY <1>1, <2>1, <2>2 DEF IInv, WorkerInv, Deletion
    <2>4. ClaimInv'
      BY <2>2 DEF ClaimInv, PastDuplicate
    <2>5. AdvertiseInv'
      BY <1>1, <1>2, <2>1, <2>2 DEF AdvertiseInv, Advertised
    <2> QED
      BY <1>3, <1>4, <2>3, <2>4, <2>5 DEF IInv
  <1> QED
    BY <1>5, <1>6 DEF DeleteRouteAdvertisements, DeleteRA, Return

LEMMA RemoveFinalizerKeeps ==
  ASSUME IInv, TypeOK', RemoveFinalizer PROVE IInv'
  <1>1. worker' = Idle /\ ra' = ra /\ worker.step = "removeFinalizer"
    BY DEF RemoveFinalizer, Return
  <1>2. worker.key \in Routings /\ store[worker.key] \in Objects /\ store[worker.key].uid \in Nat
    BY <1>1, BusyType DEF IInv, TypeOK, Objects
  <1>3. CASE UNCHANGED <<store, views, cache>>
    BY <1>1, <1>3, ReturnKeeps
  <1>4. CASE Put(worker.key, Gone(store[worker.key].uid))
    <2>1. Gone(store[worker.key].uid) \in Objects
      BY <1>2, GoneType
    <2>2. Forward /\ \A q \in Routings : NotNewlyReady(store[q], store'[q])
      BY <1>2, <1>4, <2>1, GoneIsNewer, PutForward
    <2> QED
      BY <1>1, <2>2, StoreKeeps, IdleKeeps DEF IInv, Forward
  <1> QED
    BY <1>3, <1>4 DEF RemoveFinalizer, Remove, apiVars

-----------------------------------------------------------------------------
(* The inductive invariant.                                                *)

LEMMA InitHolds == Init => IInv
  <1> SUFFICES ASSUME Init PROVE IInv
    OBVIOUS
  <1>1. TypeOK
    BY TypeInit
  <1>2. /\ store = [r \in Routings |-> Gone(0)] /\ cache = store /\ views = <<>>
        /\ worker = Idle
    BY DEF Init
  <1>3. /\ Gone(0).exists = FALSE /\ Gone(0).status.observed = 0 /\ Gone(0).generation = 0
        /\ Gone(0) \in Objects
    BY GoneType DEF Gone, NoStatus
  <1>4. WatchInv
    BY <1>2, <1>3, OlderReflexive DEF WatchInv, View
  <1>5. ObservedInv /\ SeenInv /\ UniqueClaims /\ ReadyIsAdvertised
    BY <1>2, <1>3 DEF ObservedInv, SeenInv, UniqueClaims, ReadyIsAdvertised, ReadyNow, Live, Exists
  <1>6. WorkerInv /\ ClaimInv /\ AdvertiseInv
    BY <1>2 DEF Idle, WorkerInv, ClaimInv, AdvertiseInv, PastDuplicate, Deletion
  <1> QED
    BY <1>1, <1>4, <1>5, <1>6 DEF IInv

LEMMA StepKeeps == IInv /\ [Next]_vars => IInv'
  <1> SUFFICES ASSUME IInv, [Next]_vars PROVE IInv'
    OBVIOUS
  <1>0. TypeOK'
    BY TypeStep DEF IInv
  <1>1. CASE UNCHANGED vars
    BY <1>0, <1>1, QuietKeeps DEF vars
  <1>2. ASSUME NEW r \in Routings, CreateRouting(r) PROVE IInv'
    BY <1>0, <1>2, CreateKeeps
  <1>3. ASSUME NEW r \in Routings, EditRouting(r) PROVE IInv'
    BY <1>0, <1>3, EditKeeps
  <1>4. ASSUME NEW r \in Routings, DeleteRouting(r) PROVE IInv'
    BY <1>0, <1>4, DeleteKeeps
  <1>5. CASE ConfigChanges
    BY <1>0, <1>5, QuietKeeps DEF ConfigChanges, apiVars
  <1>6. ASSUME NEW n \in Nets, NamespaceChanges(n) PROVE IInv'
    BY <1>0, <1>6, QuietKeeps DEF NamespaceChanges, apiVars
  <1>7. ASSUME NEW n \in Nets, CUDNDrifts(n) PROVE IInv'
    BY <1>0, <1>7, QuietKeeps DEF CUDNDrifts, apiVars
  <1>8. CASE RADrifts
    BY <1>0, <1>8, RADriftsKeeps
  <1>9. CASE Restart
    BY <1>0, <1>9, RestartKeeps
  <1>10. CASE DeliverView
    BY <1>0, <1>10, DeliverKeeps
  <1>11. ASSUME NEW n \in Nets, MapClusterUDNToRouting(n) PROVE IInv'
    BY <1>0, <1>11, QuietKeeps DEF MapClusterUDNToRouting, apiVars
  <1>12. ASSUME NEW r \in Routings, TimerFires(r) PROVE IInv'
    BY <1>0, <1>12, QuietKeeps DEF TimerFires, apiVars
  <1>13. ASSUME NEW r \in Routings, GetRouting(r) PROVE IInv'
    BY <1>0, <1>13, GetKeeps
  <1>14. CASE Reconcile
    BY <1>0, <1>14, EnsureFinalizerKeeps, CheckDuplicateKeeps, CheckConfigKeeps, ValidateKeeps,
       EnsureClusterUDNKeeps, EnsureRAKeeps, PatchStatusKeeps, DeleteClusterUDNKeeps,
       CountRemainingKeeps, DeleteRAKeeps, RemoveFinalizerKeeps DEF Reconcile
  <1> QED
    BY <1>1, <1>2, <1>3, <1>4, <1>5, <1>6, <1>7, <1>8, <1>9, <1>10, <1>11, <1>12, <1>13, <1>14
    DEF Next, Environment

LEMMA Inductive == Spec => []IInv
  BY InitHolds, StepKeeps, PTL DEF Spec

\* While some BGPRouting that is not being deleted says Ready, the shared
\* RouteAdvertisements exists, although reconcileDelete decides from the cached
\* list whether it removes the last BGPRouting.
THEOREM ReadyAdvertised == Spec => []ReadyIsAdvertised
  <1>1. IInv => ReadyIsAdvertised
    BY DEF IInv
  <1> QED
    BY <1>1, Inductive, PTL

\* Two BGPRoutings are never both Ready for specs with one network name, although
\* the duplicate check reads the cached list.
THEOREM ClaimsAreUnique == Spec => []UniqueClaims
  <1>1. IInv => UniqueClaims
    BY DEF IInv
  <1> QED
    BY <1>1, Inductive, PTL

=============================================================================
