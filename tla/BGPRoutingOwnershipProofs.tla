---------------------- MODULE BGPRoutingOwnershipProofs ----------------------
(***************************************************************************)
(* Proofs about the BGPRouting controller that rest on the invariant of    *)
(* BGPRoutingProofs: no object that says Ready is forgotten by the queue,  *)
(* and no ClusterUserDefinedNetwork is left behind by the finalizer.       *)
(*                                                                         *)
(* The first is about a reconcile that ends without a retry: what it read  *)
(* was not Ready, and if the object has become Ready since, the delivery   *)
(* of that version has put the key back into the queue.  The second is     *)
(* about a reconcile that works on an old copy: the finalizer it relies on *)
(* is still in the store, because only a reconcile that read a deleted     *)
(* object removes it, and the cache never goes back from there.            *)
(***************************************************************************)
EXTENDS BGPRoutingProofs

\* While the key is not queued, the cache still has the status the reconcile read;
\* a reconcile that makes the object Ready comes back.
RevisitInv ==
    /\ worker.step # "idle" =>
          worker.key \in queue \/ cache[worker.key].status = worker.baseline
    /\ worker.step = "status" /\ worker.obj.status.phase = "Ready" => worker.requeue

\* An object keeps its network name: specs are not edited, or not their names.
NamesAreKept ==
    "edit" \in Disturbances => \A r \in Routings : \A n, m \in Names[r] : n = m

SameName(a, b) == a.exists /\ b.exists /\ a.uid = b.uid => a.net = b.net

\* s is the object of a, and has the finalizer.
Held(a, s) == s.exists /\ s.uid = a.uid /\ s.finalizer

\* A version c of an object that was not deleted and had the finalizer, against the
\* stored object s: the finalizer is still there.
StillHeld(c, s) == c.exists /\ c.finalizer /\ ~c.deleting => Held(c, s)

NamesInv ==
    \A r \in Routings :
        /\ store[r].exists => store[r].net \in Names[r]
        /\ \A i \in 0..Len(views) : SameName(View(cache, views, i)[r], store[r])

\* Every version the cache has or will have that may start a reconcile with the
\* finalizer in place is of an object that still has it.
FinalizerInv ==
    \A r \in Routings : \A i \in 0..Len(views) : StillHeld(View(cache, views, i)[r], store[r])

\* o was deleted or replaced by the time of c.
Ended(o, c) == o.uid < c.uid \/ (o.uid = c.uid /\ (c.exists => c.deleting))

\* What the worker's copy says of the object in the store.
HolderInv ==
    worker.step # "idle" =>
        /\ SameName(worker.obj, store[worker.key])
        /\ worker.step \notin Deletion /\ worker.obj.finalizer
              => Held(worker.obj, store[worker.key])
        /\ worker.step \notin Deletion \cup {"finalizer"} => worker.obj.finalizer
        /\ worker.step \in Deletion => Ended(worker.obj, cache[worker.key])

\* Past the deletion of the CUDN it is gone, and stays gone.
CleanInv ==
    worker.step \in Deletion \ {"deleteCUDN"} => cudn[worker.obj.net] = "none"

OwnInv == NamesInv /\ FinalizerInv /\ HolderInv /\ CleanInv /\ NetworksAreOwned

-----------------------------------------------------------------------------
(* No object that says Ready is forgotten.                                 *)

RInv == RevisitInv /\ ReadyIsRevisited

\* The queue, the timers or the worker will come back to r.
Scheduled(r) == r \in queue \cup delayed \cup {worker.key}

LEMMA IdleIs == Idle.step = "idle" /\ Idle.key = Nobody
  BY DEF Idle

LEMMA IdleOrBusy ==
  ASSUME TypeOK
  PROVE  \/ worker = Idle
         \/ worker \in Reconciles /\ worker.step # "idle" /\ worker.key \in Routings
  BY DEF TypeOK, Reconciles, Steps

\* A step that leaves cache and worker alone and takes nothing off the queue: an
\* object it writes is not what the cache has, or does not say Ready.
LEMMA QuietRevisits ==
  ASSUME RInv, UNCHANGED <<cache, worker>>, queue \subseteq queue',
         queue \cup delayed \subseteq queue' \cup delayed',
         \A r \in Routings : \/ store'[r] = store[r]
                             \/ store'[r] # cache[r]
                             \/ ~Advertised(r)'
  PROVE  RInv'
  <1>1. RevisitInv'
    BY DEF RInv, RevisitInv
  <1>2. ASSUME NEW r \in Routings, Advertised(r)' PROVE Scheduled(r)' \/ cache'[r] # store'[r]
    BY <1>2 DEF RInv, ReadyIsRevisited, Advertised, Live, Exists, Scheduled
  <1> QED
    BY <1>1, <1>2 DEF RInv, ReadyIsRevisited, Advertised, Scheduled

\* A write by a user is news for the cache.
LEMMA NewVersion ==
  ASSUME IInv, NEW r \in Routings, NEW o \in Objects, o.uid = store[r].uid,
         store[r].exists, o.rv = store[r].rv + 1
  PROVE  o # cache[r]
  <1>1. Older(cache[r], store[r]) /\ store[r] \in Objects /\ cache[r] \in Objects
    BY CacheIsOlder DEF IInv, TypeOK
  <1> QED
    BY <1>1 DEF Older, Objects

LEMMA CreateRevisits ==
  ASSUME IInv, RInv, TypeOK', NEW r \in Routings, CreateRouting(r) PROVE RInv'
  <1>1. store'[r].status = NoStatus /\ \A q \in Routings \ {r} : store'[q] = store[q]
    BY DEF CreateRouting, Put, IInv, TypeOK
  <1>2. NoStatus.phase # "Ready"
    BY DEF NoStatus
  <1>3. ~Advertised(r)'
    BY <1>1, <1>2 DEF Advertised
  <1> QED
    BY <1>1, <1>3, QuietRevisits DEF CreateRouting, Put, queueVars

LEMMA EditRevisits ==
  ASSUME IInv, RInv, TypeOK', NEW r \in Routings, EditRouting(r) PROVE RInv'
  <1>1. /\ store'[r].uid = store[r].uid /\ store'[r].rv = store[r].rv + 1
        /\ \A q \in Routings \ {r} : store'[q] = store[q]
    BY DEF EditRouting, Write, Put, IInv, TypeOK, Objects
  <1>2. store[r].exists /\ store'[r] \in Objects
    BY DEF EditRouting, Exists, TypeOK
  <1>3. store'[r] # cache[r]
    BY <1>1, <1>2, NewVersion
  <1> QED
    BY <1>1, <1>3, QuietRevisits DEF EditRouting, Write, Put, queueVars

LEMMA DeleteRevisits ==
  ASSUME IInv, RInv, TypeOK', NEW r \in Routings, DeleteRouting(r) PROVE RInv'
  <1>1. \A q \in Routings \ {r} : store'[q] = store[q]
    BY DEF DeleteRouting, Write, Remove, Put, IInv, TypeOK
  <1>2. ~Live(store'[r])
    <2>1. store[r] \in Objects /\ store \in [Routings -> Objects]
      BY DEF IInv, TypeOK
    <2>2. CASE store[r].finalizer
      BY <2>1, <2>2 DEF DeleteRouting, Write, Put, Live, Objects
    <2>3. CASE ~store[r].finalizer
      BY <2>1, <2>3 DEF DeleteRouting, Remove, Put, Live, Exists, Gone
    <2> QED
      BY <2>2, <2>3
  <1>3. ~Advertised(r)'
    BY <1>2 DEF Advertised, Live, Exists
  <1> QED
    BY <1>1, <1>3, QuietRevisits DEF DeleteRouting, Write, Remove, Put, queueVars

LEMMA MapRevisits ==
  ASSUME RInv, NEW n \in Nets, MapClusterUDNToRouting(n) PROVE RInv'
  <1>1. queue \subseteq queue' /\ delayed' = delayed
    BY DEF MapClusterUDNToRouting
  <1> QED
    BY <1>1, QuietRevisits DEF MapClusterUDNToRouting, apiVars

LEMMA TimerRevisits ==
  ASSUME RInv, NEW r \in Routings, TimerFires(r) PROVE RInv'
  <1>1. queue \subseteq queue' /\ queue \cup delayed \subseteq queue' \cup delayed'
    BY DEF TimerFires
  <1> QED
    BY <1>1, QuietRevisits DEF TimerFires, apiVars

\* The delivery of another version queues the key.
LEMMA DeliverRevisits ==
  ASSUME IInv, RInv, DeliverView PROVE RInv'
  <1>1. /\ \A r \in Routings : r \in queue' \/ cache'[r] = cache[r]
        /\ queue \subseteq queue'
        /\ UNCHANGED <<store, worker, delayed>>
    BY DEF DeliverView
  <1>2. worker.step # "idle" => worker.key \in Routings
    BY IdleOrBusy, IdleIs DEF IInv
  <1>3. RevisitInv'
    BY <1>1, <1>2 DEF RInv, RevisitInv
  <1>4. ReadyIsRevisited'
    BY <1>1 DEF RInv, ReadyIsRevisited
  <1> QED
    BY <1>3, <1>4 DEF RInv

LEMMA RestartRevisits ==
  ASSUME Restart PROVE RInv'
  <1>1. /\ worker' = Idle /\ store' = store
        /\ \A r \in Routings : Exists(store[r]) => r \in queue'
    BY DEF Restart
  <1> QED
    BY <1>1, IdleIs DEF RInv, RevisitInv, ReadyIsRevisited, Live, Exists

\* A key taken off the queue is the worker's, or the object is not in the cache.
LEMMA GetRevisits ==
  ASSUME IInv, RInv, NEW r \in Routings, GetRouting(r) PROVE RInv'
  <1>1. /\ UNCHANGED <<store, cache, delayed>> /\ queue' = queue \ {r}
        /\ worker.key = Nobody /\ Nobody \notin Routings
    BY IdleOrBusy, IdleIs, NobodyAssumption DEF GetRouting, apiVars, IInv
  <1>2. \A q \in Routings \ {r} : Advertised(q) => q \in queue' \cup delayed' \/ cache'[q] # store'[q]
    BY <1>1 DEF RInv, ReadyIsRevisited, Advertised
  <1>3. CASE ~Exists(cache[r])
    <2>1. worker' = Idle /\ (Advertised(r) => cache'[r] # store'[r])
      BY <1>1, <1>3 DEF GetRouting, Advertised, Live, Exists
    <2> QED
      BY <1>1, <1>2, <2>1, IdleIs DEF RInv, RevisitInv, ReadyIsRevisited, Advertised
  <1>4. CASE Exists(cache[r])
    <2>1. /\ worker'.step \in {"deleteCUDN", "finalizer"}
          /\ worker'.key = r /\ worker'.baseline = cache[r].status
      BY <1>4 DEF GetRouting
    <2> QED
      BY <1>1, <1>2, <2>1 DEF RInv, RevisitInv, ReadyIsRevisited, Advertised
  <1> QED
    BY <1>3, <1>4

\* What every step of a reconcile leaves alone.
Within ==
    /\ worker.step # "idle"
    /\ cache' = cache /\ queue' = queue
    /\ delayed \subseteq delayed'
    /\ \A r \in Routings \ {worker.key} : store'[r] = store[r]

\* A reconcile that goes on.
LEMMA GoingOnRevisits ==
  ASSUME RInv, Within, worker'.key = worker.key, worker'.baseline = worker.baseline,
         worker'.step = "status" /\ worker'.obj.status.phase = "Ready" => worker'.requeue
  PROVE  RInv'
  <1>1. RevisitInv'
    BY DEF RInv, RevisitInv, Within
  <1>2. ReadyIsRevisited'
    BY DEF RInv, ReadyIsRevisited, Within
  <1> QED
    BY <1>1, <1>2 DEF RInv

\* A reconcile that returns: it comes back, or there is nothing to come back for.
LEMMA ReturningRevisits ==
  ASSUME RInv, Within, worker' = Idle,
         \/ worker.key \in queue' \cup delayed'
         \/ cache'[worker.key] # store'[worker.key]
         \/ ~(Live(store'[worker.key]) /\ store'[worker.key].status.phase = "Ready")
  PROVE  RInv'
  <1>1. RevisitInv'
    BY IdleIs DEF RevisitInv
  <1>2. ReadyIsRevisited'
    BY DEF RInv, ReadyIsRevisited, Within
  <1> QED
    BY <1>1, <1>2 DEF RInv

LEMMA RetryRevisits ==
  ASSUME RInv, Within, Return(TRUE) PROVE RInv'
  BY ReturningRevisits DEF Return

LEMMA GotoRevisits ==
  ASSUME RInv, Within, worker \in Reconciles, NEW step \in Steps \ {"status"}, Goto(step) PROVE RInv'
  <1>1. /\ worker'.key = worker.key /\ worker'.baseline = worker.baseline
        /\ worker'.step # "status"
    BY DEF Goto, Reconciles
  <1> QED
    BY <1>1, GoingOnRevisits

LEMMA GotoStatusRevisits ==
  ASSUME RInv, Within, worker \in Reconciles, NEW st, NEW q, GotoStatus(st, q),
         st.phase = "Ready" => q
  PROVE  RInv'
  <1>1. /\ worker'.key = worker.key /\ worker'.baseline = worker.baseline
        /\ worker'.obj.status = st /\ worker'.requeue = q
    BY DEF GotoStatus, Reconciles, Objects
  <1> QED
    BY <1>1, GoingOnRevisits

LEMMA SetDegradedRevisits ==
  ASSUME RInv, Within, worker \in Reconciles, NEW c, NEW reason, SetDegraded(c, reason)
  PROVE  RInv'
  <1> DEFINE st == [worker.obj.status EXCEPT !.phase = "Degraded",
             !.networkCreated = IF c = "NetworkCreated" THEN reason ELSE @,
             !.raCreated = IF c = "RouteAdvertisementsCreated" THEN reason ELSE @]
  <1>1. GotoStatus(st, reason \notin TerminalReasons)
    BY DEF SetDegraded
  <1>2. worker.obj.status \in Statuses
    BY DEF Reconciles, Objects
  <1>3. st.phase = "Degraded"
    BY <1>2 DEF Statuses
  <1> HIDE DEF st
  <1> QED
    BY <1>1, <1>3, GotoStatusRevisits

LEMMA WithinStore ==
  ASSUME TypeOK, worker.step # "idle", NEW o,
         Put(worker.key, o) \/ store' = store
  PROVE  \A r \in Routings \ {worker.key} : store'[r] = store[r]
  BY DEF Put, TypeOK

LEMMA EnsureFinalizerRevisits ==
  ASSUME IInv, RInv, EnsureFinalizer PROVE RInv'
  <1>1. worker \in Reconciles /\ worker.step = "finalizer" /\ queue' = queue
    BY BusyType DEF IInv, EnsureFinalizer
  <1>2. CASE worker.obj.finalizer
    <2>1. /\ Within /\ worker'.step = "duplicate"
          /\ worker'.key = worker.key /\ worker'.baseline = worker.baseline
      BY <1>1, <1>2 DEF EnsureFinalizer, Within, apiVars, Reconciles
    <2> QED
      BY <2>1, GoingOnRevisits
  <1>3. CASE ~worker.obj.finalizer /\ Current(worker.obj, worker.key)
    <2>1. PICK out \in Outcomes :
             /\ IF Applied(out)
                THEN Write(worker.key, [worker.obj EXCEPT !.finalizer = TRUE])
                ELSE UNCHANGED apiVars
             /\ IF out = "ok"
                THEN /\ worker' = [worker EXCEPT !.step = "duplicate",
                            !.obj = [Started(worker.obj) EXCEPT !.rv = worker.obj.rv + 1]]
                     /\ UNCHANGED delayed
                ELSE Return(TRUE)
      BY <1>3 DEF EnsureFinalizer
    <2>2. cache' = cache /\ \A r \in Routings \ {worker.key} : store'[r] = store[r]
      BY <1>1, <2>1, WithinStore DEF Write, Put, apiVars, IInv
    <2>3. CASE out = "ok"
      <3>1. /\ Within /\ worker'.step = "duplicate"
            /\ worker'.key = worker.key /\ worker'.baseline = worker.baseline
        BY <1>1, <2>1, <2>2, <2>3 DEF Within, Reconciles
      <3> QED
        BY <3>1, GoingOnRevisits
    <2>4. CASE out # "ok"
      <3>1. Within /\ Return(TRUE)
        BY <1>1, <2>1, <2>2, <2>4 DEF Within, Return
      <3> QED
        BY <3>1, RetryRevisits
    <2> QED
      BY <2>3, <2>4
  <1>4. CASE ~worker.obj.finalizer /\ ~Current(worker.obj, worker.key)
    <2>1. Within /\ Return(TRUE)
      BY <1>1, <1>4 DEF EnsureFinalizer, Within, Return, apiVars
    <2> QED
      BY <2>1, RetryRevisits
  <1> QED
    BY <1>2, <1>3, <1>4

LEMMA CheckDuplicateRevisits ==
  ASSUME IInv, RInv, CheckDuplicate PROVE RInv'
  <1>1. Within /\ worker \in Reconciles
    BY BusyType DEF IInv, CheckDuplicate, Within, apiVars, SetDegraded, GotoStatus, Goto
  <1>2. SetDegraded("NetworkCreated", "DuplicateNetwork") \/ Goto("config")
    BY DEF CheckDuplicate
  <1> QED
    BY <1>1, <1>2, SetDegradedRevisits, GotoRevisits DEF Steps

LEMMA CheckConfigRevisits ==
  ASSUME IInv, RInv, CheckConfig PROVE RInv'
  <1> DEFINE st == [NoStatus EXCEPT !.phase = "Pending", !.observed = worker.obj.status.observed]
  <1>1. Within /\ worker \in Reconciles
    BY BusyType DEF IInv, CheckConfig, Within, apiVars, GotoStatus, Goto
  <1>2. GotoStatus(st, TRUE) \/ Goto("namespace")
    BY DEF CheckConfig
  <1> HIDE DEF st
  <1> QED
    BY <1>1, <1>2, GotoStatusRevisits, GotoRevisits DEF Steps

LEMMA ValidateRevisits ==
  ASSUME IInv, RInv, ValidateNamespaceLabels PROVE RInv'
  <1>1. Within /\ worker \in Reconciles
    BY BusyType
    DEF IInv, ValidateNamespaceLabels, Within, apiVars, SetDegraded, GotoStatus, Goto
  <1>2. SetDegraded("NetworkCreated", "NamespaceNotReady") \/ Goto("cudn")
    BY DEF ValidateNamespaceLabels
  <1> QED
    BY <1>1, <1>2, SetDegradedRevisits, GotoRevisits DEF Steps

LEMMA EnsureClusterUDNRevisits ==
  ASSUME IInv, RInv, EnsureClusterUDN PROVE RInv'
  <1>1. worker \in Reconciles /\ worker.step = "cudn" /\ UNCHANGED <<store, cache, queue>>
    BY BusyType DEF IInv, EnsureClusterUDN, apiVars
  <1>2. \/ SetDegraded("NetworkCreated", "CUDNFailed")
        \/ SetDegraded("NetworkCreated", "CUDNSpecInvalid")
        \/ /\ worker' = [worker EXCEPT !.step = "ra", !.obj.status.networkCreated = "Created"]
           /\ UNCHANGED delayed
    BY DEF EnsureClusterUDN
  <1>3. Within
    BY <1>1, <1>2 DEF Within, SetDegraded, GotoStatus
  <1>4. CASE worker' = [worker EXCEPT !.step = "ra", !.obj.status.networkCreated = "Created"]
    <2>1. /\ worker'.key = worker.key /\ worker'.baseline = worker.baseline
          /\ worker'.step = "ra"
      BY <1>1, <1>4 DEF Reconciles
    <2> QED
      BY <1>3, <2>1, GoingOnRevisits
  <1> QED
    BY <1>1, <1>2, <1>3, <1>4, SetDegradedRevisits

\* Ready always comes with a RequeueAfter.
LEMMA EnsureRARevisits ==
  ASSUME IInv, RInv, EnsureRouteAdvertisements PROVE RInv'
  <1> DEFINE st == [worker.obj.status EXCEPT !.raCreated = "Created", !.phase = "Ready"]
  <1>1. worker \in Reconciles /\ worker.step = "ra" /\ UNCHANGED <<store, cache, queue>>
    BY BusyType DEF IInv, EnsureRouteAdvertisements, apiVars
  <1>2. GotoStatus(st, TRUE) \/ SetDegraded("RouteAdvertisementsCreated", "RAFailed")
    BY DEF EnsureRouteAdvertisements
  <1>3. Within
    BY <1>1, <1>2 DEF Within, SetDegraded, GotoStatus
  <1> HIDE DEF st
  <1> QED
    BY <1>1, <1>2, <1>3, SetDegradedRevisits, GotoStatusRevisits

\* Without a retry the status is not Ready.  If it equals the one read, then either
\* the cache still has that one, or the key is queued.
LEMMA PatchStatusRevisits ==
  ASSUME IInv, RInv, PatchRoutingStatus PROVE RInv'
  <1>1. /\ worker \in Reconciles /\ worker.step = "status" /\ queue' = queue
        /\ worker.key \in Routings /\ worker.obj \in Objects
    BY BusyType DEF IInv, PatchRoutingStatus
  <1>2. worker.obj.status.phase = "Ready" => worker.requeue
    BY <1>1 DEF RInv, RevisitInv
  <1>3. worker.requeue \in BOOLEAN
    BY <1>1 DEF Reconciles
  <1>4. CASE worker.obj.status = worker.baseline
    <2>1. UNCHANGED <<store, cache>> /\ Return(worker.requeue)
      BY <1>4 DEF PatchRoutingStatus, apiVars
    <2>2. Within
      BY <1>1, <2>1 DEF Within, Return
    <2>3. CASE worker.requeue
      <3>1. Return(TRUE)
        BY <2>1, <2>3 DEF Return
      <3> QED
        BY <2>2, <3>1, RetryRevisits
    <2>4. CASE ~worker.requeue
      <3>1. worker.key \in queue \/ cache[worker.key].status.phase # "Ready"
        BY <1>1, <1>2, <1>4, <2>4 DEF RInv, RevisitInv
      <3>2. \/ worker.key \in queue'
            \/ cache'[worker.key] # store'[worker.key]
            \/ store'[worker.key].status.phase # "Ready"
        BY <1>1, <2>1, <3>1
      <3> QED
        BY <2>1, <2>2, <3>2, ReturningRevisits DEF Return
    <2> QED
      BY <1>3, <2>3, <2>4
  <1>5. CASE worker.obj.status # worker.baseline /\ Current(worker.obj, worker.key)
    <2>1. PICK out \in Outcomes :
             /\ IF Applied(out) THEN Write(worker.key, worker.obj) ELSE UNCHANGED apiVars
             /\ Return(worker.requeue \/ out # "ok")
      BY <1>5 DEF PatchRoutingStatus
    <2>2. cache' = cache /\ \A r \in Routings \ {worker.key} : store'[r] = store[r]
      BY <1>1, <2>1, WithinStore DEF Write, Put, apiVars, IInv
    <2>3. Within
      BY <1>1, <2>1, <2>2 DEF Within, Return
    <2>4. CASE worker.requeue \/ out # "ok"
      <3>1. Return(TRUE)
        BY <2>1, <2>4 DEF Return
      <3> QED
        BY <2>3, <3>1, RetryRevisits
    <2>5. CASE ~worker.requeue /\ out = "ok"
      <3>1. store'[worker.key] = [worker.obj EXCEPT !.rv = @ + 1]
        BY <1>1, <2>1, <2>5 DEF Applied, Write, Put, IInv, TypeOK
      <3>2. store'[worker.key].status = worker.obj.status
        BY <1>1, <3>1 DEF Objects
      <3> QED
        BY <1>2, <2>1, <2>3, <2>5, <3>2, ReturningRevisits DEF Return
    <2> QED
      BY <1>3, <2>4, <2>5
  <1>6. CASE worker.obj.status # worker.baseline /\ ~Current(worker.obj, worker.key)
    <2>1. Within /\ Return(TRUE)
      BY <1>1, <1>6 DEF PatchRoutingStatus, Within, Return, apiVars
    <2> QED
      BY <2>1, RetryRevisits
  <1> QED
    BY <1>4, <1>5, <1>6

LEMMA DeletionRevisits ==
  ASSUME IInv, RInv, DeleteClusterUDN \/ CountRemaining \/ DeleteRouteAdvertisements
  PROVE  RInv'
  <1>1. worker \in Reconciles /\ worker.step # "idle" /\ UNCHANGED <<store, cache, queue>>
    BY BusyType DEF IInv, DeleteClusterUDN, CountRemaining, DeleteRouteAdvertisements, apiVars
  <1>2. \/ \E step \in {"remaining", "removeFinalizer", "deleteRA"} : Goto(step)
        \/ Return(TRUE)
    BY DEF DeleteClusterUDN, CountRemaining, DeleteRouteAdvertisements
  <1>3. Within
    BY <1>1, <1>2 DEF Within, Goto, Return
  <1> QED
    BY <1>1, <1>2, <1>3, GotoRevisits, RetryRevisits DEF Steps

LEMMA RemoveFinalizerRevisits ==
  ASSUME IInv, RInv, RemoveFinalizer PROVE RInv'
  <1>1. /\ worker \in Reconciles /\ worker.step # "idle" /\ queue' = queue
        /\ worker.key \in Routings
    BY BusyType DEF IInv, RemoveFinalizer
  <1>2. CASE Current(worker.obj, worker.key)
    <2>1. PICK out \in Outcomes :
             /\ IF Applied(out) THEN Remove(worker.key) ELSE UNCHANGED apiVars
             /\ Return(out # "ok")
      BY <1>2 DEF RemoveFinalizer
    <2>2. cache' = cache /\ \A r \in Routings \ {worker.key} : store'[r] = store[r]
      BY <1>1, <2>1, WithinStore DEF Remove, Put, apiVars, IInv
    <2>3. Within
      BY <1>1, <2>1, <2>2 DEF Within, Return
    <2>4. CASE out # "ok"
      <3>1. Return(TRUE)
        BY <2>1, <2>4 DEF Return
      <3> QED
        BY <2>3, <3>1, RetryRevisits
    <2>5. CASE out = "ok"
      <3>1. ~Exists(store'[worker.key])
        BY <1>1, <2>1, <2>5 DEF Applied, Remove, Put, IInv, TypeOK, Gone, Exists
      <3> QED
        BY <2>1, <2>3, <3>1, ReturningRevisits DEF Return, Live
    <2> QED
      BY <2>4, <2>5
  <1>3. CASE ~Current(worker.obj, worker.key)
    <2>1. Within /\ Return(TRUE)
      BY <1>1, <1>3 DEF RemoveFinalizer, Within, Return, apiVars
    <2> QED
      BY <2>1, RetryRevisits
  <1> QED
    BY <1>2, <1>3

LEMMA RevisitInit == Init => RInv
  <1> SUFFICES ASSUME Init PROVE RInv
    OBVIOUS
  <1>1. worker = Idle /\ store = [r \in Routings |-> Gone(0)] /\ Gone(0).exists = FALSE
    BY DEF Init, Gone
  <1> QED
    BY <1>1, IdleIs DEF RInv, RevisitInv, ReadyIsRevisited, Live, Exists

LEMMA RevisitStep == IInv /\ TypeOK' /\ RInv /\ [Next]_vars => RInv'
  <1> SUFFICES ASSUME IInv, TypeOK', RInv, [Next]_vars PROVE RInv'
    OBVIOUS
  <1>1. CASE \E r \in Routings : CreateRouting(r) \/ EditRouting(r) \/ DeleteRouting(r)
    BY <1>1, CreateRevisits, EditRevisits, DeleteRevisits
  <1>2. CASE ConfigChanges \/ RADrifts \/ \E n \in Nets : NamespaceChanges(n) \/ CUDNDrifts(n)
    <2>1. UNCHANGED <<store, cache, worker, queue, delayed>>
      BY <1>2 DEF ConfigChanges, RADrifts, NamespaceChanges, CUDNDrifts, apiVars, queueVars
    <2> QED
      BY <2>1, QuietRevisits
  <1>3. CASE Restart \/ DeliverView
    BY <1>3, RestartRevisits, DeliverRevisits
  <1>4. CASE \E n \in Nets : MapClusterUDNToRouting(n)
    BY <1>4, MapRevisits
  <1>5. CASE \E r \in Routings : TimerFires(r) \/ GetRouting(r)
    BY <1>5, TimerRevisits, GetRevisits
  <1>6. CASE Reconcile
    BY <1>6, EnsureFinalizerRevisits, CheckDuplicateRevisits, CheckConfigRevisits,
       ValidateRevisits, EnsureClusterUDNRevisits, EnsureRARevisits, PatchStatusRevisits,
       DeletionRevisits, RemoveFinalizerRevisits DEF Reconcile
  <1>7. CASE UNCHANGED vars
    <2>1. UNCHANGED <<store, cache, worker, queue, delayed>>
      BY <1>7 DEF vars
    <2> QED
      BY <2>1, QuietRevisits
  <1> QED
    BY <1>1, <1>2, <1>3, <1>4, <1>5, <1>6, <1>7 DEF Next, Environment

\* Nobody watches what an object that says Ready stands on, so a later reconcile has
\* to find out.  One always comes: every path of Reconcile that returns without a
\* retry leaves the object not Ready, or knows that the watch has queued the key.
THEOREM ReadyRevisited == Spec => []ReadyIsRevisited
  <1>1. RInv => ReadyIsRevisited
    BY DEF RInv
  <1>2. IInv => TypeOK
    BY DEF IInv
  <1> QED
    BY <1>1, <1>2, RevisitInit, RevisitStep, Inductive, PTL DEF Spec

-----------------------------------------------------------------------------
(* The finalizer protects the networks.                                    *)

\* What b, written over a, keeps: the name, and the finalizer of the object.
Keeps(a, b) == SameName(a, b) /\ (a.exists /\ a.finalizer => Held(a, b))

LEMMA KeepsSelf == ASSUME NEW a PROVE Keeps(a, a)
  BY DEF Keeps, SameName, Held

\* Names within an object pass from version to version.
LEMMA SameNameOlder ==
  ASSUME NEW a \in Objects, NEW b \in Objects, NEW c \in Objects,
         a.uid < b.uid \/ a.uid = b.uid, Older(b, c), SameName(a, b), SameName(b, c)
  PROVE  SameName(a, c)
  BY DEF Older, SameName, Objects

LEMMA OlderUid ==
  ASSUME NEW a, NEW b, Older(a, b) PROVE a.uid < b.uid \/ a.uid = b.uid
  BY DEF Older

LEMMA StillHeldKeeps ==
  ASSUME NEW c, NEW a, NEW b, StillHeld(c, a), Keeps(a, b)
  PROVE  StillHeld(c, b)
  BY DEF StillHeld, Keeps, Held

LEMMA HeldKeeps ==
  ASSUME NEW o, NEW a, NEW b, Held(o, a), Keeps(a, b)
  PROVE  Held(o, b)
  BY DEF Keeps, Held

LEMMA EndedOlder ==
  ASSUME NEW o \in Objects, NEW c \in Objects, NEW d \in Objects, Ended(o, c), Older(c, d)
  PROVE  Ended(o, d)
  BY DEF Ended, Older, Objects

\* The versions before the present one, after a write.
LEMMA PutViews ==
  ASSUME TypeOK, NEW r \in Routings, NEW o \in Objects, Put(r, o)
  PROVE  /\ Len(views) \in Nat
         /\ Len(views') = Len(views) + 1
         /\ View(cache', views', Len(views) + 1) = store'
         /\ \A i \in 0..Len(views) : View(cache', views', i) = View(cache, views, i)
         /\ store' = [store EXCEPT ![r] = o] /\ store \in [Routings -> Objects]
         /\ \A i \in 0..Len(views) : View(cache, views, i) \in [Routings -> Objects]
  BY PutType DEF TypeOK, Put, View

\* A write keeps the invariants on versions, if it keeps the name and if every earlier
\* version that had the finalizer and was not deleted is still held.
LEMMA PutVersions ==
  ASSUME IInv, NamesInv, FinalizerInv, NEW r \in Routings, NEW o \in Objects, Put(r, o),
         Older(store[r], o), SameName(store[r], o), o.exists => o.net \in Names[r],
         \A i \in 0..Len(views) : StillHeld(View(cache, views, i)[r], o)
  PROVE  NamesInv' /\ FinalizerInv'
  <1>1. TypeOK /\ WatchInv
    BY DEF IInv
  <1>2. /\ Len(views) \in Nat
        /\ Len(views') = Len(views) + 1
        /\ View(cache', views', Len(views) + 1) = store'
        /\ \A i \in 0..Len(views) : View(cache', views', i) = View(cache, views, i)
        /\ store' = [store EXCEPT ![r] = o] /\ store \in [Routings -> Objects]
        /\ \A i \in 0..Len(views) : View(cache, views, i) \in [Routings -> Objects]
    BY <1>1, PutViews
  <1>3. \A q \in Routings : store'[q] = IF q = r THEN o ELSE store[q]
    BY <1>2
  <1>4. ASSUME NEW q \in Routings, NEW i \in 0..Len(views)
        PROVE  /\ SameName(View(cache, views, i)[q], store'[q])
               /\ StillHeld(View(cache, views, i)[q], store'[q])
    <2>1. /\ SameName(View(cache, views, i)[q], store[q])
          /\ StillHeld(View(cache, views, i)[q], store[q])
      BY DEF NamesInv, FinalizerInv
    <2>2. CASE q # r
      BY <1>3, <2>1, <2>2
    <2>3. CASE q = r
      <3>1. Older(View(cache, views, i)[r], store[r])
        BY <1>1, <1>2 DEF WatchInv
      <3>2. View(cache, views, i)[r] \in Objects /\ store[r] \in Objects
        BY <1>2
      <3>3. SameName(View(cache, views, i)[r], o)
        BY <2>1, <2>3, <3>1, <3>2, OlderUid, SameNameOlder
      <3> QED
        BY <1>3, <2>3, <3>3
    <2> QED
      BY <2>2, <2>3
  <1>5. ASSUME NEW q \in Routings, NEW i \in 0..Len(views')
        PROVE  /\ SameName(View(cache', views', i)[q], store'[q])
               /\ StillHeld(View(cache', views', i)[q], store'[q])
    <2>1. CASE i \in 0..Len(views)
      BY <1>2, <1>4, <2>1
    <2>2. CASE i = Len(views) + 1
      <3>1. View(cache', views', i)[q] = store'[q]
        BY <1>2, <2>2
      <3> QED
        BY <3>1 DEF SameName, StillHeld, Held
    <2> QED
      BY <1>2, <2>1, <2>2
  <1>6. \A q \in Routings : store'[q].exists => store'[q].net \in Names[q]
    BY <1>3 DEF NamesInv
  <1> QED
    BY <1>5, <1>6 DEF NamesInv, FinalizerInv

\* A write that keeps name and finalizer keeps the ownership of every network.
LEMMA KeepingWrite ==
  ASSUME IInv, OwnInv, NEW r \in Routings, NEW o \in Objects, Put(r, o), cudn' = cudn,
         Older(store[r], o), Keeps(store[r], o), o.exists => o.net \in Names[r]
  PROVE  NamesInv' /\ FinalizerInv' /\ NetworksAreOwned'
  <1>1. \A i \in 0..Len(views) : StillHeld(View(cache, views, i)[r], o)
    BY StillHeldKeeps DEF OwnInv, FinalizerInv
  <1>2. NamesInv' /\ FinalizerInv'
    BY <1>1, PutVersions DEF OwnInv, Keeps
  <1>3. \A q \in Routings : store'[q] = IF q = r THEN o ELSE store[q]
    BY DEF IInv, TypeOK, Put
  <1>4. store[r].exists /\ store[r].finalizer => o.exists /\ o.finalizer /\ o.net = store[r].net
    BY DEF Keeps, Held, SameName
  <1>5. NetworksAreOwned'
    BY <1>3, <1>4 DEF OwnInv, NetworksAreOwned, Exists
  <1> QED
    BY <1>2, <1>5

\* The worker's copy stays behind a store and a cache that move forward.
LEMMA HolderForward ==
  ASSUME IInv, TypeOK', HolderInv, worker' = worker,
         \A r \in Routings : /\ Older(store[r], store'[r]) /\ Keeps(store[r], store'[r])
                             /\ Older(cache[r], cache'[r])
  PROVE  HolderInv'
  <1>1. SUFFICES ASSUME worker.step # "idle" PROVE HolderInv'
    BY DEF HolderInv
  <1> DEFINE k == worker.key
  <1>2. /\ k \in Routings /\ worker.obj \in Objects
        /\ store[k] \in Objects /\ store'[k] \in Objects
        /\ cache[k] \in Objects /\ cache'[k] \in Objects
    BY <1>1, BusyType DEF IInv, TypeOK
  <1>3. Older(store[k], store'[k]) /\ Keeps(store[k], store'[k]) /\ Older(cache[k], cache'[k])
    BY <1>2
  <1>4. worker.obj.uid < store[k].uid \/ worker.obj.uid = store[k].uid
    BY <1>1 DEF IInv, WorkerInv, Behind
  <1> HIDE DEF k
  <1>5. SameName(worker.obj, store[k]) => SameName(worker.obj, store'[k])
    BY <1>2, <1>3, <1>4, SameNameOlder DEF Keeps
  <1>6. Held(worker.obj, store[k]) => Held(worker.obj, store'[k])
    BY <1>3, HeldKeeps
  <1>7. Ended(worker.obj, cache[k]) => Ended(worker.obj, cache'[k])
    BY <1>2, <1>3, EndedOlder
  <1> QED
    BY <1>1, <1>5, <1>6, <1>7 DEF HolderInv, k

LEMMA UserWriteOwns ==
  ASSUME IInv, TypeOK', OwnInv, NEW r \in Routings, NEW o \in Objects, Put(r, o),
         Older(store[r], o), Keeps(store[r], o), o.exists => o.net \in Names[r],
         UNCHANGED <<worker, cudn>>
  PROVE  OwnInv'
  <1>1. NamesInv' /\ FinalizerInv' /\ NetworksAreOwned'
    BY KeepingWrite
  <1>2. \A q \in Routings : store'[q] = IF q = r THEN o ELSE store[q]
    BY DEF IInv, TypeOK, Put
  <1>3. \A q \in Routings : store[q] \in Objects /\ cache[q] \in Objects /\ cache' = cache
    BY DEF IInv, TypeOK, Put
  <1>4. ASSUME NEW q \in Routings
        PROVE  /\ Older(store[q], store'[q]) /\ Keeps(store[q], store'[q])
               /\ Older(cache[q], cache'[q])
    BY <1>2, <1>3, OlderReflexive, KeepsSelf
  <1>5. HolderInv'
    BY <1>4, HolderForward DEF OwnInv
  <1>6. CleanInv'
    BY DEF OwnInv, CleanInv
  <1> QED
    BY <1>1, <1>5, <1>6 DEF OwnInv

LEMMA CreateOwns ==
  ASSUME IInv, TypeOK', OwnInv, NEW r \in Routings, CreateRouting(r) PROVE OwnInv'
  <1> DEFINE o(n, s) ==
        [exists |-> TRUE, uid |-> store[r].uid + 1, rv |-> 1, generation |-> 1,
         net |-> n, subnets |-> s, deleting |-> FALSE, finalizer |-> FALSE,
         status |-> NoStatus]
  <1>1. PICK n \in Names[r], s \in Subnets : Put(r, o(n, s))
    BY DEF CreateRouting
  <1>2. n \in Nets /\ store[r].uid \in Nat
    BY NamesAssumption DEF IInv, TypeOK, Objects
  <1>3. o(n, s) \in Objects
    BY <1>2 DEF Objects, NoStatus, Statuses, Phases, NetworkReasons, RAReasons
  <1>4. Older(store[r], o(n, s))
    BY <1>2 DEF Older
  <1>5. ~store[r].exists
    BY DEF CreateRouting, Exists
  <1>6. Keeps(store[r], o(n, s))
    BY <1>5 DEF Keeps, SameName
  <1>7. o(n, s).net \in Names[r]
    OBVIOUS
  <1> HIDE DEF o
  <1> QED
    BY <1>1, <1>3, <1>4, <1>6, <1>7, UserWriteOwns DEF CreateRouting

LEMMA EditOwns ==
  ASSUME NamesAreKept, IInv, TypeOK', OwnInv, NEW r \in Routings, EditRouting(r) PROVE OwnInv'
  <1> DEFINE e(n, s) == [store[r] EXCEPT !.generation = @ + 1, !.net = n, !.subnets = s]
             o(n, s) == [e(n, s) EXCEPT !.rv = @ + 1]
  <1>1. PICK n \in Names[r], s \in Subnets : Put(r, o(n, s))
    BY DEF EditRouting, Write
  <1>2. /\ n \in Nets /\ store[r] \in Objects /\ store[r].generation + 1 \in Nat
        /\ store[r].exists
    BY NamesAssumption DEF IInv, TypeOK, Objects, EditRouting, Exists
  <1>3. n = store[r].net
    BY <1>2 DEF OwnInv, NamesInv, NamesAreKept, EditRouting
  <1>4. e(n, s) \in Objects
    BY <1>2, EditType
  <1>5. o(n, s) \in Objects
    <2> HIDE DEF e
    <2>1. e(n, s).rv + 1 \in Nat
      BY <1>4 DEF Objects
    <2> QED
      BY <1>4, <2>1, MarkType
  <1>6. /\ o(n, s).uid = store[r].uid /\ o(n, s).exists = store[r].exists
        /\ o(n, s).rv = store[r].rv + 1 /\ o(n, s).generation = store[r].generation + 1
        /\ o(n, s).deleting = store[r].deleting /\ o(n, s).finalizer = store[r].finalizer
        /\ o(n, s).net = n
    BY <1>2 DEF Objects
  <1> HIDE DEF o
  <1>7. Older(store[r], o(n, s))
    BY <1>2, <1>6 DEF Older, Objects
  <1>8. Keeps(store[r], o(n, s)) /\ o(n, s).net \in Names[r]
    BY <1>2, <1>3, <1>6 DEF Keeps, SameName, Held
  <1> QED
    BY <1>1, <1>5, <1>7, <1>8, UserWriteOwns DEF EditRouting

LEMMA DeleteOwns ==
  ASSUME IInv, TypeOK', OwnInv, NEW r \in Routings, DeleteRouting(r) PROVE OwnInv'
  <1> DEFINE e == [store[r] EXCEPT !.generation = @ + 1, !.deleting = TRUE]
             o == [e EXCEPT !.rv = @ + 1]
  <1>1. /\ store[r] \in Objects /\ store[r].generation + 1 \in Nat /\ store[r].exists
        /\ store[r].uid \in Nat
    BY DEF IInv, TypeOK, Objects, DeleteRouting, Exists
  <1>2. CASE store[r].finalizer
    <2>1. e \in Objects
      BY <1>1, MarkType
    <2>2. o \in Objects
      <3> HIDE DEF e
      <3>1. e.rv + 1 \in Nat
        BY <2>1 DEF Objects
      <3> QED
        BY <2>1, <3>1, MarkType
    <2>3. /\ o.uid = store[r].uid /\ o.exists = store[r].exists
          /\ o.rv = store[r].rv + 1 /\ o.generation = store[r].generation + 1
          /\ o.deleting = TRUE /\ o.finalizer = store[r].finalizer /\ o.net = store[r].net
      BY <1>1 DEF Objects
    <2>4. Put(r, o)
      BY <1>2 DEF DeleteRouting, Write
    <2> HIDE DEF o
    <2>5. Older(store[r], o)
      BY <1>1, <2>3 DEF Older, Objects
    <2>6. Keeps(store[r], o) /\ o.net \in Names[r]
      BY <1>1, <2>3 DEF Keeps, SameName, Held, OwnInv, NamesInv
    <2> QED
      BY <2>2, <2>4, <2>5, <2>6, UserWriteOwns DEF DeleteRouting
  <1>3. CASE ~store[r].finalizer
    <2>1. Gone(store[r].uid) \in Objects /\ Gone(store[r].uid).exists = FALSE
      BY <1>1, GoneType DEF Gone
    <2>2. Older(store[r], Gone(store[r].uid)) /\ Keeps(store[r], Gone(store[r].uid))
      BY <1>3, <2>1, GoneIsNewer DEF Keeps, SameName
    <2>3. Put(r, Gone(store[r].uid))
      BY <1>3 DEF DeleteRouting, Remove
    <2> QED
      BY <2>1, <2>2, <2>3, UserWriteOwns DEF DeleteRouting
  <1> QED
    BY <1>2, <1>3

\* Steps that leave the objects and the worker alone and create no network.
LEMMA QuietOwns ==
  ASSUME OwnInv, UNCHANGED <<store, views, cache, worker>>,
         \A n \in Nets : cudn'[n] # "none" => cudn[n] # "none",
         worker.step # "idle" => worker.obj.net \in Nets
  PROVE  OwnInv'
  <1>1. NamesInv' /\ FinalizerInv'
    BY DEF OwnInv, NamesInv, FinalizerInv, View
  <1>2. HolderInv'
    BY DEF OwnInv, HolderInv
  <1>3. CleanInv'
    BY DEF OwnInv, CleanInv, Deletion
  <1>4. NetworksAreOwned'
    BY DEF OwnInv, NetworksAreOwned
  <1> QED
    BY <1>1, <1>2, <1>3, <1>4 DEF OwnInv

LEMMA WorkerNet ==
  ASSUME TypeOK PROVE worker.step # "idle" => worker.obj.net \in Nets
  BY BusyType DEF Objects

LEMMA DriftOwns ==
  ASSUME IInv, OwnInv, NEW n \in Nets, CUDNDrifts(n) PROVE OwnInv'
  <1>1. \A m \in Nets : cudn'[m] # "none" => cudn[m] # "none"
    BY DEF CUDNDrifts, IInv, TypeOK
  <1> QED
    BY <1>1, QuietOwns, WorkerNet DEF CUDNDrifts, apiVars, IInv

LEMMA RestartOwns ==
  ASSUME IInv, OwnInv, Restart PROVE OwnInv'
  <1>1. /\ store' = store /\ cache' = store /\ views' = <<>> /\ worker' = Idle
        /\ cudn' = cudn
    BY DEF Restart
  <1>2. \A i \in 0..Len(views') : View(cache', views', i) = store'
    BY <1>1 DEF View
  <1>3. NamesInv' /\ FinalizerInv'
    BY <1>1, <1>2 DEF OwnInv, NamesInv, FinalizerInv, SameName, StillHeld, Held
  <1>4. HolderInv' /\ CleanInv'
    BY <1>1, IdleIs DEF HolderInv, CleanInv, Deletion
  <1>5. NetworksAreOwned'
    BY <1>1 DEF OwnInv, NetworksAreOwned
  <1> QED
    BY <1>3, <1>4, <1>5 DEF OwnInv

LEMMA DeliverOwns ==
  ASSUME IInv, TypeOK', OwnInv, DeliverView PROVE OwnInv'
  <1>1. /\ Len(views) \in Nat /\ Len(views) > 0
        /\ Len(views') = Len(views) - 1
        /\ \A i \in 0..Len(views') : View(cache', views', i) = View(cache, views, i + 1)
    BY DEF DeliverView, IInv, TypeOK, View
  <1>2. UNCHANGED <<store, worker, cudn>>
    BY DEF DeliverView
  <1>3. \A i \in 0..Len(views') : i + 1 \in 0..Len(views)
    BY <1>1
  <1>4. NamesInv' /\ FinalizerInv'
    BY <1>1, <1>2, <1>3 DEF OwnInv, NamesInv, FinalizerInv
  <1>5. \A q \in Routings : Older(cache[q], cache'[q])
    BY DeliverWatch DEF IInv
  <1>6. \A q \in Routings : Older(store[q], store'[q]) /\ Keeps(store[q], store'[q])
    BY <1>2, OlderReflexive, KeepsSelf DEF IInv, TypeOK
  <1>7. HolderInv'
    BY <1>2, <1>5, <1>6, HolderForward DEF OwnInv
  <1>8. CleanInv' /\ NetworksAreOwned'
    BY <1>2 DEF OwnInv, CleanInv, NetworksAreOwned
  <1> QED
    BY <1>4, <1>7, <1>8 DEF OwnInv

\* The reconcile begins with the cached version, of which the invariants speak.
LEMMA GetOwns ==
  ASSUME IInv, OwnInv, NEW r \in Routings, GetRouting(r) PROVE OwnInv'
  <1>1. UNCHANGED <<store, views, cache, cudn>>
    BY DEF GetRouting, apiVars
  <1>2. NamesInv' /\ FinalizerInv' /\ NetworksAreOwned'
    BY <1>1 DEF OwnInv, NamesInv, FinalizerInv, NetworksAreOwned, View
  <1>3. CASE ~Exists(cache[r])
    <2>1. worker' = Idle
      BY <1>3 DEF GetRouting
    <2>2. HolderInv' /\ CleanInv'
      BY <2>1, IdleIs DEF HolderInv, CleanInv, Deletion
    <2> QED
      BY <1>2, <2>2 DEF OwnInv
  <1>4. CASE Exists(cache[r])
    <2>1. /\ worker'.key = r /\ worker'.obj = cache[r]
          /\ worker'.step = IF cache[r].deleting THEN "deleteCUDN" ELSE "finalizer"
          /\ cache[r].exists
      BY <1>4 DEF GetRouting, Exists
    <2>2. SameName(cache[r], store[r]) /\ StillHeld(cache[r], store[r])
      <3>1. 0 \in 0..Len(views) /\ View(cache, views, 0) = cache
        BY DEF IInv, TypeOK, View
      <3> QED
        BY <3>1 DEF OwnInv, NamesInv, FinalizerInv
    <2>3. CASE cache[r].deleting
      <3>1. Ended(cache[r], cache[r]) /\ worker'.step = "deleteCUDN"
        BY <2>1, <2>3 DEF Ended
      <3>2. HolderInv' /\ CleanInv'
        BY <1>1, <2>1, <2>2, <3>1 DEF HolderInv, CleanInv, Deletion
      <3> QED
        BY <1>2, <3>2 DEF OwnInv
    <2>4. CASE ~cache[r].deleting
      <3>1. worker'.step = "finalizer" /\ (cache[r].finalizer => Held(cache[r], store[r]))
        BY <2>1, <2>2, <2>4 DEF StillHeld
      <3>2. HolderInv' /\ CleanInv'
        BY <1>1, <2>1, <2>2, <3>1 DEF HolderInv, CleanInv, Deletion
      <3> QED
        BY <1>2, <3>2 DEF OwnInv
    <2> QED
      BY <2>3, <2>4
  <1> QED
    BY <1>3, <1>4

\* The worker's copy o is of the same object and name as p, with the same finalizer.
SameHold(o, p) ==
    p.exists = o.exists /\ p.uid = o.uid /\ p.net = o.net /\ p.finalizer = o.finalizer

\* Nothing changes in the API server apart from networks.
Reads == UNCHANGED <<store, views, cache>>

\* A reconcile returns without a write.
LEMMA ReturnOwns ==
  ASSUME OwnInv, Reads, worker' = Idle,
         \A n \in Nets : cudn'[n] # "none" => cudn[n] # "none"
  PROVE  OwnInv'
  <1>1. NamesInv' /\ FinalizerInv'
    BY DEF Reads, OwnInv, NamesInv, FinalizerInv, View
  <1>2. HolderInv' /\ CleanInv'
    BY IdleIs DEF HolderInv, CleanInv, Deletion
  <1>3. NetworksAreOwned'
    BY DEF Reads, OwnInv, NetworksAreOwned
  <1> QED
    BY <1>1, <1>2, <1>3 DEF OwnInv

\* A reconcile goes on towards its status, with the finalizer in place.
LEMMA GoingOnOwns ==
  ASSUME OwnInv, Reads, worker.step # "idle", worker'.key = worker.key,
         SameHold(worker.obj, worker'.obj), worker.obj.finalizer,
         worker.step \notin Deletion, worker'.step \notin Deletion, NetworksAreOwned'
  PROVE  OwnInv'
  <1>1. NamesInv' /\ FinalizerInv'
    BY DEF Reads, OwnInv, NamesInv, FinalizerInv, View
  <1>2. HolderInv'
    BY DEF Reads, SameHold, OwnInv, HolderInv, SameName, Held
  <1>3. CleanInv'
    BY DEF CleanInv
  <1> QED
    BY <1>1, <1>2, <1>3 DEF OwnInv

LEMMA SameNetworks ==
  ASSUME OwnInv, Reads, cudn' = cudn PROVE NetworksAreOwned'
  BY DEF OwnInv, Reads, NetworksAreOwned

Building == Steps \ (Deletion \cup {"finalizer"})

LEMMA GotoOwns ==
  ASSUME OwnInv, Reads, worker \in Reconciles, worker.step \in Building,
         NEW step \in Building, Goto(step), NetworksAreOwned'
  PROVE  OwnInv'
  <1>1. worker'.key = worker.key /\ worker'.obj = worker.obj /\ worker'.step = step
    BY DEF Goto, Reconciles
  <1>2. SameHold(worker.obj, worker'.obj)
    BY <1>1 DEF SameHold
  <1>3. worker.step # "idle" /\ worker.obj.finalizer
    BY DEF OwnInv, HolderInv, Building, Steps
  <1> QED
    BY <1>1, <1>2, <1>3, GoingOnOwns DEF Building

LEMMA GotoStatusOwns ==
  ASSUME OwnInv, Reads, worker \in Reconciles, worker.step \in Building,
         NEW st, NEW q, GotoStatus(st, q), NetworksAreOwned'
  PROVE  OwnInv'
  <1>1. /\ worker'.key = worker.key /\ worker'.step = "status"
        /\ worker'.obj = [worker.obj EXCEPT !.status = st]
    BY DEF GotoStatus, Reconciles
  <1>2. worker.obj \in Objects
    BY DEF Reconciles
  <1>3. SameHold(worker.obj, worker'.obj)
    BY <1>1, <1>2 DEF SameHold, Objects
  <1>4. worker.step # "idle" /\ worker.obj.finalizer
    BY DEF OwnInv, HolderInv, Building, Steps
  <1> QED
    BY <1>1, <1>3, <1>4, GoingOnOwns DEF Building, Deletion

LEMMA SetDegradedOwns ==
  ASSUME OwnInv, Reads, worker \in Reconciles, worker.step \in Building,
         NEW c, NEW reason, SetDegraded(c, reason), NetworksAreOwned'
  PROVE  OwnInv'
  BY GotoStatusOwns DEF SetDegraded

\* The checks before the first write.
LEMMA ChecksOwn ==
  ASSUME IInv, OwnInv, CheckDuplicate \/ CheckConfig \/ ValidateNamespaceLabels PROVE OwnInv'
  <1>1. worker.step \in Building /\ Reads /\ cudn' = cudn
    BY DEF CheckDuplicate, CheckConfig, ValidateNamespaceLabels, Building, Steps, Deletion,
           Reads, apiVars
  <1>2. worker \in Reconciles
    BY <1>1, BusyType DEF IInv, Building, Steps
  <1>3. NetworksAreOwned'
    BY <1>1, SameNetworks
  <1>4. \/ \E c, reason \in {"NetworkCreated", "DuplicateNetwork", "NamespaceNotReady"} :
              SetDegraded(c, reason)
        \/ \E st : GotoStatus(st, TRUE)
        \/ \E step \in {"config", "namespace", "cudn"} : Goto(step)
    BY DEF CheckDuplicate, CheckConfig, ValidateNamespaceLabels
  <1> QED
    BY <1>1, <1>2, <1>3, <1>4, SetDegradedOwns, GotoStatusOwns, GotoOwns
    DEF Building, Steps, Deletion

\* The network that is written belongs to the object of the worker's copy, old as it
\* may be: the object has the finalizer and the name still.
LEMMA EnsureClusterUDNOwns ==
  ASSUME IInv, OwnInv, EnsureClusterUDN PROVE OwnInv'
  <1>1. worker.step = "cudn" /\ Reads
    BY DEF EnsureClusterUDN, Reads, apiVars
  <1>2. /\ worker \in Reconciles /\ worker.key \in Routings /\ worker.obj \in Objects
        /\ worker.step \in Building
    BY <1>1, BusyType DEF IInv, Building, Steps, Deletion
  <1>3. \A n \in Nets \ {worker.obj.net} : cudn'[n] = cudn[n]
    BY DEF EnsureClusterUDN, CreateOrUpdateCUDN, IInv, TypeOK
  <1>4. Held(worker.obj, store[worker.key]) /\ SameName(worker.obj, store[worker.key])
    BY <1>1 DEF OwnInv, HolderInv, Deletion
  <1>5. /\ Exists(store[worker.key]) /\ store[worker.key].finalizer
        /\ store[worker.key].net = worker.obj.net
    BY <1>1, <1>4 DEF Held, SameName, Exists, IInv, WorkerInv
  <1>6. NetworksAreOwned'
    BY <1>1, <1>2, <1>3, <1>5 DEF Reads, OwnInv, NetworksAreOwned
  <1>7. \/ \E reason \in {"CUDNFailed", "CUDNSpecInvalid"} : SetDegraded("NetworkCreated", reason)
        \/ worker' = [worker EXCEPT !.step = "ra", !.obj.status.networkCreated = "Created"]
    BY DEF EnsureClusterUDN
  <1>8. CASE worker' = [worker EXCEPT !.step = "ra", !.obj.status.networkCreated = "Created"]
    <2>1. /\ worker'.key = worker.key /\ worker'.step = "ra"
          /\ SameHold(worker.obj, worker'.obj)
      BY <1>2, <1>8 DEF Reconciles, Objects, SameHold
    <2>2. worker.obj.finalizer
      BY <1>1 DEF OwnInv, HolderInv, Deletion
    <2> QED
      BY <1>1, <1>6, <2>1, <2>2, GoingOnOwns DEF Deletion
  <1> QED
    BY <1>1, <1>2, <1>6, <1>7, <1>8, SetDegradedOwns

LEMMA EnsureRAOwns ==
  ASSUME IInv, OwnInv, EnsureRouteAdvertisements PROVE OwnInv'
  <1>1. worker.step = "ra" /\ Reads /\ cudn' = cudn
    BY DEF EnsureRouteAdvertisements, Reads, apiVars
  <1>2. worker \in Reconciles /\ worker.step \in Building
    BY <1>1, BusyType DEF IInv, Building, Steps, Deletion
  <1>3. NetworksAreOwned'
    BY <1>1, SameNetworks
  <1>4. \/ \E st : GotoStatus(st, TRUE)
        \/ SetDegraded("RouteAdvertisementsCreated", "RAFailed")
    BY DEF EnsureRouteAdvertisements
  <1> QED
    BY <1>1, <1>2, <1>3, <1>4, SetDegradedOwns, GotoStatusOwns

\* The copy written back has the name and the finalizer of the object it replaces.
LEMMA WorkerWrite ==
  ASSUME IInv, OwnInv, worker.step # "idle", Current(worker.obj, worker.key),
         NEW o \in Objects, o.exists, o.uid = worker.obj.uid, o.rv = worker.obj.rv + 1,
         o.generation = worker.obj.generation, o.net = worker.obj.net,
         o.subnets = worker.obj.subnets, o.deleting = worker.obj.deleting,
         worker.obj.finalizer => o.finalizer, Put(worker.key, o), cudn' = cudn
  PROVE  NamesInv' /\ FinalizerInv' /\ NetworksAreOwned'
  <1> DEFINE s == store[worker.key]
  <1>1. worker.key \in Routings /\ s \in Objects /\ worker.obj \in Objects
    BY BusyType DEF IInv, TypeOK
  <1>2. Behind(worker.obj, s) /\ s.exists /\ s.uid = worker.obj.uid /\ s.rv = worker.obj.rv
    BY DEF IInv, WorkerInv, Current, Exists
  <1>3. s.net \in Names[worker.key]
    BY <1>1, <1>2 DEF OwnInv, NamesInv
  <1> HIDE DEF s
  <1>4. /\ s.generation = worker.obj.generation /\ s.deleting = worker.obj.deleting
        /\ s.finalizer = worker.obj.finalizer /\ s.net = worker.obj.net
        /\ s.subnets = worker.obj.subnets
    BY <1>1, <1>2 DEF Behind, Objects
  <1>5. Older(s, o)
    BY <1>1, <1>2, <1>4 DEF Older, Objects
  <1>6. Keeps(s, o) /\ o.net \in Names[worker.key]
    BY <1>2, <1>3, <1>4 DEF Keeps, SameName, Held
  <1> QED
    BY <1>1, <1>5, <1>6, KeepingWrite DEF s

LEMMA EnsureFinalizerOwns ==
  ASSUME IInv, OwnInv, EnsureFinalizer PROVE OwnInv'
  <1> DEFINE w == worker.obj
             e == [w EXCEPT !.finalizer = TRUE]
             o == [e EXCEPT !.rv = @ + 1]
  <1>1. worker.step = "finalizer" /\ cudn' = cudn
    BY DEF EnsureFinalizer
  <1>2. /\ worker \in Reconciles /\ worker.key \in Routings /\ w \in Objects /\ w.exists
    BY <1>1, BusyType DEF IInv, WorkerInv
  <1>3. Started(w) \in Objects /\ SameHold([w EXCEPT !.finalizer = TRUE], Started(w))
    BY <1>2, StartedType DEF Started, SameHold, Objects
  <1>4. CASE w.finalizer
    <2>1. Reads /\ worker' = [worker EXCEPT !.step = "duplicate", !.obj = Started(w)]
      BY <1>4 DEF EnsureFinalizer, Reads, apiVars
    <2>2. worker'.key = worker.key /\ worker'.step = "duplicate" /\ worker'.obj = Started(w)
      BY <1>2, <2>1 DEF Reconciles
    <2>3. SameHold(w, worker'.obj)
      BY <1>2, <1>3, <1>4, <2>2 DEF SameHold, Objects
    <2>4. NetworksAreOwned'
      BY <1>1, <2>1, SameNetworks
    <2> QED
      BY <1>1, <1>4, <2>1, <2>2, <2>3, <2>4, GoingOnOwns DEF Deletion
  <1>5. CASE ~w.finalizer /\ Current(w, worker.key)
    <2>1. PICK out \in Outcomes :
             /\ IF Applied(out)
                THEN Write(worker.key, [w EXCEPT !.finalizer = TRUE])
                ELSE UNCHANGED apiVars
             /\ IF out = "ok"
                THEN /\ worker' = [worker EXCEPT !.step = "duplicate",
                                        !.obj = [Started(w) EXCEPT !.rv = w.rv + 1]]
                     /\ UNCHANGED delayed
                ELSE Return(TRUE)
      BY <1>5 DEF EnsureFinalizer
    <2>2. CASE ~Applied(out)
      <3>1. Reads /\ worker' = Idle
        BY <2>1, <2>2 DEF Applied, Reads, apiVars, Return
      <3> QED
        BY <1>1, <3>1, ReturnOwns
    <2>3. CASE Applied(out)
      <3>1. /\ o \in Objects /\ o.exists /\ o.uid = w.uid /\ o.rv = w.rv + 1
            /\ o.generation = w.generation /\ o.net = w.net /\ o.subnets = w.subnets
            /\ o.deleting = w.deleting /\ o.finalizer = TRUE
        <4>1. /\ e \in Objects /\ e.exists /\ e.uid = w.uid /\ e.rv = w.rv
              /\ e.generation = w.generation /\ e.net = w.net /\ e.subnets = w.subnets
              /\ e.deleting = w.deleting /\ e.finalizer = TRUE
          BY <1>2 DEF Objects
        <4> HIDE DEF e
        <4> QED
          BY <1>2, <4>1 DEF Objects
      <3>2. Put(worker.key, o)
        BY <2>1, <2>3 DEF Write
      <3> HIDE DEF o
      <3>3. NamesInv' /\ FinalizerInv' /\ NetworksAreOwned'
        BY <1>1, <1>5, <3>1, <3>2, WorkerWrite
      <3>4. store'[worker.key] = o
        BY <1>2, <3>2 DEF Put, IInv, TypeOK
      <3>5. CASE out # "ok"
        <4>1. worker' = Idle
          BY <2>1, <3>5 DEF Return
        <4>2. HolderInv' /\ CleanInv'
          BY <4>1, IdleIs DEF HolderInv, CleanInv, Deletion
        <4> QED
          BY <3>3, <4>2 DEF OwnInv
      <3>6. CASE out = "ok"
        <4>1. /\ worker'.step = "duplicate" /\ worker'.key = worker.key
              /\ worker'.obj = [Started(w) EXCEPT !.rv = w.rv + 1]
          BY <1>2, <2>1, <3>6 DEF Reconciles
        <4>2. /\ worker'.obj.uid = w.uid /\ worker'.obj.net = w.net
              /\ worker'.obj.finalizer = TRUE
          BY <1>2, <1>3, <4>1 DEF SameHold, Objects
        <4>3. SameName(worker'.obj, o) /\ Held(worker'.obj, o)
          BY <3>1, <4>2 DEF SameName, Held
        <4>4. HolderInv' /\ CleanInv'
          BY <3>4, <4>1, <4>2, <4>3 DEF HolderInv, CleanInv, Deletion
        <4> QED
          BY <3>3, <4>4 DEF OwnInv
      <3> QED
        BY <3>5, <3>6
    <2> QED
      BY <2>2, <2>3
  <1>6. CASE ~w.finalizer /\ ~Current(w, worker.key)
    <2>1. Reads /\ worker' = Idle
      BY <1>6 DEF EnsureFinalizer, Return, Reads, apiVars
    <2> QED
      BY <1>1, <2>1, ReturnOwns
  <1> QED
    BY <1>4, <1>5, <1>6

LEMMA PatchStatusOwns ==
  ASSUME IInv, OwnInv, PatchRoutingStatus PROVE OwnInv'
  <1> DEFINE w == worker.obj
             o == [w EXCEPT !.rv = @ + 1]
  <1>1. worker.step = "status" /\ cudn' = cudn
    BY DEF PatchRoutingStatus
  <1>2. worker.key \in Routings /\ w \in Objects /\ w.exists
    BY <1>1, BusyType DEF IInv, WorkerInv
  <1>3. worker' = Idle
    BY DEF PatchRoutingStatus, Return
  <1>4. CASE Reads
    BY <1>1, <1>3, <1>4, ReturnOwns
  <1>5. CASE Current(w, worker.key) /\ Put(worker.key, o)
    <2>1. /\ o \in Objects /\ o.exists /\ o.uid = w.uid /\ o.rv = w.rv + 1
          /\ o.generation = w.generation /\ o.net = w.net /\ o.subnets = w.subnets
          /\ o.deleting = w.deleting /\ o.finalizer = w.finalizer
      BY <1>2 DEF Objects
    <2> HIDE DEF o
    <2>2. NamesInv' /\ FinalizerInv' /\ NetworksAreOwned'
      BY <1>1, <1>5, <2>1, WorkerWrite
    <2>3. HolderInv' /\ CleanInv'
      BY <1>3, IdleIs DEF HolderInv, CleanInv, Deletion
    <2> QED
      BY <2>2, <2>3 DEF OwnInv
  <1> QED
    BY <1>4, <1>5 DEF PatchRoutingStatus, Write, Reads, apiVars

\* A deletion in progress goes on: its network is gone by then.
LEMMA GotoDeletionOwns ==
  ASSUME IInv, OwnInv, Reads, worker.step \in Deletion, NEW step \in Deletion, Goto(step),
         NetworksAreOwned', cudn'[worker.obj.net] = "none"
  PROVE  OwnInv'
  <1>1. worker.step # "idle" /\ worker \in Reconciles
    BY BusyType DEF Deletion, IInv
  <1>2. worker'.key = worker.key /\ worker'.obj = worker.obj /\ worker'.step = step
    BY <1>1 DEF Goto, Reconciles
  <1>3. NamesInv' /\ FinalizerInv'
    BY DEF Reads, OwnInv, NamesInv, FinalizerInv, View
  <1>4. HolderInv'
    BY <1>1, <1>2 DEF Reads, OwnInv, HolderInv
  <1>5. CleanInv'
    BY <1>2 DEF CleanInv
  <1> QED
    BY <1>3, <1>4, <1>5 DEF OwnInv

LEMMA DeleteClusterUDNOwns ==
  ASSUME IInv, OwnInv, DeleteClusterUDN PROVE OwnInv'
  <1>1. worker.step = "deleteCUDN" /\ Reads
    BY DEF DeleteClusterUDN, Reads, apiVars
  <1>2. worker.obj.net \in Nets
    BY <1>1, WorkerNet DEF IInv
  <1>3. PICK out \in Outcomes :
           /\ DeleteCUDN(worker.obj.net, out)
           /\ IF out = "ok" THEN Goto("remaining") ELSE Return(TRUE)
    BY DEF DeleteClusterUDN
  <1>4. \A n \in Nets : cudn'[n] # "none" => cudn[n] # "none"
    BY <1>2, <1>3 DEF DeleteCUDN, IInv, TypeOK
  <1>5. NetworksAreOwned'
    BY <1>1, <1>4 DEF Reads, OwnInv, NetworksAreOwned
  <1>6. CASE out = "ok"
    <2>1. cudn'[worker.obj.net] = "none"
      BY <1>2, <1>3, <1>6 DEF DeleteCUDN, Applied, IInv, TypeOK
    <2> QED
      BY <1>1, <1>3, <1>5, <1>6, <2>1, GotoDeletionOwns DEF Deletion
  <1>7. CASE out # "ok"
    BY <1>1, <1>3, <1>4, <1>7, ReturnOwns DEF Return
  <1> QED
    BY <1>6, <1>7

LEMMA AfterCUDNOwns ==
  ASSUME IInv, OwnInv, CountRemaining \/ DeleteRouteAdvertisements PROVE OwnInv'
  <1>1. worker.step \in {"remaining", "deleteRA"} /\ Reads /\ cudn' = cudn
    BY DEF CountRemaining, DeleteRouteAdvertisements, Reads, apiVars
  <1>2. cudn'[worker.obj.net] = "none"
    BY <1>1 DEF OwnInv, CleanInv, Deletion
  <1>3. NetworksAreOwned'
    BY <1>1, SameNetworks
  <1>4. Return(TRUE) \/ \E step \in {"deleteRA", "removeFinalizer"} : Goto(step)
    BY DEF CountRemaining, DeleteRouteAdvertisements
  <1>5. CASE Return(TRUE)
    BY <1>1, <1>5, ReturnOwns DEF Return
  <1>6. CASE \E step \in {"deleteRA", "removeFinalizer"} : Goto(step)
    BY <1>1, <1>2, <1>3, <1>6, GotoDeletionOwns DEF Deletion
  <1> QED
    BY <1>4, <1>5, <1>6

\* The finalizer goes when the network is gone and the cache has seen the deletion:
\* no version that is still to come starts a reconcile of this object's network.
LEMMA RemoveFinalizerOwns ==
  ASSUME IInv, OwnInv, RemoveFinalizer PROVE OwnInv'
  <1> DEFINE k == worker.key
             g == Gone(store[k].uid)
  <1>1. worker.step = "removeFinalizer" /\ cudn' = cudn /\ worker' = Idle
    BY DEF RemoveFinalizer, Return
  <1>2. /\ k \in Routings /\ worker.obj \in Objects /\ store[k] \in Objects
        /\ cache[k] \in Objects
    BY <1>1, BusyType DEF IInv, TypeOK
  <1>3. CASE Reads
    BY <1>1, <1>3, ReturnOwns
  <1>4. CASE Current(worker.obj, k) /\ Put(k, g)
    <2>1. g \in Objects /\ g.exists = FALSE /\ Older(store[k], g)
      BY <1>2, GoneType, GoneIsNewer DEF Gone, Objects
    <2>2. store[k].uid = worker.obj.uid /\ store[k].exists
      BY <1>4 DEF Current, Exists
    <2>3. ASSUME NEW i \in 0..Len(views) PROVE StillHeld(View(cache, views, i)[k], g)
      <3> DEFINE c == View(cache, views, i)[k]
      <3>1. Len(views) \in Nat /\ View(cache, views, 0) = cache
        BY DEF IInv, TypeOK, View
      <3>2. Older(cache[k], c) /\ Older(c, store[k])
        BY <1>2, <3>1 DEF IInv, WatchInv
      <3>3. c \in Objects
        BY <1>2, <3>1 DEF IInv, TypeOK, View
      <3>4. Ended(worker.obj, cache[k])
        BY <1>1 DEF OwnInv, HolderInv, Deletion
      <3> HIDE DEF c
      <3>5. Ended(worker.obj, c)
        BY <1>2, <3>2, <3>3, <3>4, EndedOlder
      <3>6. c.exists => c.deleting
        BY <1>2, <2>2, <3>2, <3>3, <3>5 DEF Ended, Older, Objects
      <3>7. StillHeld(c, g)
        BY <3>6 DEF StillHeld
      <3> QED
        BY <3>7 DEF c
    <2>4. SameName(store[k], g)
      BY <2>1 DEF SameName
    <2> HIDE DEF g
    <2>5. NamesInv' /\ FinalizerInv'
      BY <1>2, <1>4, <2>1, <2>3, <2>4, PutVersions DEF OwnInv
    <2>6. store[k].net = worker.obj.net
      BY <1>1, <2>2 DEF OwnInv, HolderInv, SameName, IInv, WorkerInv
    <2>7. cudn[worker.obj.net] = "none"
      BY <1>1 DEF OwnInv, CleanInv, Deletion
    <2>8. \A q \in Routings : q # k => store'[q] = store[q]
      BY <1>4 DEF Put, IInv, TypeOK
    <2>9. NetworksAreOwned'
      BY <1>1, <2>6, <2>7, <2>8 DEF OwnInv, NetworksAreOwned
    <2>10. HolderInv' /\ CleanInv'
      BY <1>1, IdleIs DEF HolderInv, CleanInv, Deletion
    <2> QED
      BY <2>5, <2>9, <2>10 DEF OwnInv
  <1> QED
    BY <1>3, <1>4 DEF RemoveFinalizer, Remove, Reads, apiVars

LEMMA OwnInit == Init => OwnInv
  <1> SUFFICES ASSUME Init PROVE OwnInv
    OBVIOUS
  <1>1. /\ store = [r \in Routings |-> Gone(0)] /\ cache = store /\ views = <<>>
        /\ worker = Idle /\ Gone(0).exists = FALSE
        /\ \A n \in Nets : cudn[n] = "none"
    BY DEF Init, Gone
  <1>2. \A r \in Routings : ~store[r].exists
    BY <1>1
  <1>3. NamesInv /\ FinalizerInv
    BY <1>1, <1>2 DEF NamesInv, FinalizerInv, View, SameName, StillHeld
  <1>4. HolderInv /\ CleanInv
    BY <1>1, IdleIs DEF HolderInv, CleanInv, Deletion
  <1>5. NetworksAreOwned
    BY <1>1 DEF NetworksAreOwned
  <1> QED
    BY <1>3, <1>4, <1>5 DEF OwnInv

LEMMA OwnStep == NamesAreKept /\ IInv /\ TypeOK' /\ OwnInv /\ [Next]_vars => OwnInv'
  <1> SUFFICES ASSUME NamesAreKept, IInv, TypeOK', OwnInv, [Next]_vars PROVE OwnInv'
    OBVIOUS
  <1>1. CASE \E r \in Routings : CreateRouting(r) \/ EditRouting(r) \/ DeleteRouting(r)
    BY <1>1, CreateOwns, EditOwns, DeleteOwns
  <1>2. CASE \E n \in Nets : CUDNDrifts(n)
    BY <1>2, DriftOwns
  <1>3. CASE \/ ConfigChanges \/ RADrifts \/ UNCHANGED vars
             \/ \E n \in Nets : NamespaceChanges(n) \/ MapClusterUDNToRouting(n)
             \/ \E r \in Routings : TimerFires(r)
    <2>1. UNCHANGED <<store, views, cache, worker, cudn>>
      BY <1>3 DEF ConfigChanges, RADrifts, NamespaceChanges, MapClusterUDNToRouting,
                  TimerFires, apiVars, vars
    <2> QED
      BY <2>1, QuietOwns, WorkerNet DEF IInv
  <1>4. CASE Restart \/ DeliverView \/ \E r \in Routings : GetRouting(r)
    BY <1>4, RestartOwns, DeliverOwns, GetOwns
  <1>5. CASE Reconcile
    BY <1>5, EnsureFinalizerOwns, ChecksOwn, EnsureClusterUDNOwns, EnsureRAOwns,
       PatchStatusOwns, DeleteClusterUDNOwns, AfterCUDNOwns, RemoveFinalizerOwns DEF Reconcile
  <1> QED
    BY <1>1, <1>2, <1>3, <1>4, <1>5 DEF Next, Environment

\* While no object changes its network name, every CUDN belongs at every moment to an
\* object with the finalizer, through stale copies, failed calls, lost replies,
\* restarts and objects that share a name: a later reconcileDelete will remove it.
\* (With a renamed object this fails: the CUDN of the old name is never deleted.)
THEOREM NetworksOwned ==
  ASSUME NamesAreKept PROVE Spec => []NetworksAreOwned
  <1>1. OwnInv => NetworksAreOwned
    BY DEF OwnInv
  <1>2. IInv => TypeOK
    BY DEF IInv
  <1>3. IInv /\ TypeOK' /\ OwnInv /\ [Next]_vars => OwnInv'
    BY OwnStep
  <1> QED
    BY <1>1, <1>2, <1>3, OwnInit, Inductive, PTL DEF Spec
=============================================================================
