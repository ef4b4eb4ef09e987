----------------------------- MODULE BGPRouting -----------------------------
(***************************************************************************)
(* The BGPRouting controller (internal/controller/bgprouting_controller.go) *)
(* with the parts of the API server and of controller-runtime it depends   *)
(* on: the stored BGPRouting objects, the watch stream that feeds the      *)
(* informer cache, the work queue with its delayed additions, and the two  *)
(* kinds of object it writes, the ClusterUserDefinedNetwork (CUDN) of a    *)
(* network and the one shared RouteAdvertisements (RA).                    *)
(*                                                                         *)
(* One worker reconciles one key at a time (MaxConcurrentReconciles is     *)
(* left at 1).  BGPRouting objects are read from the cache, which follows  *)
(* the store with a delay; CUDNs and the RA are unstructured and are read  *)
(* and written live.  Every live call may fail, before or after it took    *)
(* effect.                                                                 *)
(***************************************************************************)
EXTENDS Naturals, Sequences, FiniteSets

CONSTANTS
    Routings,        \* names of BGPRouting objects
    Nets,            \* values of spec.network.name
    Names,           \* Names[r]: the network names users give to r
    Subnets,         \* values of spec.network.subnets
    InvalidSubnets,  \* the subnets the CUDN API rejects as Invalid
    Nobody,          \* the worker's key when it is idle
    Disturbances,    \* what may happen besides creation and deletion of objects
    MaxEvents,       \* bound on the number of user, environment and fault events
    MaxLag           \* bound on the writes the cache may be behind the store

ASSUME NamesAssumption == Nets # {} /\ Names \in [Routings -> SUBSET Nets]
ASSUME NobodyAssumption == Nobody \notin Routings
ASSUME SubnetsAssumption ==
    /\ Subnets # {}
    /\ InvalidSubnets \subseteq Subnets
    /\ "none" \notin Subnets /\ "other" \notin Subnets
ASSUME BoundsAssumption == MaxEvents \in Nat /\ MaxLag \in Nat

VARIABLES
    store,       \* store[r]: the BGPRouting object in the API server
    views,       \* versions of the store the watch has not delivered yet
    cache,       \* the informer cache: an earlier version of the store
    cudn,        \* cudn[n]: subnets of the CUDN of network n, "none" or "other"
    ra,          \* TRUE iff the shared RouteAdvertisements exists as desired
    configReady, \* the cache has the BGPCloudConfiguration, in phase Ready
    labelled,    \* networks with a correctly labelled namespace in the cache
    queue,       \* keys in the work queue
    delayed,     \* keys with a pending AddAfter or AddRateLimited
    cudnEvents,  \* networks with a CUDN event not yet handled
    worker,      \* the reconcile in progress
    budget       \* events still allowed

apiVars == <<store, views, cache>>
envVars == <<configReady, labelled>>
queueVars == <<queue, delayed, cudnEvents>>
vars == <<store, views, cache, cudn, ra, configReady, labelled,
          queue, delayed, cudnEvents, worker, budget>>

-----------------------------------------------------------------------------
(* Objects.  A name without an object keeps the uid of its last object, so  *)
(* that uids of a name grow; rv counts the writes of an object: the code    *)
(* only compares resource versions of the same object for equality.        *)

Phases == {"", "Pending", "Configuring", "Ready", "Degraded"}
NetworkReasons == {"", "Created", "DuplicateNetwork", "NamespaceNotReady",
                   "CUDNFailed", "CUDNSpecInvalid"}
RAReasons == {"", "Created", "RAFailed"}

\* A condition is its reason: "Created" is status True, any other reason is
\* status False, "" is a condition that is not set.
Statuses == [phase : Phases, networkCreated : NetworkReasons,
             raCreated : RAReasons, observed : Nat]

NoStatus == [phase |-> "", networkCreated |-> "", raCreated |-> "", observed |-> 0]

Objects == [exists : BOOLEAN, uid : Nat, rv : Nat, generation : Nat, net : Nets, subnets : Subnets,
            deleting : BOOLEAN, finalizer : BOOLEAN, status : Statuses]

Exists(o) == o.exists

\* No object, after `uid` creations of the name.
Gone(uid) == [exists |-> FALSE, uid |-> uid, rv |-> 0, generation |-> 0,
              net |-> CHOOSE n \in Nets : TRUE, subnets |-> CHOOSE s \in Subnets : TRUE,
              deleting |-> FALSE, finalizer |-> FALSE, status |-> NoStatus]

Steps == {"finalizer", "duplicate", "config", "namespace", "cudn", "ra", "status",
          "deleteCUDN", "remaining", "deleteRA", "removeFinalizer"}

\* A reconcile in progress: the copy of the object it works on, whose status it
\* builds up; the status as read; whether it returns a RequeueAfter.
Reconciles == [step : Steps, key : Routings, obj : Objects, baseline : Statuses,
               requeue : BOOLEAN]

Idle == [step |-> "idle", key |-> Nobody, obj |-> Gone(0), baseline |-> NoStatus,
         requeue |-> FALSE]

\* Reasons of this controller for which setDegraded schedules no retry.
TerminalReasons == {"DuplicateNetwork", "CUDNSpecInvalid"}

Init ==
    /\ store = [r \in Routings |-> Gone(0)]
    /\ views = <<>>
    /\ cache = [r \in Routings |-> Gone(0)]
    /\ cudn = [n \in Nets |-> "none"]
    /\ ra = FALSE
    /\ configReady \in IF "config" \in Disturbances THEN BOOLEAN ELSE {TRUE}
    /\ labelled \in IF "namespace" \in Disturbances THEN SUBSET Nets ELSE {Nets}
    /\ queue = {}
    /\ delayed = {}
    /\ cudnEvents = {}
    /\ worker = Idle
    /\ budget = MaxEvents

-----------------------------------------------------------------------------
(* The API server.                                                         *)

\* A write of r: a new version of the store, which the watch will deliver.
Put(r, o) ==
    /\ Len(views) < MaxLag
    /\ store' = [store EXCEPT ![r] = o]
    /\ views' = Append(views, store')
    /\ UNCHANGED cache

\* A write to an existing object.
Write(r, o) == Put(r, [o EXCEPT !.rv = @ + 1])

\* The object goes away.
Remove(r) == Put(r, Gone(store[r].uid))

\* Optimistic concurrency: an update applies to the version it was made from.
Current(o, r) == Exists(store[r]) /\ store[r].uid = o.uid /\ store[r].rv = o.rv

\* One event of the bounded environment.
Event == budget > 0 /\ budget' = budget - 1

\* How a live call ends: done, refused before or reported failed after it took
\* effect (a lost reply).
Outcomes == {"ok"} \cup
            IF "fault" \in Disturbances /\ budget > 0 THEN {"error", "lostReply"} ELSE {}

Applied(out) == out # "error"
Charge(out) == budget' = IF out = "ok" THEN budget ELSE budget - 1

-----------------------------------------------------------------------------
(* Users and environment.                                                  *)

CreateRouting(r) ==
    /\ ~Exists(store[r])
    /\ Event
    /\ \E n \in Names[r], s \in Subnets :
          Put(r, [exists |-> TRUE, uid |-> store[r].uid + 1, rv |-> 1, generation |-> 1,
                  net |-> n, subnets |-> s, deleting |-> FALSE, finalizer |-> FALSE,
                  status |-> NoStatus])
    /\ UNCHANGED <<cudn, ra, envVars, queueVars, worker>>

\* A user changes spec.network (name or subnets).
EditRouting(r) ==
    /\ "edit" \in Disturbances
    /\ Exists(store[r])
    /\ Event
    /\ \E n \in Names[r], s \in Subnets :
          /\ <<n, s>> # <<store[r].net, store[r].subnets>>
          /\ Write(r, [store[r] EXCEPT !.generation = @ + 1, !.net = n, !.subnets = s])
    /\ UNCHANGED <<cudn, ra, envVars, queueVars, worker>>

\* Deletion marks an object that has the finalizer and removes one without.
DeleteRouting(r) ==
    /\ Exists(store[r]) /\ ~store[r].deleting
    /\ Event
    /\ IF store[r].finalizer
       THEN Write(r, [store[r] EXCEPT !.generation = @ + 1, !.deleting = TRUE])
       ELSE Remove(r)
    /\ UNCHANGED <<cudn, ra, envVars, queueVars, worker>>

\* The cached BGPCloudConfiguration becomes Ready, or ceases to be or to exist.
ConfigChanges ==
    /\ "config" \in Disturbances
    /\ Event
    /\ configReady' = ~configReady
    /\ UNCHANGED <<apiVars, cudn, ra, labelled, queueVars, worker>>

\* A namespace gains or loses the labels of network n.
NamespaceChanges(n) ==
    /\ "namespace" \in Disturbances
    /\ Event
    /\ labelled' = (labelled \ {n}) \cup ({n} \ labelled)
    /\ UNCHANGED <<apiVars, cudn, ra, configReady, queueVars, worker>>

\* Someone else deletes or edits a CUDN.  An edit that strips the managed-by
\* label is not passed on by mapClusterUDNToRouting.
CUDNDrifts(n) ==
    /\ "drift" \in Disturbances
    /\ cudn[n] # "none"
    /\ Event
    /\ \/ /\ cudn' = [cudn EXCEPT ![n] = "none"]
          /\ cudnEvents' = cudnEvents \cup {n}
       \/ /\ cudn' = [cudn EXCEPT ![n] = "other"]
          /\ cudnEvents' \in {cudnEvents, cudnEvents \cup {n}}
    /\ UNCHANGED <<apiVars, ra, envVars, queue, delayed, worker>>

\* Someone else deletes or edits the RouteAdvertisements, which nobody watches.
RADrifts ==
    /\ "drift" \in Disturbances
    /\ ra
    /\ Event
    /\ ra' = FALSE
    /\ UNCHANGED <<apiVars, cudn, envVars, queueVars, worker>>

\* The manager restarts: the reconcile in progress and the queue are lost, the
\* cache is filled from a list, and every listed object and CUDN is an event.
Restart ==
    /\ "restart" \in Disturbances
    /\ Event
    /\ worker' = Idle
    /\ cache' = store
    /\ views' = <<>>
    /\ queue' = {r \in Routings : Exists(store[r])}
    /\ delayed' = {}
    /\ cudnEvents' = {n \in Nets : cudn[n] # "none"}
    /\ UNCHANGED <<store, cudn, ra, envVars>>

-----------------------------------------------------------------------------
(* Watches and queue.                                                      *)

\* Faulty variant: the second watch has no DeleteFunc.
AffectsAllButDeletion(old, new) ==
    \/ ~Exists(old) /\ Exists(new)
    \/ Exists(new) /\ old.net # new.net

\* Routing events for which the second watch runs enqueueAllRoutings.
AffectsAll(old, new) ==
    \/ Exists(old) # Exists(new)
    \/ old.net # new.net

\* The watch delivers one write to the cache and to the event handlers.
DeliverView ==
    /\ views # <<>>
    /\ LET new == Head(views)
           changed == {r \in Routings : new[r] # cache[r]}
           all == {r \in Routings : Exists(new[r])}
       IN  /\ cache' = new
           /\ queue' = queue \cup changed \cup
                 IF \E r \in changed : AffectsAll(cache[r], new[r]) THEN all ELSE {}
    /\ views' = Tail(views)
    /\ UNCHANGED <<store, cudn, ra, envVars, delayed, cudnEvents, worker, budget>>

\* mapClusterUDNToRouting: an event of a CUDN enqueues the first routing listed
\* with that network name; the order of a cached list is unspecified.
MapClusterUDNToRouting(n) ==
    /\ n \in cudnEvents
    /\ cudnEvents' = cudnEvents \ {n}
    /\ LET claimants == {r \in Routings : Exists(cache[r]) /\ cache[r].net = n}
       IN  \/ claimants = {} /\ UNCHANGED queue
           \/ \E r \in claimants : queue' = queue \cup {r}
    /\ UNCHANGED <<apiVars, cudn, ra, envVars, delayed, worker, budget>>

\* A RequeueAfter or a rate-limited retry becomes due.
TimerFires(r) ==
    /\ r \in delayed
    /\ delayed' = delayed \ {r}
    /\ queue' = queue \cup {r}
    /\ UNCHANGED <<apiVars, cudn, ra, envVars, cudnEvents, worker, budget>>

-----------------------------------------------------------------------------
(* Reconcile.                                                              *)

\* Faulty variant: the key is forgotten before it is scheduled again.
ReturnForgettingKey(requeue) ==
    /\ worker' = Idle
    /\ delayed' = IF requeue THEN delayed \cup {worker'.key} ELSE delayed

\* The reconcile returns; a RequeueAfter or an error schedules the key again.
Return(requeue) ==
    /\ worker' = Idle
    /\ delayed' = IF requeue THEN delayed \cup {worker.key} ELSE delayed

Goto(step) == worker' = [worker EXCEPT !.step = step] /\ UNCHANGED delayed

\* To the status write, with a new status.
GotoStatus(status, requeue) ==
    /\ worker' = [worker EXCEPT !.step = "status", !.requeue = requeue, !.obj.status = status]
    /\ UNCHANGED delayed

\* setDegraded: a failed condition leaves the other condition as it was, and a
\* terminal reason schedules no retry.
SetDegraded(condition, reason) ==
    GotoStatus([worker.obj.status EXCEPT !.phase = "Degraded",
                    !.networkCreated = IF condition = "NetworkCreated" THEN reason ELSE @,
                    !.raCreated = IF condition = "RouteAdvertisementsCreated" THEN reason ELSE @],
               reason \notin TerminalReasons)

GetRouting(r) ==
    /\ worker.step = "idle"
    /\ r \in queue
    /\ queue' = queue \ {r}
    /\ worker' = IF ~Exists(cache[r]) THEN Idle
                 ELSE [step |-> IF cache[r].deleting THEN "deleteCUDN" ELSE "finalizer",
                       key |-> r, obj |-> cache[r], baseline |-> cache[r].status,
                       requeue |-> FALSE]
    /\ UNCHANGED <<apiVars, cudn, ra, envVars, delayed, cudnEvents, budget>>

\* The copy after the finalizer is in place: Configuring, generation observed.
Started(o) ==
    [o EXCEPT !.finalizer = TRUE,
              !.status = [o.status EXCEPT !.phase = "Configuring", !.observed = o.generation]]

EnsureFinalizer ==
    /\ worker.step = "finalizer"
    /\ \/ /\ worker.obj.finalizer
          /\ worker' = [worker EXCEPT !.step = "duplicate", !.obj = Started(worker.obj)]
          /\ UNCHANGED <<apiVars, delayed, budget>>
       \/ /\ ~worker.obj.finalizer
          /\ Current(worker.obj, worker.key)
          /\ \E out \in Outcomes :
                /\ Charge(out)
                /\ IF Applied(out)
                   THEN Write(worker.key, [worker.obj EXCEPT !.finalizer = TRUE])
                   ELSE UNCHANGED apiVars
                /\ IF out = "ok"
                   THEN /\ worker' = [worker EXCEPT !.step = "duplicate",
                                        !.obj = [Started(worker.obj) EXCEPT !.rv = worker.obj.rv + 1]]
                        /\ UNCHANGED delayed
                   ELSE Return(TRUE)
       \/ /\ ~worker.obj.finalizer
          /\ ~Current(worker.obj, worker.key)
          /\ Return(TRUE)
          /\ UNCHANGED <<apiVars, budget>>
    /\ UNCHANGED <<cudn, ra, envVars, queue, cudnEvents>>

\* Faulty variant: only a listed object that is Ready counts as a claimant.
CheckDuplicateAmongReady ==
    /\ worker.step = "duplicate"
    /\ IF \E s \in Routings \ {worker.key} :
             /\ Exists(cache[s]) /\ cache[s].net = worker.obj.net
             /\ cache[s].status.phase = "Ready"
       THEN SetDegraded("NetworkCreated", "DuplicateNetwork")
       ELSE Goto("config")
    /\ UNCHANGED <<apiVars, cudn, ra, envVars, queue, cudnEvents, budget>>

\* The network name must not be claimed by any other listed object, whichever
\* came first and whether or not it is being deleted.
CheckDuplicate ==
    /\ worker.step = "duplicate"
    /\ IF \E s \in Routings \ {worker.key} :
             Exists(cache[s]) /\ cache[s].net = worker.obj.net
       THEN SetDegraded("NetworkCreated", "DuplicateNetwork")
       ELSE Goto("config")
    /\ UNCHANGED <<apiVars, cudn, ra, envVars, queue, cudnEvents, budget>>

\* Without a Ready configuration the status is Pending with no conditions.
CheckConfig ==
    /\ worker.step = "config"
    /\ IF configReady
       THEN Goto("namespace")
       ELSE GotoStatus([NoStatus EXCEPT !.phase = "Pending",
                            !.observed = worker.obj.status.observed], TRUE)
    /\ UNCHANGED <<apiVars, cudn, ra, envVars, queue, cudnEvents, budget>>

\* Some namespace has the labels of network n.
NamespaceLabelled(n) == n \in labelled

ValidateNamespaceLabels ==
    /\ worker.step = "namespace"
    /\ IF NamespaceLabelled(worker.obj.net)
       THEN Goto("cudn")
       ELSE SetDegraded("NetworkCreated", "NamespaceNotReady")
    /\ UNCHANGED <<apiVars, cudn, ra, envVars, queue, cudnEvents, budget>>

\* The API server's verdict on a CUDN that has to be written.
RejectedAsInvalid(n, s) == cudn[n] # s /\ s \in InvalidSubnets

\* createOrUpdate of the CUDN of n: left alone when it is as desired, else written
\* unless refused.
CreateOrUpdateCUDN(n, s, out) ==
    LET write == cudn[n] # s /\ ~RejectedAsInvalid(n, s) /\ Applied(out)
    IN  /\ cudn' = IF write THEN [cudn EXCEPT ![n] = s] ELSE cudn
        /\ cudnEvents' = IF write THEN cudnEvents \cup {n} ELSE cudnEvents

EnsureClusterUDN ==
    /\ worker.step = "cudn"
    /\ LET n == worker.obj.net
           s == worker.obj.subnets
       IN  \E out \in Outcomes :
             /\ Charge(out)
             /\ CreateOrUpdateCUDN(n, s, out)
             /\ \/ out # "ok" /\ SetDegraded("NetworkCreated", "CUDNFailed")
                \/ /\ out = "ok" /\ RejectedAsInvalid(n, s)
                   /\ SetDegraded("NetworkCreated", "CUDNSpecInvalid")
                \/ /\ out = "ok" /\ ~RejectedAsInvalid(n, s)
                   /\ worker' = [worker EXCEPT !.step = "ra",
                                    !.obj.status.networkCreated = "Created"]
                   /\ UNCHANGED delayed
    /\ UNCHANGED <<apiVars, ra, envVars, queue>>

\* createOrUpdate of the shared RouteAdvertisements.
CreateOrUpdateRA(out) == ra' = (ra \/ Applied(out))

\* Faulty variant: Ready schedules no further reconcile.
EnsureRouteAdvertisementsOnce ==
    /\ worker.step = "ra"
    /\ \E out \in Outcomes :
          /\ Charge(out)
          /\ CreateOrUpdateRA(out)
          /\ IF out = "ok"
             THEN GotoStatus([worker.obj.status EXCEPT !.raCreated = "Created",
                                                       !.phase = "Ready"], FALSE)
             ELSE SetDegraded("RouteAdvertisementsCreated", "RAFailed")
    /\ UNCHANGED <<apiVars, cudn, envVars, queue, cudnEvents>>

\* With the RouteAdvertisements in place the phase is Ready.
EnsureRouteAdvertisements ==
    /\ worker.step = "ra"
    /\ \E out \in Outcomes :
          /\ Charge(out)
          /\ CreateOrUpdateRA(out)
          /\ IF out = "ok"
             THEN GotoStatus([worker.obj.status EXCEPT !.raCreated = "Created",
                                                       !.phase = "Ready"], TRUE)
             ELSE SetDegraded("RouteAdvertisementsCreated", "RAFailed")
    /\ UNCHANGED <<apiVars, cudn, envVars, queue, cudnEvents>>

\* patchRoutingStatus: no write when the status equals the one read at the
\* start, a conflict when the object has changed since, else a status update.
PatchRoutingStatus ==
    /\ worker.step = "status"
    /\ \/ /\ worker.obj.status = worker.baseline
          /\ Return(worker.requeue)
          /\ UNCHANGED <<apiVars, budget>>
       \/ /\ worker.obj.status # worker.baseline
          /\ Current(worker.obj, worker.key)
          /\ \E out \in Outcomes :
                /\ Charge(out)
                /\ IF Applied(out)
                   THEN Write(worker.key, worker.obj)
                   ELSE UNCHANGED apiVars
                /\ Return(worker.requeue \/ out # "ok")
       \/ /\ worker.obj.status # worker.baseline
          /\ ~Current(worker.obj, worker.key)
          /\ Return(TRUE)
          /\ UNCHANGED <<apiVars, budget>>
    /\ UNCHANGED <<cudn, ra, envVars, queue, cudnEvents>>

-----------------------------------------------------------------------------
(* reconcileDelete.                                                        *)

\* Faulty variant: a failed deletion is only logged.
DeleteClusterUDNIgnoringErrors ==
    /\ worker.step = "deleteCUDN"
    /\ \E out \in Outcomes :
          /\ Charge(out)
          /\ cudn' = IF Applied(out) THEN [cudn EXCEPT ![worker.obj.net] = "none"] ELSE cudn
          /\ Goto("remaining")
    /\ UNCHANGED <<apiVars, ra, envVars, queue, cudnEvents>>

\* The CUDN of n is deleted; one that is not there is no error.
DeleteCUDN(n, out) ==
    /\ cudn' = IF Applied(out) THEN [cudn EXCEPT ![n] = "none"] ELSE cudn
    /\ cudnEvents' = IF Applied(out) /\ cudn[n] # "none"
                     THEN cudnEvents \cup {n} ELSE cudnEvents

\* The CUDN of the network name is deleted, whoever else claims the name.
DeleteClusterUDN ==
    /\ worker.step = "deleteCUDN"
    /\ \E out \in Outcomes :
          /\ Charge(out)
          /\ DeleteCUDN(worker.obj.net, out)
          /\ IF out = "ok" THEN Goto("remaining") ELSE Return(TRUE)
    /\ UNCHANGED <<apiVars, ra, envVars, queue>>

\* Faulty variant: every deletion takes itself for the last.
CountRemainingAsLast ==
    /\ worker.step = "remaining"
    /\ Goto("deleteRA")
    /\ UNCHANGED <<apiVars, cudn, ra, envVars, queue, cudnEvents, budget>>

\* The routings left besides this one, counted in the cache.
CountRemaining ==
    /\ worker.step = "remaining"
    /\ Goto(IF \E s \in Routings \ {worker.key} : Exists(cache[s])
            THEN "removeFinalizer" ELSE "deleteRA")
    /\ UNCHANGED <<apiVars, cudn, ra, envVars, queue, cudnEvents, budget>>

\* The RouteAdvertisements is deleted; one that is not there is no error.
DeleteRA(out) == ra' = (ra /\ ~Applied(out))

DeleteRouteAdvertisements ==
    /\ worker.step = "deleteRA"
    /\ \E out \in Outcomes :
          /\ Charge(out)
          /\ DeleteRA(out)
          /\ IF out = "ok" THEN Goto("removeFinalizer") ELSE Return(TRUE)
    /\ UNCHANGED <<apiVars, cudn, envVars, queue, cudnEvents>>

\* Removing the last finalizer of a deleting object removes the object.
RemoveFinalizer ==
    /\ worker.step = "removeFinalizer"
    /\ \/ /\ Current(worker.obj, worker.key)
          /\ \E out \in Outcomes :
                /\ Charge(out)
                /\ IF Applied(out) THEN Remove(worker.key) ELSE UNCHANGED apiVars
                /\ Return(out # "ok")
       \/ /\ ~Current(worker.obj, worker.key)
          /\ Return(TRUE)
          /\ UNCHANGED <<apiVars, budget>>
    /\ UNCHANGED <<cudn, ra, envVars, queue, cudnEvents>>

-----------------------------------------------------------------------------
Reconcile ==
    \/ EnsureFinalizer
    \/ CheckDuplicate
    \/ CheckConfig
    \/ ValidateNamespaceLabels
    \/ EnsureClusterUDN
    \/ EnsureRouteAdvertisements
    \/ PatchRoutingStatus
    \/ DeleteClusterUDN
    \/ CountRemaining
    \/ DeleteRouteAdvertisements
    \/ RemoveFinalizer

Environment ==
    \/ \E r \in Routings : CreateRouting(r) \/ EditRouting(r) \/ DeleteRouting(r)
    \/ ConfigChanges
    \/ \E n \in Nets : NamespaceChanges(n) \/ CUDNDrifts(n)
    \/ RADrifts
    \/ Restart

Next ==
    \/ Environment
    \/ DeliverView
    \/ \E n \in Nets : MapClusterUDNToRouting(n)
    \/ \E r \in Routings : TimerFires(r) \/ GetRouting(r)
    \/ Reconcile

Spec == Init /\ [][Next]_vars

\* The watch and the worker keep going, timers fire, and the queue is FIFO: a
\* key that waits is taken.  Users and faults owe nothing.
Fairness ==
    /\ WF_vars(DeliverView)
    /\ \A n \in Nets : WF_vars(MapClusterUDNToRouting(n))
    /\ WF_vars(Reconcile)
    /\ \A r \in Routings : WF_vars(TimerFires(r)) /\ SF_vars(GetRouting(r))

FairSpec == Spec /\ Fairness

-----------------------------------------------------------------------------
(* Properties.                                                             *)

\* Every variable has its type.
TypeOK ==
    /\ store \in [Routings -> Objects]
    /\ views \in Seq([Routings -> Objects])
    /\ cache \in [Routings -> Objects]
    /\ cudn \in [Nets -> Subnets \cup {"none", "other"}]
    /\ ra \in BOOLEAN
    /\ configReady \in BOOLEAN
    /\ labelled \in SUBSET Nets
    /\ queue \in SUBSET Routings
    /\ delayed \in SUBSET Routings
    /\ cudnEvents \in SUBSET Nets
    /\ worker \in Reconciles \cup {Idle}
    /\ budget \in Nat

Live(o) == Exists(o) /\ ~o.deleting

\* Ready for the spec the object has now.
ReadyNow(o) == Live(o) /\ o.status.phase = "Ready" /\ o.status.observed = o.generation

\* reconcileDelete deletes the shared RouteAdvertisements on the word of a cached
\* list, which may be behind the API server.  Even so it never withdraws it from
\* a network in use: while some object that is not being deleted says Ready, the
\* RouteAdvertisements exists (when nobody else deletes it).
ReadyIsAdvertised ==
    "drift" \notin Disturbances =>
        \A r \in Routings : Live(store[r]) /\ store[r].status.phase = "Ready" => ra

\* The duplicate check also reads the cache.  Even so two objects are never both
\* Ready for specs that claim the same network name.
UniqueClaims ==
    \A r, s \in Routings :
        r # s /\ ReadyNow(store[r]) /\ ReadyNow(store[s]) => store[r].net # store[s].net

\* The network of an object that is Ready for its spec is there, with the subnets
\* of the spec (when nobody else changes CUDNs).
ReadyHasNetwork ==
    "drift" \notin Disturbances =>
        \A r \in Routings : ReadyNow(store[r]) => cudn[store[r].net] = store[r].subnets

\* Nobody watches the RouteAdvertisements, the namespaces or an unlabelled CUDN: only
\* a later reconcile finds them changed.  An object that says Ready is never
\* forgotten: it is queued, scheduled, in progress, or the watch has news of it,
\* also when a reconcile from a stale cache ended without a retry.
ReadyIsRevisited ==
    \A r \in Routings : Live(store[r]) /\ store[r].status.phase = "Ready" =>
        r \in queue \cup delayed \cup {worker.key} \/ cache[r] # store[r]

\* The finalizer protects the CUDN: at every moment, through failed calls, lost
\* replies and restarts, a CUDN belongs to some object that still has the
\* finalizer, so that a later reconcileDelete will remove it.
NetworksAreOwned ==
    \A n \in Nets : cudn[n] # "none" =>
        \E r \in Routings : Exists(store[r]) /\ store[r].finalizer /\ store[r].net = n

\* The RouteAdvertisements does not outlive the last BGPRouting.
AdvertisementsAreOwned == ra => \E r \in Routings : Exists(store[r])

\* What Reconcile makes of r once everything has been seen.  CUDNSpecInvalid is
\* terminal: it stays when the configuration or the namespace changes later.
ExpectedPhases(r) ==
    LET terminal == IF store[r].subnets \in InvalidSubnets THEN {"Degraded"} ELSE {}
    IN  CASE \E s \in Routings \ {r} : Exists(store[s]) /\ store[s].net = store[r].net
                                          -> {"Degraded"}
          [] ~configReady                 -> {"Pending"} \cup terminal
          [] store[r].net \notin labelled -> {"Degraded"}
          [] OTHER                        -> IF terminal = {} THEN {"Ready"} ELSE terminal

Settled(r) ==
    Exists(store[r]) =>
        /\ ~store[r].deleting
        /\ store[r].status.phase \in ExpectedPhases(r)
        /\ store[r].status.observed = store[r].generation
        /\ store[r].status.phase = "Ready" => ra /\ cudn[store[r].net] = store[r].subnets

\* Once users, faults and the environment stop, every deletion completes and every
\* object reaches, and keeps, the phase its spec and its surroundings call for,
\* with its network and the RouteAdvertisements in place when that is Ready.  In
\* particular the terminal DuplicateNetwork, which schedules no retry, is left
\* when the other claimant goes, and a status write skipped or refused because
\* of a stale cache is made up for.
Converges == \A r \in Routings : <>[]Settled(r)
=============================================================================
