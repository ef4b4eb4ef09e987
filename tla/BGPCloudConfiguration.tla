------------------------ MODULE BGPCloudConfiguration ------------------------
(***************************************************************************)
(* The BGPCloudConfiguration controller                                    *)
(* (internal/controller/bgpcloudconfiguration_controller.go): one object,  *)
(* read from an informer cache that follows the API server with a delay,   *)
(* reconciled by one worker in five phases: patch the Network operator,    *)
(* wait for FRR, discover the cloud's peering plan, write one              *)
(* FRRConfiguration per peer group (frr.go), reconcile the cloud's peers   *)
(* for the router nodes.  Deletion undoes the last two once no BGPRouting  *)
(* is left.  Every live call may fail, before or after it took effect.     *)
(*                                                                         *)
(* The cloud is used through the CloudPlatform interface and modelled by   *)
(* what its three methods promise: the plan found, the set of nodes that   *)
(* have peers, and that set emptied.                                       *)
(***************************************************************************)
EXTENDS Naturals, Sequences

CONSTANTS
    Nodes,         \* nodes the router node selector may select
    Groups,        \* peer groups as rendered: node selector, neighbours, liveness
    Covers,        \* pairs <<a, b>>: a sets every field of b as b does, and more
    Specs,         \* specs users write: a platform and, when Manual, groups
    Plans,         \* sequences of groups the cloud may have
    MaxGroups,     \* bound on the number of peer groups
    Disturbances,  \* what may happen besides creation and deletion
    MaxEvents,     \* bound on user, environment and fault events
    MaxLag         \* bound on the writes the cache may be behind the store

Platforms == {"Manual", "Cloud"}

ASSUME SpecsAssumption ==
    /\ Specs # {}
    /\ MaxGroups \in Nat
    /\ \A p \in Plans : p \in Seq(Groups) /\ Len(p) <= MaxGroups
    /\ \A s \in Specs : s.platform \in Platforms /\ s.groups \in Plans \cup {<<>>}
    /\ Plans # {} /\ "none" \notin Groups /\ "other" \notin Groups
    /\ Covers \subseteq Groups \X Groups
ASSUME LimitsAssumption == MaxEvents \in Nat /\ MaxLag \in Nat

VARIABLES
    store,        \* the BGPCloudConfiguration in the API server
    views,        \* versions of it the watch has not delivered yet
    cache,        \* the informer cache: an earlier version of it
    routings,     \* some BGPRouting exists in the API server
    routingsSeen, \* some BGPRouting exists in the cache
    frr,          \* frr[i]: the group in FRRConfiguration bgp-cc-i, "none" or "other"
    peers,        \* nodes with a managed peer in the cloud
    nodes,        \* what the cache says of each node
    cloud,        \* credentials and peering plan
    frrState,     \* how far the Network operator has brought FRR up
    queued,       \* the key is in the work queue
    delayed,      \* the key has a pending RequeueAfter or retry
    worker,       \* the reconcile in progress
    budget        \* events still allowed

apiVars == <<store, views, cache>>
routingVars == <<routings, routingsSeen>>
worldVars == <<nodes, cloud, frrState>>
queueVars == <<queued, delayed>>
vars == <<store, views, cache, routings, routingsSeen, frr, peers, nodes, cloud,
          frrState, queued, delayed, worker, budget>>

-----------------------------------------------------------------------------
(* Objects.  A condition is its reason: Patched, Ready, Discovered, Applied, *)
(* Complete, Reconciled and RoutingCRsExist are status True, other reasons  *)
(* status False, "" is a condition that is not set.  Times                  *)
(* are relative to now: `since` says whether the inventory condition turned *)
(* False more than five minutes ago.                                        *)

Statuses == [phase : {"", "Configuring", "Ready", "Degraded"},
             observed : Nat,
             peerGroups : Plans \cup {<<>>},
             patched : {"", "Patched", "PatchFailed", "InvalidName"},
             frrReady : {"", "Ready", "CheckFailed", "WaitingForFRR"},
             discovered : {"", "Discovered", "WaitingForCloudCredentials",
                           "CloudCredentialsInvalid", "CloudDiscoveryFailed",
                           "RouteServerNotFound"},
             applied : {"", "Applied", "ApplyFailed"},
             inventory : {"", "Complete", "NodesIncomplete"},
             since : {"", "recent", "old"},
             reconciled : {"", "Reconciled", "NodesIncomplete", "CloudReconcileFailed"},
             blocked : {"", "RoutingCRsExist"}]

NoStatus == [phase |-> "", observed |-> 0, peerGroups |-> <<>>, patched |-> "",
             frrReady |-> "", discovered |-> "", applied |-> "", inventory |-> "",
             since |-> "", reconciled |-> "", blocked |-> ""]

Objects == [exists : BOOLEAN, uid : Nat, rv : Nat, generation : Nat, named : BOOLEAN,
            spec : Specs, deleting : BOOLEAN, finalizer : BOOLEAN, status : Statuses]

\* No object, after `uid` creations of the name.
Gone(uid) == [exists |-> FALSE, uid |-> uid, rv |-> 0, generation |-> 0, named |-> TRUE,
              spec |-> CHOOSE s \in Specs : TRUE, deleting |-> FALSE, finalizer |-> FALSE,
              status |-> NoStatus]

Steps == {"finalizer", "patch", "frr", "build", "discover", "apply", "nodes",
          "cloud", "status", "routings", "cleanup", "deleteFRR", "removeFinalizer"}

\* A reconcile in progress: the copy of the object, whose status it builds up;
\* the status as read; the groups to render and the next one; the complete
\* nodes listed and whether all were; whether it returns a RequeueAfter.
Reconciles == [step : Steps, obj : Objects, baseline : Statuses,
               groups : Plans \cup {<<>>}, next : Nat,
               complete : SUBSET Nodes, all : BOOLEAN, requeue : BOOLEAN]

Idle == [step |-> "idle", obj |-> Gone(0), baseline |-> NoStatus, groups |-> <<>>,
         next |-> 1, complete |-> {}, all |-> TRUE, requeue |-> FALSE]

\* Reasons of this controller for which setDegraded schedules no retry.
TerminalReasons == {"InvalidName", "CloudCredentialsInvalid", "RouteServerNotFound"}

\* The FRRConfigurations that a list of groups calls for.
Rendered(groups) == [i \in 1..MaxGroups |-> IF i <= Len(groups) THEN groups[i] ELSE "none"]

Init ==
    /\ store = Gone(0)
    /\ views = <<>>
    /\ cache = Gone(0)
    /\ routings = FALSE /\ routingsSeen = FALSE
    /\ frr = [i \in 1..MaxGroups |-> "none"]
    /\ peers = {}
    /\ nodes \in IF "nodes" \in Disturbances
                 THEN [Nodes -> {"absent", "incomplete", "complete"}]
                 ELSE {[n \in Nodes |-> "complete"]}
    /\ cloud \in [credentials : IF "credentials" \in Disturbances
                                THEN {"valid", "pending", "invalid"} ELSE {"valid"},
                  found : IF "discovery" \in Disturbances THEN BOOLEAN ELSE {TRUE},
                  plan : Plans]
    /\ frrState = "absent"
    /\ queued = FALSE /\ delayed = FALSE
    /\ worker = Idle
    /\ budget = MaxEvents

-----------------------------------------------------------------------------
(* The API server.                                                         *)

Put(o) ==
    /\ Len(views) < MaxLag
    /\ store' = o
    /\ views' = Append(views, o)
    /\ UNCHANGED cache

Write(o) == Put([o EXCEPT !.rv = @ + 1])

\* Optimistic concurrency: an update applies to the version it was made from.
Current(o) == store.exists /\ store.uid = o.uid /\ store.rv = o.rv

Event == budget > 0 /\ budget' = budget - 1

Outcomes == {"ok"} \cup
            IF "fault" \in Disturbances /\ budget > 0 THEN {"error", "lostReply"} ELSE {}
Applied(out) == out # "error"
Charge(out) == budget' = IF out = "ok" THEN budget ELSE budget - 1

-----------------------------------------------------------------------------
(* Users and environment.                                                  *)

CreateConfig ==
    /\ ~store.exists
    /\ Event
    /\ \E s \in Specs, name \in IF "misname" \in Disturbances THEN BOOLEAN ELSE {TRUE} :
          Put([exists |-> TRUE, uid |-> store.uid + 1, rv |-> 1, generation |-> 1,
               named |-> name, spec |-> s, deleting |-> FALSE, finalizer |-> FALSE,
               status |-> NoStatus])
    /\ UNCHANGED <<routingVars, frr, peers, worldVars, queueVars, worker>>

EditConfig ==
    /\ "edit" \in Disturbances
    /\ store.exists
    /\ Event
    /\ \E s \in Specs \ {store.spec} :
          Write([store EXCEPT !.generation = @ + 1, !.spec = s])
    /\ UNCHANGED <<routingVars, frr, peers, worldVars, queueVars, worker>>

\* Deletion marks an object that has the finalizer and removes one without.
DeleteConfig ==
    /\ store.exists /\ ~store.deleting
    /\ Event
    /\ IF store.finalizer
       THEN Write([store EXCEPT !.generation = @ + 1, !.deleting = TRUE])
       ELSE Put(Gone(store.uid))
    /\ UNCHANGED <<routingVars, frr, peers, worldVars, queueVars, worker>>

\* The first BGPRouting is created, or the last one goes away.
RoutingsChange ==
    /\ "routings" \in Disturbances
    /\ routings = routingsSeen
    /\ Event
    /\ routings' = ~routings
    /\ UNCHANGED <<apiVars, routingsSeen, frr, peers, worldVars, queueVars, worker>>

\* A Node event that passes nodeRelevantChangePredicate enqueues the singleton.
NodeChanges ==
    /\ "nodes" \in Disturbances
    /\ Event
    /\ \E n \in Nodes, info \in {"absent", "incomplete", "complete"} :
          info # nodes[n] /\ nodes' = [nodes EXCEPT ![n] = info]
    /\ queued' = (queued \/ cache.named)
    /\ UNCHANGED <<apiVars, routingVars, frr, peers, cloud, frrState, delayed, worker>>

CredentialsChange ==
    /\ "credentials" \in Disturbances
    /\ Event
    /\ \E c \in {"valid", "pending", "invalid"} \ {cloud.credentials} :
          cloud' = [cloud EXCEPT !.credentials = c]
    /\ UNCHANGED <<apiVars, routingVars, frr, peers, nodes, frrState, queueVars, worker>>

\* The Route Server comes or goes, or has other endpoints.
PlanChanges ==
    /\ "discovery" \in Disturbances
    /\ Event
    /\ \E f \in BOOLEAN, p \in Plans :
          /\ <<f, p>> # <<cloud.found, cloud.plan>>
          /\ cloud' = [cloud EXCEPT !.found = f, !.plan = p]
    /\ UNCHANGED <<apiVars, routingVars, frr, peers, nodes, frrState, queueVars, worker>>

\* The Network operator, once patched, installs the FRRConfiguration API and
\* then runs the pods.
FRRStarts ==
    /\ frrState \in {"requested", "installed"}
    /\ frrState' = IF frrState = "requested" THEN "installed" ELSE "running"
    /\ UNCHANGED <<apiVars, routingVars, frr, peers, nodes, cloud, queueVars, worker, budget>>

\* An FRR pod is not Running for a while.
FRRStops ==
    /\ "frr" \in Disturbances
    /\ frrState = "running"
    /\ Event
    /\ frrState' = "installed"
    /\ UNCHANGED <<apiVars, routingVars, frr, peers, nodes, cloud, queueVars, worker>>

\* Someone else deletes an FRRConfiguration, or edits a field this controller
\* sets, other than the label it is listed by.  Nobody watches.
FRRDrifts ==
    /\ "drift" \in Disturbances
    /\ Event
    /\ \E i \in 1..MaxGroups : frr[i] # "none" /\ \E x \in {"none", "other"} :
          frr' = [frr EXCEPT ![i] = x]
    /\ UNCHANGED <<apiVars, routingVars, peers, worldVars, queueVars, worker>>

\* Five minutes pass for every copy of a condition that is False.
Aged(status) == [status EXCEPT !.since = IF @ = "" THEN "" ELSE "old"]
Older(o) == [o EXCEPT !.status = Aged(o.status)]

TimePasses ==
    /\ store' = Older(store)
    /\ views' = [i \in DOMAIN views |-> Older(views[i])]
    /\ cache' = Older(cache)
    /\ worker' = [worker EXCEPT !.obj = Older(worker.obj), !.baseline = Aged(worker.baseline)]
    /\ UNCHANGED <<routingVars, frr, peers, worldVars, queueVars, budget>>

Restart ==
    /\ "restart" \in Disturbances
    /\ Event
    /\ worker' = Idle
    /\ cache' = store
    /\ views' = <<>>
    /\ routingsSeen' = routings
    /\ queued' = store.exists
    /\ delayed' = FALSE
    /\ UNCHANGED <<store, routings, frr, peers, worldVars>>

-----------------------------------------------------------------------------
(* Watches and queue.                                                      *)

DeliverView ==
    /\ views # <<>>
    /\ cache' = Head(views)
    /\ views' = Tail(views)
    /\ queued' = TRUE
    /\ UNCHANGED <<store, routingVars, frr, peers, worldVars, delayed, worker, budget>>

\* Creation and deletion of a BGPRouting enqueue the singleton.
DeliverRoutings ==
    /\ routingsSeen # routings
    /\ routingsSeen' = routings
    /\ queued' = (queued \/ cache.named)
    /\ UNCHANGED <<apiVars, routings, frr, peers, worldVars, delayed, worker, budget>>

TimerFires ==
    /\ delayed
    /\ delayed' = FALSE
    /\ queued' = TRUE
    /\ UNCHANGED <<apiVars, routingVars, frr, peers, worldVars, worker, budget>>

-----------------------------------------------------------------------------
(* Reconcile.                                                              *)

\* Besides its own variables, what every step of the reconcile leaves alone.
Elsewhere == UNCHANGED <<routingVars, worldVars, queued>>

Return(requeue) == worker' = Idle /\ delayed' = (delayed \/ requeue)

Continue(w) == worker' = w /\ UNCHANGED delayed

GotoStatus(status, requeue) ==
    Continue([worker EXCEPT !.step = "status", !.requeue = requeue, !.obj.status = status])

\* Faulty variant: phase and reason are swapped.
SetDegradedSwapped(status, reason) ==
    GotoStatus([status EXCEPT !.phase = reason], reason \notin TerminalReasons)

\* setDegraded, with the condition already set in `status`.
SetDegraded(status, reason) ==
    GotoStatus([status EXCEPT !.phase = "Degraded"], reason \notin TerminalReasons)

\* Faulty variant: the conditions of an earlier reconcile are left.
DropNothing(status) == status

\* Phase 5 will not be reached: its conditions are dropped.
DropCloud(status) ==
    [status EXCEPT !.inventory = "", !.since = "", !.reconciled = ""]

GetConfig ==
    /\ worker.step = "idle"
    /\ queued
    /\ queued' = FALSE
    /\ LET start == [Idle EXCEPT !.obj = cache, !.baseline = cache.status]
           invalid == [cache.status EXCEPT !.phase = "Degraded", !.patched = "InvalidName"]
       IN  worker' = CASE ~cache.exists  -> Idle
                       [] cache.exists /\ ~cache.named ->
                            [start EXCEPT !.step = "status", !.obj.status = invalid]
                       [] cache.exists /\ cache.named /\ cache.deleting ->
                            [start EXCEPT !.step = "routings"]
                       [] OTHER -> [start EXCEPT !.step = "finalizer"]
    /\ UNCHANGED <<apiVars, routingVars, frr, peers, worldVars, delayed, budget>>

\* The copy after the finalizer is in place: Configuring, generation observed.
Started(o) ==
    [o EXCEPT !.finalizer = TRUE,
              !.status = [o.status EXCEPT !.phase = "Configuring", !.observed = o.generation]]

\* Faulty variant: the error of a failed update is dropped.
EnsureFinalizerOnce ==
    /\ worker.step = "finalizer"
    /\ \E out \in Outcomes :
          /\ Charge(out)
          /\ IF out = "ok" /\ (worker.obj.finalizer \/ Current(worker.obj))
             THEN /\ Write([worker.obj EXCEPT !.finalizer = TRUE])
                  /\ Continue([worker EXCEPT !.step = "patch",
                        !.obj = [Started(worker.obj) EXCEPT !.rv = worker.obj.rv + 1]])
             ELSE Return(FALSE) /\ UNCHANGED apiVars
    /\ UNCHANGED <<frr, peers>> /\ Elsewhere

EnsureFinalizer ==
    /\ worker.step = "finalizer"
    /\ LET o == worker.obj
       IN  \/ /\ o.finalizer
              /\ Continue([worker EXCEPT !.step = "patch", !.obj = Started(o)])
              /\ UNCHANGED <<apiVars, budget>>
           \/ /\ ~o.finalizer /\ Current(o)
              /\ \E out \in Outcomes :
                    /\ Charge(out)
                    /\ IF Applied(out) THEN Write([o EXCEPT !.finalizer = TRUE])
                                       ELSE UNCHANGED apiVars
                    /\ IF out = "ok"
                       THEN Continue([worker EXCEPT !.step = "patch",
                                        !.obj = [Started(o) EXCEPT !.rv = o.rv + 1]])
                       ELSE Return(TRUE)
           \/ /\ ~o.finalizer /\ ~Current(o)
              /\ Return(TRUE)
              /\ UNCHANGED <<apiVars, budget>>
    /\ UNCHANGED <<frr, peers>> /\ Elsewhere

\* The merge patch asks for FRR; it is idempotent.
NetworkPatched(state) == IF state = "absent" THEN "requested" ELSE state

\* Phase 1.
PatchNetworkOperator ==
    /\ worker.step = "patch"
    /\ \E out \in Outcomes :
          /\ Charge(out)
          /\ frrState' = IF Applied(out) THEN NetworkPatched(frrState) ELSE frrState
          /\ IF out = "ok"
             THEN Continue([worker EXCEPT !.step = "frr", !.obj.status.patched = "Patched"])
             ELSE SetDegraded([worker.obj.status EXCEPT !.patched = "PatchFailed"], "PatchFailed")
    /\ UNCHANGED <<apiVars, routingVars, frr, peers, nodes, cloud, queued>>

\* Faulty variant: waiting for FRR schedules no retry.
IsFRRReadyOnce ==
    /\ worker.step = "frr"
    /\ IF frrState # "running"
       THEN GotoStatus([worker.obj.status EXCEPT !.frrReady = "WaitingForFRR"], FALSE)
       ELSE Continue([worker EXCEPT !.step = "build", !.obj.status.frrReady = "Ready"])
    /\ UNCHANGED <<apiVars, frr, peers, budget>> /\ Elsewhere

\* Faulty variant: the cloud conditions survive a change to Manual.
IsFRRReadyKeepingCloud ==
    /\ worker.step = "frr"
    /\ LET status == [worker.obj.status EXCEPT !.frrReady = "Ready", !.peerGroups = <<>>]
           manual == worker.obj.spec.platform = "Manual"
       IN  IF frrState # "running"
           THEN GotoStatus([worker.obj.status EXCEPT !.frrReady = "WaitingForFRR"], TRUE)
           ELSE Continue([worker EXCEPT !.step = IF manual THEN "apply" ELSE "build",
                             !.groups = worker.obj.spec.groups, !.obj.status = status])
    /\ UNCHANGED <<apiVars, frr, peers, budget>> /\ Elsewhere

\* The namespace is there, with pods, and every pod is Running.
FRRRunning == frrState = "running"

\* Phase 2, and for Manual the end of the cloud conditions of an earlier spec.
IsFRRReady ==
    /\ worker.step = "frr"
    /\ LET status == worker.obj.status
           ready == [status EXCEPT !.frrReady = "Ready", !.peerGroups = <<>>]
           spec == worker.obj.spec
       IN  \E out \in Outcomes :
             /\ Charge(out)
             /\ CASE out # "ok" ->
                       SetDegraded([status EXCEPT !.frrReady = "CheckFailed"], "CheckFailed")
                  [] out = "ok" /\ ~FRRRunning ->
                       GotoStatus([status EXCEPT !.frrReady = "WaitingForFRR"], TRUE)
                  [] out = "ok" /\ FRRRunning /\ spec.platform = "Manual" ->
                       Continue([worker EXCEPT !.step = "apply", !.groups = spec.groups,
                           !.obj.status = [DropCloud(ready) EXCEPT !.discovered = ""]])
                  [] OTHER ->
                       Continue([worker EXCEPT !.step = "build", !.obj.status = ready])
    /\ UNCHANGED <<apiVars, frr, peers>> /\ Elsewhere

\* The cloud refuses the credentials it is shown.
CredentialsRejected == cloud.credentials = "invalid"

\* How defaultPlatformBuilder may end when its calls end with out: with a platform,
\* ErrCredentialsPending, a CredentialError or another error. A call that failed is
\* another error, unless it is the one that verifies the credentials: each of its
\* failures, a passing one too, is a CredentialError.
BuildResults(out) ==
    CASE out # "ok" -> {"error", "credentialError"}
      [] out = "ok" /\ cloud.credentials = "pending" -> {"pending"}
      [] out = "ok" /\ CredentialsRejected -> {"credentialError"}
      [] OTHER -> {"built"}

\* The platform is built once, for phases 3 and 5.
BuildPlatform ==
    /\ worker.step = "build"
    /\ LET status == DropCloud(worker.obj.status)
       IN  \E out \in Outcomes : \E result \in BuildResults(out) :
             /\ Charge(out)
             /\ CASE result = "error" ->
                       SetDegraded([status EXCEPT !.discovered = "CloudDiscoveryFailed"],
                                   "CloudDiscoveryFailed")
                  [] result = "pending" ->
                       GotoStatus([status EXCEPT !.discovered = "WaitingForCloudCredentials"], TRUE)
                  [] result = "credentialError" ->
                       SetDegraded([status EXCEPT !.discovered = "CloudCredentialsInvalid"],
                                   "CloudCredentialsInvalid")
                  [] OTHER -> Continue([worker EXCEPT !.step = "discover"])
    /\ UNCHANGED <<apiVars, frr, peers>> /\ Elsewhere

\* Phase 3.
DiscoverEndpoints ==
    /\ worker.step = "discover"
    /\ LET status == DropCloud(worker.obj.status)
       IN  \E out \in Outcomes :
             /\ Charge(out)
             /\ CASE out # "ok" ->
                       SetDegraded([status EXCEPT !.discovered = "CloudDiscoveryFailed"],
                                   "CloudDiscoveryFailed")
                  [] out = "ok" /\ ~cloud.found ->
                       SetDegraded([status EXCEPT !.discovered = "RouteServerNotFound"],
                                   "RouteServerNotFound")
                  [] OTHER ->
                       Continue([worker EXCEPT !.step = "apply", !.groups = cloud.plan,
                           !.obj.status = [@ EXCEPT !.discovered = "Discovered",
                                                    !.peerGroups = cloud.plan]])
    /\ UNCHANGED <<apiVars, frr, peers>> /\ Elsewhere

ApplyFailed == SetDegraded([worker.obj.status EXCEPT !.applied = "ApplyFailed"], "ApplyFailed")

\* specEqual and labelsSatisfied: fields that only the existing object has are
\* ignored.
SpecSatisfied(existing, desired) == existing = desired \/ <<existing, desired>> \in Covers

\* createOrUpdate: what satisfies the desired object is left alone; an update
\* replaces the whole spec.
CreateOrUpdate(existing, desired) ==
    IF SpecSatisfied(existing, desired) THEN existing ELSE desired

\* Phase 4: the next group's FRRConfiguration, named for its position.
EnsureFRRConfiguration ==
    /\ worker.step = "apply"
    /\ worker.next <= Len(worker.groups)
    /\ \E out \in Outcomes :
          /\ Charge(out)
          /\ frr' = [frr EXCEPT ![worker.next] =
                        IF Applied(out) THEN CreateOrUpdate(@, worker.groups[worker.next])
                                        ELSE @]
          /\ IF out = "ok" THEN Continue([worker EXCEPT !.next = @ + 1]) ELSE ApplyFailed
    /\ UNCHANGED <<apiVars, peers>> /\ Elsewhere

\* Faulty variant: nothing is pruned.
PruneNothing ==
    /\ worker.step = "apply"
    /\ worker.next > Len(worker.groups)
    /\ GotoStatus([worker.obj.status EXCEPT !.applied = "Applied", !.phase = "Ready"], TRUE)
    /\ UNCHANGED <<apiVars, frr, peers, budget>> /\ Elsewhere

\* Then the managed ones past the last group are deleted, one at a time.
PruneFRRConfigurations ==
    /\ worker.step = "apply"
    /\ worker.next > Len(worker.groups)
    /\ LET stale == {i \in 1..MaxGroups : i > Len(worker.groups) /\ frr[i] # "none"}
           manual == worker.obj.spec.platform = "Manual"
           applied == [worker.obj.status EXCEPT !.applied = "Applied"]
       IN  \E out \in Outcomes :
             /\ Charge(out)
             /\ \/ /\ stale = {}
                   /\ UNCHANGED frr
                   /\ IF out # "ok" THEN ApplyFailed
                      ELSE IF manual THEN GotoStatus([applied EXCEPT !.phase = "Ready"], TRUE)
                      ELSE Continue([worker EXCEPT !.step = "nodes", !.obj.status = applied])
                \/ \E i \in stale :
                      /\ frr' = IF Applied(out) THEN [frr EXCEPT ![i] = "none"] ELSE frr
                      /\ IF out = "ok" THEN UNCHANGED <<worker, delayed>> ELSE ApplyFailed
    /\ UNCHANGED <<apiVars, peers>> /\ Elsewhere

\* The condition on the inventory: its transition time stays while it stays False.
Inventory(status, all) ==
    IF all THEN [status EXCEPT !.inventory = "Complete", !.since = ""]
    ELSE [status EXCEPT !.inventory = "NodesIncomplete",
                        !.since = IF @ = "" THEN "recent" ELSE @]

\* Phase 5: listRouterNodes.
ListRouterNodes ==
    /\ worker.step = "nodes"
    /\ LET status == worker.obj.status
           all == \A n \in Nodes : nodes[n] # "incomplete"
           complete == {n \in Nodes : nodes[n] = "complete"}
       IN  \E out \in Outcomes :
             /\ Charge(out)
             /\ IF out = "ok"
                THEN Continue([worker EXCEPT !.step = "cloud", !.complete = complete, !.all = all,
                                             !.obj.status = Inventory(status, all)])
                ELSE SetDegraded([status EXCEPT !.reconciled = "CloudReconcileFailed"],
                                 "CloudReconcileFailed")
    /\ UNCHANGED <<apiVars, frr, peers>> /\ Elsewhere

\* ReconcileNodes as the interface promises it: the nodes listed get peers and
\* others lose theirs; no nodes is no instruction; a failure leaves some of the
\* work done.
PeersAfter(out, wanted) ==
    IF wanted = {} THEN {peers}
    ELSE IF out = "error"
    THEN {p \in SUBSET Nodes : peers \cap wanted \subseteq p /\ p \subseteq peers \cup wanted}
    ELSE {wanted}

\* Ready, or, with nodes incomplete, Configuring and after five minutes Degraded.
CompleteReconcile(status, ready) ==
    CASE ready -> GotoStatus([status EXCEPT !.phase = "Ready"], TRUE)
      [] ~ready /\ status.since = "old" -> SetDegraded(status, "NodesIncomplete")
      [] OTHER -> GotoStatus([status EXCEPT !.phase = "Configuring"], TRUE)

ReconcileNodes ==
    /\ worker.step = "cloud"
    /\ LET status == worker.obj.status
           done == [status EXCEPT !.reconciled =
                        IF worker.all THEN "Reconciled" ELSE "NodesIncomplete"]
       IN  \E out \in Outcomes :
             /\ Charge(out)
             /\ peers' \in PeersAfter(out, worker.complete)
             /\ IF out = "ok"
                THEN CompleteReconcile(done, worker.all)
                ELSE SetDegraded([status EXCEPT !.reconciled = "CloudReconcileFailed"],
                                 "CloudReconcileFailed")
    /\ UNCHANGED <<apiVars, frr>> /\ Elsewhere

\* patchConfigStatus: no write when the status equals the one read at the start,
\* a conflict when the object has changed since, else a status update.
PatchConfigStatus ==
    /\ worker.step = "status"
    /\ \/ /\ worker.obj.status = worker.baseline
          /\ Return(worker.requeue)
          /\ UNCHANGED <<apiVars, budget>>
       \/ /\ worker.obj.status # worker.baseline
          /\ Current(worker.obj)
          /\ \E out \in Outcomes :
                /\ Charge(out)
                /\ IF Applied(out) THEN Write(worker.obj) ELSE UNCHANGED apiVars
                /\ Return(worker.requeue \/ out # "ok")
       \/ /\ worker.obj.status # worker.baseline
          /\ ~Current(worker.obj)
          /\ Return(TRUE)
          /\ UNCHANGED <<apiVars, budget>>
    /\ UNCHANGED <<frr, peers>> /\ Elsewhere

-----------------------------------------------------------------------------
(* reconcileDelete.                                                        *)

\* reportDeletionBlocked: a condition; the phase stays as it was.
Blocked(status) == [status EXCEPT !.blocked = "RoutingCRsExist"]

\* Blocked while the cached list of BGPRoutings is not empty.
CheckRoutings ==
    /\ worker.step = "routings"
    /\ IF routingsSeen
       THEN GotoStatus(Blocked(worker.obj.status), TRUE)
       ELSE Continue([worker EXCEPT !.step =
                IF worker.obj.spec.platform = "Manual" THEN "deleteFRR" ELSE "cleanup"])
    /\ UNCHANGED <<apiVars, frr, peers, budget>> /\ Elsewhere

\* A platform that cannot be built, or whose endpoints cannot be discovered, is
\* skipped; a failed Cleanup is retried, with some of the peers gone.
CleanupCloud ==
    /\ worker.step = "cleanup"
    /\ LET reachable == BuildResults("ok") = {"built"} /\ cloud.found
           skip == Continue([worker EXCEPT !.step = "deleteFRR"])
       IN  \E out \in Outcomes :
             /\ Charge(out)
             /\ \/ ~reachable /\ skip /\ UNCHANGED peers
                \/ reachable /\ out = "ok" /\ skip /\ peers' = {}
                \/ reachable /\ out # "ok" /\ skip /\ UNCHANGED peers
                \/ reachable /\ out # "ok" /\ Return(TRUE) /\ peers' \in SUBSET peers
    /\ UNCHANGED <<apiVars, frr>> /\ Elsewhere

\* Faulty variant: a failed deletion is only logged.
DeleteFRRIgnoringErrors ==
    /\ worker.step = "deleteFRR"
    /\ \E out \in Outcomes :
          /\ Charge(out)
          /\ frr' = IF Applied(out) THEN [i \in 1..MaxGroups |-> "none"] ELSE frr
          /\ Continue([worker EXCEPT !.step = "removeFinalizer"])
    /\ UNCHANGED <<apiVars, peers>> /\ Elsewhere

\* Listing FRRConfigurations is an error until their API is installed.
DeleteFRRConfigurations ==
    /\ worker.step = "deleteFRR"
    /\ LET managed == {i \in 1..MaxGroups : frr[i] # "none"}
           installed == frrState \in {"installed", "running"}
       IN  \E out \in Outcomes :
             /\ Charge(out)
             /\ \/ /\ managed = {}
                   /\ UNCHANGED frr
                   /\ IF out = "ok" /\ installed
                      THEN Continue([worker EXCEPT !.step = "removeFinalizer"])
                      ELSE Return(TRUE)
                \/ \E i \in managed :
                      /\ frr' = IF Applied(out) THEN [frr EXCEPT ![i] = "none"] ELSE frr
                      /\ IF out = "ok" THEN UNCHANGED <<worker, delayed>> ELSE Return(TRUE)
    /\ UNCHANGED <<apiVars, peers>> /\ Elsewhere

RemoveFinalizer ==
    /\ worker.step = "removeFinalizer"
    /\ \/ /\ Current(worker.obj)
          /\ \E out \in Outcomes :
                /\ Charge(out)
                /\ IF Applied(out) THEN Put(Gone(store.uid)) ELSE UNCHANGED apiVars
                /\ Return(out # "ok")
       \/ /\ ~Current(worker.obj)
          /\ Return(TRUE)
          /\ UNCHANGED <<apiVars, budget>>
    /\ UNCHANGED <<frr, peers>> /\ Elsewhere

-----------------------------------------------------------------------------
Reconcile ==
    \/ EnsureFinalizer
    \/ PatchNetworkOperator
    \/ IsFRRReady
    \/ BuildPlatform
    \/ DiscoverEndpoints
    \/ EnsureFRRConfiguration
    \/ PruneFRRConfigurations
    \/ ListRouterNodes
    \/ ReconcileNodes
    \/ PatchConfigStatus
    \/ CheckRoutings
    \/ CleanupCloud
    \/ DeleteFRRConfigurations
    \/ RemoveFinalizer

Environment ==
    \/ CreateConfig
    \/ EditConfig
    \/ DeleteConfig
    \/ RoutingsChange
    \/ NodeChanges
    \/ CredentialsChange
    \/ PlanChanges
    \/ FRRStarts
    \/ FRRStops
    \/ FRRDrifts
    \/ TimePasses
    \/ Restart

Next ==
    \/ Environment
    \/ DeliverView
    \/ DeliverRoutings
    \/ TimerFires
    \/ GetConfig
    \/ Reconcile

Spec == Init /\ [][Next]_vars

\* Watches deliver, timers fire, time passes, FRR comes up once asked for, and the worker keeps
\* going.  Users and faults owe nothing.
Fairness ==
    /\ WF_vars(DeliverView) /\ WF_vars(DeliverRoutings)
    /\ WF_vars(TimerFires) /\ WF_vars(TimePasses) /\ WF_vars(FRRStarts)
    /\ WF_vars(GetConfig) /\ WF_vars(Reconcile)

FairSpec == Spec /\ Fairness

-----------------------------------------------------------------------------
(* Properties.                                                             *)

\* Every variable has its type.
TypeOK ==
    /\ store \in Objects /\ cache \in Objects
    /\ views \in Seq(Objects)
    /\ routings \in BOOLEAN /\ routingsSeen \in BOOLEAN
    /\ frr \in [1..MaxGroups -> Groups \cup {"none", "other"}]
    /\ peers \in SUBSET Nodes
    /\ nodes \in [Nodes -> {"absent", "incomplete", "complete"}]
    /\ cloud \in [credentials : {"valid", "pending", "invalid"}, found : BOOLEAN, plan : Plans]
    /\ frrState \in {"absent", "requested", "installed", "running"}
    /\ queued \in BOOLEAN /\ delayed \in BOOLEAN
    /\ worker \in Reconciles \cup {Idle}
    /\ budget \in Nat

\* Ready for the spec the object has now.
ReadyNow == /\ store.exists /\ ~store.deleting
            /\ store.status.phase = "Ready" /\ store.status.observed = store.generation

\* The finalizer protects the FRRConfigurations: at every moment, through failed
\* calls, lost replies, restarts and deletion with re-creation seen late by the
\* cache, one that exists belongs to an object that still has the finalizer.
FRRIsOwned ==
    (\E i \in 1..MaxGroups : frr[i] # "none") => store.exists /\ store.finalizer

\* The FRRConfigurations have what a list of groups asks for, and none is left
\* past the last group.
Configured(groups) ==
    \A i \in 1..MaxGroups : SpecSatisfied(frr[i], Rendered(groups)[i])

\* While a Manual configuration is Ready for its spec, the groups of that spec are
\* configured: no reconcile of an older spec read from the cache puts old groups
\* back, and no object past the last group is left (when nobody else writes
\* FRRConfigurations).
ReadyIsApplied ==
    "drift" \notin Disturbances /\ ReadyNow /\ store.spec.platform = "Manual"
        => Configured(store.spec.groups)

\* Ready contradicts no condition: those of the platform are True, those of a
\* platform the spec no longer names are gone, with the plan they reported.
ReadyHasNoFailure ==
    ReadyNow =>
        LET st == store.status
        IN  /\ <<st.patched, st.frrReady, st.applied>> = <<"Patched", "Ready", "Applied">>
            /\ <<st.discovered, st.inventory, st.reconciled>> =
                  IF store.spec.platform = "Manual" THEN <<"", "", "">>
                  ELSE <<"Discovered", "Complete", "Reconciled">>
            /\ store.spec.platform = "Manual" => st.peerGroups = <<>>

\* The cloud's resources are not reported reconciled beside a cloud that could
\* not be reached ("leaving True here would contradict the degraded cloud
\* condition").
CloudConditionsAgree ==
    store.status.reconciled = "Reconciled" => store.status.discovered = "Discovered"

\* A credential that was rejected and has become valid is tried again.
CredentialFailureClears ==
    (store.status.discovered = "CloudCredentialsInvalid" /\ cloud.credentials = "valid")
        ~> (store.status.discovered # "CloudCredentialsInvalid" \/ cloud.credentials # "valid")

\* The phase the reconcile gives the object once everything has been seen.
ExpectedPhase ==
    CASE ~store.named -> "Degraded"
      [] store.spec.platform = "Cloud" /\ cloud.credentials = "pending" -> "Configuring"
      [] store.spec.platform = "Cloud" /\ (cloud.credentials = "invalid" \/ ~cloud.found)
            -> "Degraded"
      [] store.spec.platform = "Cloud" /\ \E n \in Nodes : nodes[n] = "incomplete"
            -> "Degraded"
      [] OTHER -> "Ready"

Plan == IF store.spec.platform = "Manual" THEN store.spec.groups ELSE cloud.plan
Complete == {n \in Nodes : nodes[n] = "complete"}

Settled ==
    store.exists =>
        IF store.deleting
        THEN routings \/ frrState = "absent"
        ELSE \/ /\ store.status.phase = "Degraded"
                /\ store.status.discovered \in TerminalReasons
             \/ /\ store.status.phase = ExpectedPhase
                /\ store.status.phase = "Ready" =>
                      /\ ReadyNow
                      /\ Configured(Plan)
                      /\ store.spec.platform = "Cloud" /\ Complete # {} => peers = Complete

\* Once users, faults and the environment stop, the configuration reaches, and
\* keeps, the phase its spec, nodes and cloud call for, with the
\* FRRConfigurations and the peers of the plan in place when that is Ready, and a
\* deletion completes unless BGPRoutings block it or FRR was never asked for.
\* Only a terminal reason may outlast what caused it.
Converges == <>[]Settled
=============================================================================
