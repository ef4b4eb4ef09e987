--------------------- MODULE BGPCloudConfigurationProofs ---------------------
(***************************************************************************)
(* Proofs about the BGPCloudConfiguration controller, for any number of     *)
(* groups and nodes, any lag of the cache and any number of events.         *)
(*                                                                         *)
(* Everything the controller does starts from the cached object.  The cache *)
(* only moves forward along the versions of the store, and one worker       *)
(* reconciles at a time: the finalizer is only removed by a reconcile that  *)
(* read a deleted object, after which no cached version can start another   *)
(* apply; and a configuration becomes Ready only through a reconcile that   *)
(* read its present spec, after which no cached version holds an older one. *)
(***************************************************************************)
EXTENDS BGPCloudConfiguration, TLAPS

\* a is the same version of the object as b or an earlier one.
Precedes(a, b) ==
    \/ a.uid < b.uid
    \/ a.uid = b.uid /\ ~b.exists
    \/ /\ a.uid = b.uid /\ a.exists /\ b.exists
       /\ a.rv <= b.rv
       /\ a.rv = b.rv => a = b
       /\ a.generation <= b.generation
       /\ a.generation = b.generation => a.spec = b.spec
       /\ a.deleting => b.deleting

\* The versions of the store from the cached one to the present one.
View(c, v, i) == IF i = 0 THEN c ELSE v[i]
Versions == {View(cache, views, i) : i \in 0..Len(views)}

\* The watch delivers every version, in order.
WatchInv ==
    /\ View(cache, views, Len(views)) = store
    /\ \A i, j \in 0..Len(views) : i <= j =>
          Precedes(View(cache, views, i), View(cache, views, j))

\* The cloud conditions agree and the observed generation is a past one.
Sound(o) ==
    /\ o.status.reconciled = "Reconciled" => o.status.discovered = "Discovered"
    /\ o.status.observed <= o.generation

\* The stored object is the one o is a version of, with the finalizer on it.
Holds(o) == store.exists /\ store.uid = o.uid /\ store.finalizer

\* A version that may start an apply: its object still has the finalizer.
Protected(o) == o.exists /\ o.finalizer /\ ~o.deleting => Holds(o)

VersionsInv == \A o \in Versions : Sound(o) /\ Protected(o)

\* Whatever the store is Ready for has been seen by the cache.
SeenInv ==
    ReadyNow => /\ cache.exists /\ cache.uid = store.uid
                /\ cache.generation = store.generation

\* The conditions that go with Ready, for the platform of the spec.
GoodConditions(o) ==
    /\ o.status.patched = "Patched" /\ o.status.frrReady = "Ready"
    /\ o.status.applied = "Applied"
    /\ o.spec.platform = "Manual" =>
          /\ o.status.discovered = "" /\ o.status.inventory = "" /\ o.status.reconciled = ""
          /\ o.status.peerGroups = <<>>
    /\ o.spec.platform # "Manual" =>
          /\ o.status.discovered = "Discovered" /\ o.status.inventory = "Complete"
          /\ o.status.reconciled = "Reconciled"

ReadyInv == ReadyNow => GoodConditions(store)

StoreInv == WatchInv /\ VersionsInv /\ SeenInv /\ ReadyInv

\* The worker's copy o against the cached object c: it was read from the cache.
FromCache(o, c) ==
    \/ o.uid < c.uid
    \/ o.uid = c.uid /\ (c.exists => /\ o.generation <= c.generation
                                     /\ o.deleting => c.deleting)

\* The worker's copy o against the stored object s: at most as new, and the same
\* but for the status when the resource version is the same.
Behind(o, s) ==
    \/ o.uid < s.uid
    \/ o.uid = s.uid /\ ~s.exists
    \/ /\ o.uid = s.uid /\ s.exists
       /\ o.rv <= s.rv
       /\ o.generation <= s.generation
       /\ o.rv = s.rv => /\ o.generation = s.generation
                         /\ o.deleting = s.deleting
                         /\ o.finalizer = s.finalizer
       /\ o.generation = s.generation => o.spec = s.spec
       /\ o.deleting => s.deleting

ForwardSteps == {"patch", "frr", "build", "discover", "apply", "nodes", "cloud"}
DeletionSteps == {"routings", "cleanup", "deleteFRR", "removeFinalizer"}

\* The worker's copy comes from the cache, and from a version at least as new as
\* the one the store is Ready for.
CopyInv ==
    worker.step # "idle" =>
        /\ worker.obj.exists
        /\ Sound(worker.obj)
        /\ FromCache(worker.obj, cache)
        /\ Behind(worker.obj, store)
        /\ worker.step = "finalizer" /\ Current(worker.obj) => worker.obj = store
        /\ worker.step \in DeletionSteps => worker.obj.deleting
        /\ worker.step \in ForwardSteps \cup {"finalizer"} => ~worker.obj.deleting
        /\ ReadyNow => worker.obj.uid = store.uid /\ worker.obj.generation = store.generation

\* While the worker applies, the finalizer is on the stored object; when it goes
\* to take the finalizer off, nothing is applied.
HoldInv ==
    /\ worker.step = "finalizer" => Protected(worker.obj)
    /\ worker.step \in ForwardSteps => Holds(worker.obj)
    /\ worker.step = "removeFinalizer" => \A i \in 1..MaxGroups : frr[i] = "none"

\* The reconcile is about to report Ready.
EndsReady(step, o) == step = "status" /\ o.status.phase = "Ready" /\ ~o.deleting

\* The status the worker builds up, step by step.
Building(step, o, all) ==
    /\ step \in ForwardSteps => o.status.phase = "Configuring" /\ o.status.observed = o.generation
    /\ step \in ForwardSteps \ {"patch"} => o.status.patched = "Patched"
    /\ step \in ForwardSteps \ {"patch", "frr"} => o.status.frrReady = "Ready"
    /\ step \in {"build", "discover", "nodes", "cloud"} => o.spec.platform # "Manual"
    /\ step = "apply" /\ o.spec.platform = "Manual" =>
          /\ o.status.discovered = "" /\ o.status.inventory = "" /\ o.status.reconciled = ""
          /\ o.status.peerGroups = <<>>
    /\ step \in {"apply", "nodes", "cloud"} /\ o.spec.platform # "Manual" =>
          o.status.discovered = "Discovered"
    /\ step \in {"nodes", "cloud"} => o.status.applied = "Applied"
    /\ step = "cloud" /\ all => o.status.inventory = "Complete"
    /\ EndsReady(step, o) => GoodConditions(o) /\ o.status.observed = o.generation

BuildInv == worker.step # "idle" => Building(worker.step, worker.obj, worker.all)

\* How far the worker has come with the groups it applies.
ApplyInv ==
    /\ worker.step \in {"finalizer", "patch", "frr", "build", "discover"} => worker.next = 1
    /\ worker.step = "apply" /\ worker.obj.spec.platform = "Manual"
          => worker.groups = worker.obj.spec.groups
    /\ "drift" \notin Disturbances =>
        /\ worker.step = "apply" => \A i \in 1..MaxGroups :
              i < worker.next /\ i <= Len(worker.groups)
                  => SpecSatisfied(frr[i], worker.groups[i])
        /\ EndsReady(worker.step, worker.obj) /\ worker.obj.spec.platform = "Manual"
              => Configured(worker.obj.spec.groups)

WorkerInv == CopyInv /\ HoldInv /\ BuildInv /\ ApplyInv

IInv ==
    /\ TypeOK
    /\ StoreInv
    /\ WorkerInv
    /\ FRRIsOwned
    /\ ReadyIsApplied

-----------------------------------------------------------------------------
(* Types.                                                                  *)

LEMMA StatusType == NoStatus \in Statuses
  BY DEF NoStatus, Statuses

LEMMA GoneType == ASSUME NEW u \in Nat PROVE Gone(u) \in Objects
  BY SpecsAssumption, StatusType DEF Gone, Objects

LEMMA BusyType ==
  ASSUME TypeOK, worker.step # "idle"
  PROVE  /\ worker \in Reconciles
         /\ worker.obj \in Objects
         /\ worker.obj.status \in Statuses
  BY DEF TypeOK, Idle, Reconciles, Objects

\* Idle is no reconcile in progress.
LEMMA IdleFields ==
  /\ Idle.step = "idle" /\ Idle.obj = Gone(0) /\ Idle.baseline = NoStatus
  /\ "idle" \notin Steps
  BY DEF Idle, Steps

LEMMA StartedType ==
  ASSUME NEW o \in Objects PROVE Started(o) \in Objects
  <1>1. [o.status EXCEPT !.phase = "Configuring", !.observed = o.generation] \in Statuses
    BY Zenon DEF Objects, Statuses
  <1> QED
    BY <1>1 DEF Started, Objects

\* A version with another resource version, generation, spec, mark or finalizer.
LEMMA ObjectType ==
  ASSUME NEW o \in Objects, NEW n \in Nat, NEW s \in Specs
  PROVE  /\ [o EXCEPT !.rv = n] \in Objects
         /\ [o EXCEPT !.generation = n, !.spec = s] \in Objects
         /\ [o EXCEPT !.generation = n, !.deleting = TRUE] \in Objects
         /\ [o EXCEPT !.finalizer = TRUE] \in Objects
  BY DEF Objects

LEMMA AgedType == ASSUME NEW st \in Statuses PROVE Aged(st) \in Statuses
  <1>1. ASSUME NEW x \in {"", "recent", "old"} PROVE [st EXCEPT !.since = x] \in Statuses
    BY Zenon DEF Statuses
  <1>2. (IF st.since = "" THEN "" ELSE "old") \in {"", "recent", "old"}
    OBVIOUS
  <1> QED
    BY <1>1, <1>2, Zenon DEF Aged

LEMMA OlderType == ASSUME NEW o \in Objects PROVE Older(o) \in Objects
  <1>1. o.status \in Statuses
    BY DEF Objects
  <1> QED
    BY <1>1, AgedType DEF Older, Objects

LEMMA PutType ==
  ASSUME TypeOK, NEW o \in Objects, Put(o)
  PROVE  store' \in Objects /\ cache' \in Objects /\ views' \in Seq(Objects)
  BY DEF TypeOK, Put

LEMMA WriteType ==
  ASSUME TypeOK, NEW o \in Objects, Write(o)
  PROVE  store' \in Objects /\ cache' \in Objects /\ views' \in Seq(Objects)
  <1>1. [o EXCEPT !.rv = @ + 1] \in Objects
    BY DEF Objects
  <1> QED
    BY <1>1, PutType DEF Write

LEMMA ChargeType ==
  ASSUME TypeOK, NEW out \in Outcomes, Charge(out) PROVE budget' \in Nat
  BY DEF TypeOK, Outcomes, Charge

\* The plans and the groups of a spec are lists of groups that fit.
LEMMA GroupsType ==
  /\ \A p \in Plans \cup {<<>>} : p \in Seq(Groups) /\ Len(p) \in Nat /\ Len(p) <= MaxGroups
  /\ \A s \in Specs : s.groups \in Plans \cup {<<>>}
  <1>1. ASSUME NEW p \in Plans \cup {<<>>}
        PROVE  p \in Seq(Groups) /\ Len(p) \in Nat /\ Len(p) <= MaxGroups
    <2>1. CASE p \in Plans
      BY <2>1, SpecsAssumption
    <2>2. CASE p = <<>>
      BY <2>2, SpecsAssumption
    <2> QED
      BY <2>1, <2>2
  <1>2. \A s \in Specs : s.groups \in Plans \cup {<<>>}
    BY SpecsAssumption
  <1> QED
    BY <1>1, <1>2

LEMMA TypeInit == Init => TypeOK
  <1> SUFFICES ASSUME Init PROVE TypeOK
    OBVIOUS
  <1>1. Gone(0) \in Objects
    BY GoneType
  <1>2. nodes \in [Nodes -> {"absent", "incomplete", "complete"}]
    BY DEF Init
  <1>3. cloud \in [credentials : {"valid", "pending", "invalid"}, found : BOOLEAN, plan : Plans]
    <2>1. cloud \in [credentials : IF "credentials" \in Disturbances
                                   THEN {"valid", "pending", "invalid"} ELSE {"valid"},
                     found : IF "discovery" \in Disturbances THEN BOOLEAN ELSE {TRUE},
                     plan : Plans]
      BY DEF Init
    <2> QED
      BY <2>1
  <1>4. frr \in [1..MaxGroups -> Groups \cup {"none", "other"}] /\ budget \in Nat
    BY LimitsAssumption DEF Init
  <1>5. /\ routings \in BOOLEAN /\ routingsSeen \in BOOLEAN
        /\ queued \in BOOLEAN /\ delayed \in BOOLEAN
    BY Zenon DEF Init
  <1> QED
    BY <1>1, <1>2, <1>3, <1>4, <1>5 DEF Init, TypeOK

\* The statuses the reconcile builds from a status st, with the plan p.
LEMMA StatusTypes ==
  ASSUME NEW st \in Statuses, NEW p \in Plans
  PROVE  /\ [st EXCEPT !.phase = "Degraded", !.patched = "InvalidName"] \in Statuses
         /\ [st EXCEPT !.patched = "Patched"] \in Statuses
         /\ [st EXCEPT !.patched = "PatchFailed"] \in Statuses
         /\ [st EXCEPT !.frrReady = "CheckFailed"] \in Statuses
         /\ [st EXCEPT !.frrReady = "WaitingForFRR"] \in Statuses
         /\ [st EXCEPT !.frrReady = "Ready", !.peerGroups = <<>>] \in Statuses
         /\ DropCloud(st) \in Statuses
         /\ [st EXCEPT !.discovered = ""] \in Statuses
         /\ [st EXCEPT !.discovered = "CloudDiscoveryFailed"] \in Statuses
         /\ [st EXCEPT !.discovered = "WaitingForCloudCredentials"] \in Statuses
         /\ [st EXCEPT !.discovered = "CloudCredentialsInvalid"] \in Statuses
         /\ [st EXCEPT !.discovered = "RouteServerNotFound"] \in Statuses
         /\ [st EXCEPT !.discovered = "Discovered", !.peerGroups = p] \in Statuses
         /\ [st EXCEPT !.applied = "ApplyFailed"] \in Statuses
         /\ [st EXCEPT !.applied = "Applied"] \in Statuses
         /\ [st EXCEPT !.phase = "Ready"] \in Statuses
         /\ [st EXCEPT !.phase = "Configuring"] \in Statuses
         /\ [st EXCEPT !.phase = "Degraded"] \in Statuses
         /\ [st EXCEPT !.reconciled = "CloudReconcileFailed"] \in Statuses
         /\ [st EXCEPT !.reconciled = "Reconciled"] \in Statuses
         /\ [st EXCEPT !.reconciled = "NodesIncomplete"] \in Statuses
         /\ Blocked(st) \in Statuses
  <1>1. [st EXCEPT !.phase = "Degraded", !.patched = "InvalidName"] \in Statuses
    BY Zenon DEF Statuses
  <1>2. [st EXCEPT !.patched = "Patched"] \in Statuses
    BY Zenon DEF Statuses
  <1>3. [st EXCEPT !.patched = "PatchFailed"] \in Statuses
    BY Zenon DEF Statuses
  <1>4. [st EXCEPT !.frrReady = "CheckFailed"] \in Statuses
    BY Zenon DEF Statuses
  <1>5. [st EXCEPT !.frrReady = "WaitingForFRR"] \in Statuses
    BY Zenon DEF Statuses
  <1>6. [st EXCEPT !.frrReady = "Ready", !.peerGroups = <<>>] \in Statuses
    BY Zenon DEF Statuses
  <1>7. DropCloud(st) \in Statuses
    BY Zenon DEF Statuses, DropCloud
  <1>8. [st EXCEPT !.discovered = ""] \in Statuses
    BY Zenon DEF Statuses
  <1>9. [st EXCEPT !.discovered = "CloudDiscoveryFailed"] \in Statuses
    BY Zenon DEF Statuses
  <1>10. [st EXCEPT !.discovered = "WaitingForCloudCredentials"] \in Statuses
    BY Zenon DEF Statuses
  <1>11. [st EXCEPT !.discovered = "CloudCredentialsInvalid"] \in Statuses
    BY Zenon DEF Statuses
  <1>12. [st EXCEPT !.discovered = "RouteServerNotFound"] \in Statuses
    BY Zenon DEF Statuses
  <1>13. [st EXCEPT !.discovered = "Discovered", !.peerGroups = p] \in Statuses
    BY Zenon DEF Statuses
  <1>14. [st EXCEPT !.applied = "ApplyFailed"] \in Statuses
    BY Zenon DEF Statuses
  <1>15. [st EXCEPT !.applied = "Applied"] \in Statuses
    BY Zenon DEF Statuses
  <1>16. [st EXCEPT !.phase = "Ready"] \in Statuses
    BY Zenon DEF Statuses
  <1>17. [st EXCEPT !.phase = "Configuring"] \in Statuses
    BY Zenon DEF Statuses
  <1>18. [st EXCEPT !.phase = "Degraded"] \in Statuses
    BY Zenon DEF Statuses
  <1>19. [st EXCEPT !.reconciled = "CloudReconcileFailed"] \in Statuses
    BY Zenon DEF Statuses
  <1>20. [st EXCEPT !.reconciled = "Reconciled"] \in Statuses
    BY Zenon DEF Statuses
  <1>21. [st EXCEPT !.reconciled = "NodesIncomplete"] \in Statuses
    BY Zenon DEF Statuses
  <1>22. Blocked(st) \in Statuses
    BY Zenon DEF Statuses, Blocked
  <1> QED
    BY Zenon, <1>1, <1>2, <1>3, <1>4, <1>5, <1>6, <1>7, <1>8, <1>9, <1>10, <1>11,
       <1>12, <1>13, <1>14, <1>15, <1>16, <1>17, <1>18, <1>19, <1>20, <1>21, <1>22

LEMMA InventoryType ==
  ASSUME NEW st \in Statuses, NEW all \in BOOLEAN PROVE Inventory(st, all) \in Statuses
  <1>1. [st EXCEPT !.inventory = "Complete", !.since = ""] \in Statuses
    BY Zenon DEF Statuses
  <1>2. ASSUME NEW x \in {"", "recent", "old"}
        PROVE  [st EXCEPT !.inventory = "NodesIncomplete", !.since = x] \in Statuses
    BY Zenon DEF Statuses
  <1>3. (IF st.since = "" THEN "recent" ELSE st.since) \in {"", "recent", "old"}
    BY Zenon DEF Statuses
  <1> QED
    BY <1>1, <1>2, <1>3, Zenon DEF Inventory

\* The worker goes on with step s and the status st.
Moves(s, st) ==
    /\ worker' \in Reconciles
    /\ worker'.step = s
    /\ worker'.obj = [worker.obj EXCEPT !.status = st]
    /\ worker'.next = worker.next
    /\ delayed' = delayed

LEMMA StepMoves ==
  ASSUME worker \in Reconciles, NEW s \in Steps, NEW st \in Statuses,
         Continue([worker EXCEPT !.step = s, !.obj.status = st])
  PROVE  Moves(s, st) /\ worker'.groups = worker.groups
  BY DEF Moves, Continue, Reconciles, Objects

LEMMA GotoMoves ==
  ASSUME worker \in Reconciles, NEW s \in Steps, Continue([worker EXCEPT !.step = s])
  PROVE  Moves(s, worker.obj.status)
  <1>1. worker.obj \in Objects
    BY DEF Reconciles
  <1>2. [worker.obj EXCEPT !.status = worker.obj.status] = worker.obj
    BY <1>1 DEF Objects
  <1> QED
    BY <1>2 DEF Moves, Continue, Reconciles

LEMMA ApplyMoves ==
  ASSUME worker \in Reconciles, NEW g \in Plans \cup {<<>>}, NEW st \in Statuses,
         Continue([worker EXCEPT !.step = "apply", !.groups = g, !.obj.status = st])
  PROVE  Moves("apply", st) /\ worker'.groups = g
  BY DEF Moves, Continue, Reconciles, Objects, Steps

LEMMA CloudMoves ==
  ASSUME worker \in Reconciles, NEW c \in SUBSET Nodes, NEW a \in BOOLEAN, NEW st \in Statuses,
         Continue([worker EXCEPT !.step = "cloud", !.complete = c, !.all = a, !.obj.status = st])
  PROVE  Moves("cloud", st) /\ worker'.all = a
  BY DEF Moves, Continue, Reconciles, Objects, Steps

LEMMA StatusMoves ==
  ASSUME worker \in Reconciles, NEW st \in Statuses, NEW q \in BOOLEAN, GotoStatus(st, q)
  PROVE  Moves("status", st)
  BY DEF Moves, GotoStatus, Continue, Reconciles, Steps, Objects

LEMMA DegradedMoves ==
  ASSUME worker \in Reconciles, NEW st \in Statuses, NEW r, SetDegraded(st, r)
  PROVE  Moves("status", [st EXCEPT !.phase = "Degraded"])
  <1>1. [st EXCEPT !.phase = "Degraded"] \in Statuses
    BY Zenon DEF Statuses
  <1>2. (r \notin TerminalReasons) \in BOOLEAN
    OBVIOUS
  <1> QED
    BY <1>1, <1>2, StatusMoves DEF SetDegraded

LEMMA PatchMoves ==
  ASSUME TypeOK, PatchNetworkOperator
  PROVE  /\ \/ Moves("frr", [worker.obj.status EXCEPT !.patched = "Patched"])
            \/ Moves("status", [[worker.obj.status EXCEPT !.patched = "PatchFailed"]
                                   EXCEPT !.phase = "Degraded"])
         /\ budget' \in Nat
         /\ frrState' \in {"absent", "requested", "installed", "running"}
  <1>1. worker \in Reconciles /\ worker.obj \in Objects /\ worker.obj.status \in Statuses
    BY BusyType DEF PatchNetworkOperator
  <1>2. PICK out \in Outcomes :
           /\ Charge(out)
           /\ IF out = "ok"
              THEN Continue([worker EXCEPT !.step = "frr", !.obj.status.patched = "Patched"])
              ELSE SetDegraded([worker.obj.status EXCEPT !.patched = "PatchFailed"], "PatchFailed")
    BY DEF PatchNetworkOperator
  <1>3. ASSUME NEW st \in Statuses
        PROVE  [st EXCEPT !.patched = "Patched"] \in Statuses
               /\ [st EXCEPT !.patched = "PatchFailed"] \in Statuses
    BY SpecsAssumption, StatusTypes, Zenon
  <1>4. ASSUME out = "ok"
        PROVE  Moves("frr", [worker.obj.status EXCEPT !.patched = "Patched"])
    <2>1. Continue([worker EXCEPT !.step = "frr",
                        !.obj.status = [worker.obj.status EXCEPT !.patched = "Patched"]])
      BY <1>1, <1>2, <1>4 DEF Continue, Reconciles, Objects
    <2> QED
      BY <1>1, <1>3, <2>1, StepMoves, Zenon DEF Steps
  <1>5. ASSUME out # "ok"
        PROVE  Moves("status", [[worker.obj.status EXCEPT !.patched = "PatchFailed"]
                                   EXCEPT !.phase = "Degraded"])
    BY <1>1, <1>2, <1>3, <1>5, DegradedMoves, Zenon
  <1>6. frrState' \in {"absent", "requested", "installed", "running"}
    BY DEF PatchNetworkOperator, NetworkPatched, TypeOK
  <1> QED
    BY <1>2, <1>4, <1>5, <1>6, ChargeType

\* FRR is checked: Manual goes on to apply the groups of its spec.
FRRReady(st) == [st EXCEPT !.frrReady = "Ready", !.peerGroups = <<>>]
ManualReady(st) == [DropCloud(FRRReady(st)) EXCEPT !.discovered = ""]

LEMMA FRRMoves ==
  ASSUME TypeOK, IsFRRReady
  PROVE  /\ \/ Moves("status", [[worker.obj.status EXCEPT !.frrReady = "CheckFailed"]
                                   EXCEPT !.phase = "Degraded"])
            \/ Moves("status", [worker.obj.status EXCEPT !.frrReady = "WaitingForFRR"])
            \/ /\ Moves("apply", ManualReady(worker.obj.status))
               /\ worker.obj.spec.platform = "Manual"
               /\ worker'.groups = worker.obj.spec.groups
            \/ /\ Moves("build", FRRReady(worker.obj.status))
               /\ worker.obj.spec.platform # "Manual"
         /\ budget' \in Nat
  <1> DEFINE st == worker.obj.status
  <1>1. /\ worker \in Reconciles /\ worker.obj \in Objects /\ st \in Statuses
        /\ worker.obj.spec.groups \in Plans \cup {<<>>}
    BY BusyType, GroupsType DEF IsFRRReady, Objects
  <1>2. /\ FRRReady(st) \in Statuses
        /\ [st EXCEPT !.frrReady = "CheckFailed"] \in Statuses
        /\ [st EXCEPT !.frrReady = "WaitingForFRR"] \in Statuses
    BY <1>1, SpecsAssumption, StatusTypes, Zenon DEF FRRReady
  <1>3. ManualReady(st) \in Statuses
    BY <1>2, SpecsAssumption, StatusTypes, Zenon DEF ManualReady
  <1>4. PICK out \in Outcomes :
           /\ Charge(out)
           /\ CASE out # "ok" ->
                     SetDegraded([st EXCEPT !.frrReady = "CheckFailed"], "CheckFailed")
                [] out = "ok" /\ ~FRRRunning ->
                     GotoStatus([st EXCEPT !.frrReady = "WaitingForFRR"], TRUE)
                [] out = "ok" /\ FRRRunning /\ worker.obj.spec.platform = "Manual" ->
                     Continue([worker EXCEPT !.step = "apply", !.groups = worker.obj.spec.groups,
                                             !.obj.status = ManualReady(st)])
                [] OTHER ->
                     Continue([worker EXCEPT !.step = "build", !.obj.status = FRRReady(st)])
    BY DEF IsFRRReady, FRRReady, ManualReady
  <1> HIDE DEF st
  <1>5. CASE out # "ok"
    <2>1. SetDegraded([st EXCEPT !.frrReady = "CheckFailed"], "CheckFailed")
      BY <1>4, <1>5
    <2> QED
      BY <1>1, <1>2, <1>4, <2>1, DegradedMoves, ChargeType DEF st
  <1>6. CASE out = "ok" /\ ~FRRRunning
    <2>1. GotoStatus([st EXCEPT !.frrReady = "WaitingForFRR"], TRUE)
      BY <1>4, <1>6
    <2> QED
      BY <1>1, <1>2, <1>4, <2>1, StatusMoves, ChargeType DEF st
  <1>7. CASE out = "ok" /\ FRRRunning /\ worker.obj.spec.platform = "Manual"
    <2>1. Continue([worker EXCEPT !.step = "apply", !.groups = worker.obj.spec.groups,
                                  !.obj.status = ManualReady(st)])
      BY <1>4, <1>7
    <2> QED
      BY <1>1, <1>3, <1>4, <1>7, <2>1, ApplyMoves, ChargeType, Zenon DEF st
  <1>8. CASE out = "ok" /\ FRRRunning /\ worker.obj.spec.platform # "Manual"
    <2>1. Continue([worker EXCEPT !.step = "build", !.obj.status = FRRReady(st)])
      BY <1>4, <1>8
    <2> QED
      BY <1>1, <1>2, <1>4, <1>8, <2>1, StepMoves, ChargeType, Zenon DEF st, Steps
  <1> QED
    BY <1>5, <1>6, <1>7, <1>8

\* The platform cannot be used: the conditions of phase 5 go, and the cloud's says why.
CloudFailed(st, reason) == [DropCloud(st) EXCEPT !.discovered = reason]
Discovered(st, plan) == [st EXCEPT !.discovered = "Discovered", !.peerGroups = plan]
CloudFailures == {"CloudDiscoveryFailed", "WaitingForCloudCredentials",
                  "CloudCredentialsInvalid", "RouteServerNotFound"}

LEMMA CloudFailedType ==
  ASSUME NEW st \in Statuses, NEW r \in CloudFailures PROVE CloudFailed(st, r) \in Statuses
  <1>1. DropCloud(st) \in Statuses
    BY SpecsAssumption, StatusTypes, Zenon
  <1> QED
    BY <1>1, SpecsAssumption, StatusTypes, Zenon DEF CloudFailed, CloudFailures

LEMMA BuildMoves ==
  ASSUME TypeOK, BuildPlatform
  PROVE  /\ \/ Moves("discover", worker.obj.status)
            \/ \E r \in CloudFailures :
                  \/ Moves("status", CloudFailed(worker.obj.status, r))
                  \/ Moves("status", [CloudFailed(worker.obj.status, r) EXCEPT !.phase = "Degraded"])
         /\ budget' \in Nat
  <1> DEFINE st == worker.obj.status
  <1>1. worker \in Reconciles /\ worker.obj \in Objects /\ st \in Statuses
    BY BusyType DEF BuildPlatform
  <1>2. PICK out \in Outcomes :
           /\ Charge(out)
           /\ \/ SetDegraded(CloudFailed(st, "CloudDiscoveryFailed"), "CloudDiscoveryFailed")
              \/ GotoStatus(CloudFailed(st, "WaitingForCloudCredentials"), TRUE)
              \/ SetDegraded(CloudFailed(st, "CloudCredentialsInvalid"), "CloudCredentialsInvalid")
              \/ Continue([worker EXCEPT !.step = "discover"])
    BY DEF BuildPlatform, CloudFailed
  <1> HIDE DEF st
  <1>3. ASSUME NEW r \in CloudFailures, SetDegraded(CloudFailed(st, r), r)
        PROVE  Moves("status", [CloudFailed(st, r) EXCEPT !.phase = "Degraded"])
    BY <1>1, <1>3, CloudFailedType, DegradedMoves
  <1>4. ASSUME NEW r \in CloudFailures, GotoStatus(CloudFailed(st, r), TRUE)
        PROVE  Moves("status", CloudFailed(st, r))
    BY <1>1, <1>4, CloudFailedType, StatusMoves
  <1>5. Continue([worker EXCEPT !.step = "discover"]) => Moves("discover", st)
    BY <1>1, GotoMoves DEF Steps, st
  <1>6. /\ "CloudDiscoveryFailed" \in CloudFailures /\ "WaitingForCloudCredentials" \in CloudFailures
        /\ "CloudCredentialsInvalid" \in CloudFailures
    BY DEF CloudFailures
  <1>7. budget' \in Nat
    BY <1>2, ChargeType
  <1> QED
    BY <1>2, <1>3, <1>4, <1>5, <1>6, <1>7 DEF st

LEMMA DiscoverMoves ==
  ASSUME TypeOK, DiscoverEndpoints
  PROVE  /\ \/ \E p \in Plans : /\ Moves("apply", Discovered(worker.obj.status, p))
                                /\ worker'.groups = p
            \/ \E r \in CloudFailures :
                  Moves("status", [CloudFailed(worker.obj.status, r) EXCEPT !.phase = "Degraded"])
         /\ budget' \in Nat
  <1> DEFINE st == worker.obj.status
  <1>1. /\ worker \in Reconciles /\ worker.obj \in Objects /\ st \in Statuses
        /\ cloud.plan \in Plans
    BY BusyType DEF DiscoverEndpoints, TypeOK
  <1>2. PICK out \in Outcomes :
           /\ Charge(out)
           /\ \/ SetDegraded(CloudFailed(st, "CloudDiscoveryFailed"), "CloudDiscoveryFailed")
              \/ SetDegraded(CloudFailed(st, "RouteServerNotFound"), "RouteServerNotFound")
              \/ Continue([worker EXCEPT !.step = "apply", !.groups = cloud.plan,
                     !.obj.status = [@ EXCEPT !.discovered = "Discovered", !.peerGroups = cloud.plan]])
    BY DEF DiscoverEndpoints, CloudFailed
  <1>3. ASSUME NEW r \in CloudFailures, SetDegraded(CloudFailed(st, r), r)
        PROVE  Moves("status", [CloudFailed(st, r) EXCEPT !.phase = "Degraded"])
    BY <1>1, <1>3, CloudFailedType, DegradedMoves
  <1>4. ASSUME Continue([worker EXCEPT !.step = "apply", !.groups = cloud.plan,
                     !.obj.status = [@ EXCEPT !.discovered = "Discovered", !.peerGroups = cloud.plan]])
        PROVE  Moves("apply", Discovered(st, cloud.plan)) /\ worker'.groups = cloud.plan
    <2>1. Continue([worker EXCEPT !.step = "apply", !.groups = cloud.plan,
                                  !.obj.status = Discovered(st, cloud.plan)])
      BY <1>1, <1>4 DEF Discovered, Reconciles, Objects
    <2>2. Discovered(st, cloud.plan) \in Statuses
      BY <1>1, StatusTypes, Zenon DEF Discovered
    <2> QED
      BY <1>1, <2>1, <2>2, ApplyMoves, Zenon
  <1>5. "CloudDiscoveryFailed" \in CloudFailures /\ "RouteServerNotFound" \in CloudFailures
    BY DEF CloudFailures
  <1>6. budget' \in Nat
    BY <1>2, ChargeType
  <1> HIDE DEF st
  <1> QED
    BY <1>1, <1>2, <1>3, <1>4, <1>5, <1>6 DEF st

Failed(st) == [[st EXCEPT !.applied = "ApplyFailed"] EXCEPT !.phase = "Degraded"]

LEMMA ApplyFailedMoves ==
  ASSUME worker \in Reconciles, ApplyFailed PROVE Moves("status", Failed(worker.obj.status))
  <1>1. [worker.obj.status EXCEPT !.applied = "ApplyFailed"] \in Statuses
    BY SpecsAssumption, StatusTypes, Zenon DEF Reconciles, Objects
  <1> QED
    BY <1>1, DegradedMoves, Zenon DEF ApplyFailed, Failed

\* The group written is the next one, and it is counted only when the call succeeds.
LEMMA EnsureMoves ==
  ASSUME TypeOK, EnsureFRRConfiguration
  PROVE  /\ \/ /\ worker' \in Reconciles /\ worker'.step = "apply"
               /\ worker'.obj = worker.obj /\ worker'.groups = worker.groups
               /\ worker'.next = worker.next + 1 /\ worker'.all = worker.all
               /\ frr' = [frr EXCEPT ![worker.next] =
                             CreateOrUpdate(@, worker.groups[worker.next])]
               /\ delayed' = delayed
            \/ Moves("status", Failed(worker.obj.status))
         /\ \/ frr' = frr
            \/ frr' = [frr EXCEPT ![worker.next] = CreateOrUpdate(@, worker.groups[worker.next])]
         /\ frr' \in [1..MaxGroups -> Groups \cup {"none", "other"}]
         /\ budget' \in Nat
  <1>1. /\ worker \in Reconciles /\ worker.obj \in Objects
        /\ worker.groups \in Plans \cup {<<>>} /\ worker.next \in Nat
    BY BusyType DEF EnsureFRRConfiguration, Reconciles
  <1>2. PICK out \in Outcomes :
           /\ Charge(out)
           /\ frr' = [frr EXCEPT ![worker.next] =
                         IF Applied(out) THEN CreateOrUpdate(@, worker.groups[worker.next]) ELSE @]
           /\ IF out = "ok" THEN Continue([worker EXCEPT !.next = @ + 1]) ELSE ApplyFailed
    BY DEF EnsureFRRConfiguration
  <1>3. budget' \in Nat
    BY <1>2, ChargeType
  <1>4. frr' = frr \/ frr' = [frr EXCEPT ![worker.next] = CreateOrUpdate(@, worker.groups[worker.next])]
    BY <1>2 DEF TypeOK
  <1>5. frr' \in [1..MaxGroups -> Groups \cup {"none", "other"}]
    <2>1. CASE worker.next = 0
      BY <1>4, <2>1 DEF TypeOK
    <2>2. CASE worker.next # 0
      <3>1. worker.groups \in Seq(Groups) /\ worker.next \in 1..Len(worker.groups)
        BY <1>1, <2>2, GroupsType DEF EnsureFRRConfiguration
      <3>2. worker.groups[worker.next] \in Groups
        BY <3>1
      <3> QED
        BY <1>4, <3>2 DEF TypeOK, CreateOrUpdate
    <2> QED
      BY <2>1, <2>2
  <1>6. CASE out = "ok"
    <2>1. frr' = [frr EXCEPT ![worker.next] = CreateOrUpdate(@, worker.groups[worker.next])]
      BY <1>2, <1>6 DEF Applied
    <2>2. /\ worker' \in Reconciles /\ worker'.step = "apply"
          /\ worker'.obj = worker.obj /\ worker'.groups = worker.groups
          /\ worker'.next = worker.next + 1 /\ worker'.all = worker.all
          /\ delayed' = delayed
      BY <1>1, <1>2, <1>6 DEF Continue, Reconciles, EnsureFRRConfiguration
    <2> QED
      BY <1>3, <1>5, <2>1, <2>2
  <1>7. CASE out # "ok"
    BY <1>1, <1>2, <1>3, <1>4, <1>5, <1>7, ApplyFailedMoves
  <1> QED
    BY <1>6, <1>7

Stale == {i \in 1..MaxGroups : i > Len(worker.groups) /\ frr[i] # "none"}
AppliedStatus(st) == [st EXCEPT !.applied = "Applied"]

\* Nothing stale is left when the reconcile goes on.
LEMMA PruneMoves ==
  ASSUME TypeOK, PruneFRRConfigurations
  PROVE  /\ \/ Moves("status", Failed(worker.obj.status))
            \/ /\ Moves("status", [AppliedStatus(worker.obj.status) EXCEPT !.phase = "Ready"])
               /\ worker.obj.spec.platform = "Manual"
               /\ Stale = {} /\ frr' = frr
            \/ /\ Moves("nodes", AppliedStatus(worker.obj.status))
               /\ worker.obj.spec.platform # "Manual" /\ frr' = frr
            \/ UNCHANGED <<worker, delayed>>
         /\ frr' = frr \/ \E i \in Stale : frr' = [frr EXCEPT ![i] = "none"]
         /\ frr' \in [1..MaxGroups -> Groups \cup {"none", "other"}]
         /\ budget' \in Nat
  <1> DEFINE st == worker.obj.status
  <1>1. worker \in Reconciles /\ worker.obj \in Objects /\ st \in Statuses
    BY BusyType DEF PruneFRRConfigurations
  <1>2. AppliedStatus(st) \in Statuses /\ [AppliedStatus(st) EXCEPT !.phase = "Ready"] \in Statuses
    <2>1. AppliedStatus(st) \in Statuses
      BY <1>1, SpecsAssumption, StatusTypes, Zenon DEF AppliedStatus
    <2> QED
      BY <2>1, SpecsAssumption, StatusTypes, Zenon
  <1>3. PICK out \in Outcomes :
           /\ Charge(out)
           /\ \/ /\ Stale = {}
                 /\ UNCHANGED frr
                 /\ IF out # "ok" THEN ApplyFailed
                    ELSE IF worker.obj.spec.platform = "Manual"
                    THEN GotoStatus([AppliedStatus(st) EXCEPT !.phase = "Ready"], TRUE)
                    ELSE Continue([worker EXCEPT !.step = "nodes", !.obj.status = AppliedStatus(st)])
              \/ \E i \in Stale :
                    /\ frr' = IF Applied(out) THEN [frr EXCEPT ![i] = "none"] ELSE frr
                    /\ IF out = "ok" THEN UNCHANGED <<worker, delayed>> ELSE ApplyFailed
    BY DEF PruneFRRConfigurations, Stale, AppliedStatus
  <1> HIDE DEF st
  <1>4. budget' \in Nat
    BY <1>3, ChargeType
  <1>5. frr' = frr \/ \E i \in Stale : frr' = [frr EXCEPT ![i] = "none"]
    BY <1>3
  <1>6. frr' \in [1..MaxGroups -> Groups \cup {"none", "other"}]
    BY <1>5 DEF TypeOK, Stale
  <1>7. \/ ApplyFailed
        \/ UNCHANGED <<worker, delayed>>
        \/ /\ Stale = {} /\ frr' = frr /\ worker.obj.spec.platform = "Manual"
           /\ GotoStatus([AppliedStatus(st) EXCEPT !.phase = "Ready"], TRUE)
        \/ /\ frr' = frr /\ worker.obj.spec.platform # "Manual"
           /\ Continue([worker EXCEPT !.step = "nodes", !.obj.status = AppliedStatus(st)])
    BY <1>3
  <1>8. ApplyFailed => Moves("status", Failed(st))
    BY <1>1, ApplyFailedMoves DEF st
  <1>9. GotoStatus([AppliedStatus(st) EXCEPT !.phase = "Ready"], TRUE)
           => Moves("status", [AppliedStatus(st) EXCEPT !.phase = "Ready"])
    BY <1>1, <1>2, StatusMoves
  <1>10. Continue([worker EXCEPT !.step = "nodes", !.obj.status = AppliedStatus(st)])
           => Moves("nodes", AppliedStatus(st))
    BY <1>1, <1>2, StepMoves, Zenon DEF Steps
  <1> QED
    BY <1>4, <1>5, <1>6, <1>7, <1>8, <1>9, <1>10, Zenon DEF st

Unreconciled(st) == [[st EXCEPT !.reconciled = "CloudReconcileFailed"] EXCEPT !.phase = "Degraded"]

LEMMA UnreconciledMoves ==
  ASSUME worker \in Reconciles,
         SetDegraded([worker.obj.status EXCEPT !.reconciled = "CloudReconcileFailed"],
                     "CloudReconcileFailed")
  PROVE  Moves("status", Unreconciled(worker.obj.status))
  <1>1. [worker.obj.status EXCEPT !.reconciled = "CloudReconcileFailed"] \in Statuses
    BY SpecsAssumption, StatusTypes, Zenon DEF Reconciles, Objects
  <1> QED
    BY <1>1, DegradedMoves, Zenon DEF Unreconciled

LEMMA ListMoves ==
  ASSUME TypeOK, ListRouterNodes
  PROVE  /\ \/ Moves("status", Unreconciled(worker.obj.status))
            \/ \E all \in BOOLEAN : /\ Moves("cloud", Inventory(worker.obj.status, all))
                                   /\ worker'.all = all
         /\ budget' \in Nat
  <1> DEFINE st == worker.obj.status
             all == \A n \in Nodes : nodes[n] # "incomplete"
             complete == {n \in Nodes : nodes[n] = "complete"}
  <1>1. worker \in Reconciles /\ worker.obj \in Objects /\ st \in Statuses
    BY BusyType DEF ListRouterNodes
  <1>2. PICK out \in Outcomes :
           /\ Charge(out)
           /\ IF out = "ok"
              THEN Continue([worker EXCEPT !.step = "cloud", !.complete = complete, !.all = all,
                                           !.obj.status = Inventory(st, all)])
              ELSE SetDegraded([st EXCEPT !.reconciled = "CloudReconcileFailed"],
                               "CloudReconcileFailed")
    BY Zenon DEF ListRouterNodes
  <1>3. all \in BOOLEAN /\ complete \in SUBSET Nodes
    OBVIOUS
  <1>4. Inventory(st, all) \in Statuses
    BY <1>1, <1>3, InventoryType
  <1>5. budget' \in Nat
    BY <1>2, ChargeType
  <1> HIDE DEF all, complete
  <1>6. CASE out = "ok"
    BY <1>1, <1>2, <1>3, <1>4, <1>5, <1>6, CloudMoves, Zenon
  <1>7. CASE out # "ok"
    BY <1>1, <1>2, <1>5, <1>7, UnreconciledMoves
  <1> QED
    BY <1>6, <1>7

\* With every node listed the reconcile ends in Ready, else in another phase.
ReconciledStatus(st, all) ==
    [st EXCEPT !.reconciled = IF all THEN "Reconciled" ELSE "NodesIncomplete"]

LEMMA ReconcileMoves ==
  ASSUME TypeOK, ReconcileNodes
  PROVE  /\ \/ Moves("status", Unreconciled(worker.obj.status))
            \/ \E ph \in {"Ready", "Configuring", "Degraded"} :
                  /\ ph = "Ready" => worker.all
                  /\ Moves("status", [ReconciledStatus(worker.obj.status, worker.all)
                                         EXCEPT !.phase = ph])
         /\ peers' \in SUBSET Nodes
         /\ budget' \in Nat
  <1> DEFINE st == worker.obj.status
             done == ReconciledStatus(st, worker.all)
  <1>1. /\ worker \in Reconciles /\ worker.obj \in Objects /\ st \in Statuses
        /\ worker.complete \in SUBSET Nodes
    BY BusyType DEF ReconcileNodes, Reconciles
  <1>2. done \in Statuses
    BY <1>1, SpecsAssumption, StatusTypes, Zenon DEF ReconciledStatus
  <1>3. PICK out \in Outcomes :
           /\ Charge(out)
           /\ peers' \in PeersAfter(out, worker.complete)
           /\ IF out = "ok" THEN CompleteReconcile(done, worker.all)
              ELSE SetDegraded([st EXCEPT !.reconciled = "CloudReconcileFailed"],
                               "CloudReconcileFailed")
    BY DEF ReconcileNodes, ReconciledStatus
  <1>4. peers' \in SUBSET Nodes
    <2>1. PeersAfter(out, worker.complete) \subseteq SUBSET Nodes
      BY <1>1 DEF PeersAfter, TypeOK
    <2> QED
      BY <1>3, <2>1
  <1>5. budget' \in Nat
    BY <1>3, ChargeType
  <1> HIDE DEF done
  <1>6. CASE out = "ok"
    <2>1. \/ worker.all /\ GotoStatus([done EXCEPT !.phase = "Ready"], TRUE)
          \/ SetDegraded(done, "NodesIncomplete")
          \/ GotoStatus([done EXCEPT !.phase = "Configuring"], TRUE)
      BY <1>3, <1>6 DEF CompleteReconcile
    <2>2. ASSUME NEW ph \in {"Ready", "Configuring"}, GotoStatus([done EXCEPT !.phase = ph], TRUE)
          PROVE  Moves("status", [done EXCEPT !.phase = ph])
      <3>1. [done EXCEPT !.phase = ph] \in Statuses
        BY <1>2, SpecsAssumption, StatusTypes, Zenon
      <3> QED
        BY <1>1, <2>2, <3>1, StatusMoves, Zenon
    <2>3. SetDegraded(done, "NodesIncomplete") => Moves("status", [done EXCEPT !.phase = "Degraded"])
      BY <1>1, <1>2, DegradedMoves
    <2> QED
      BY <1>4, <1>5, <2>1, <2>2, <2>3 DEF done
  <1>7. CASE out # "ok"
    BY <1>1, <1>3, <1>4, <1>5, <1>7, UnreconciledMoves
  <1> QED
    BY <1>6, <1>7

LEMMA RoutingsMoves ==
  ASSUME TypeOK, CheckRoutings
  PROVE  \/ Moves("status", Blocked(worker.obj.status))
         \/ Moves("deleteFRR", worker.obj.status)
         \/ Moves("cleanup", worker.obj.status)
  <1>1. worker \in Reconciles /\ worker.obj.status \in Statuses
    BY BusyType DEF CheckRoutings
  <1>2. Blocked(worker.obj.status) \in Statuses
    BY <1>1, SpecsAssumption, StatusTypes, Zenon
  <1> QED
    BY <1>1, <1>2, StatusMoves, GotoMoves, Zenon DEF CheckRoutings, Steps

LEMMA CleanupMoves ==
  ASSUME TypeOK, CleanupCloud
  PROVE  /\ Moves("deleteFRR", worker.obj.status) \/ (worker' = Idle /\ delayed' \in BOOLEAN)
         /\ peers' \in SUBSET Nodes
         /\ budget' \in Nat
  <1>1. worker \in Reconciles
    BY BusyType DEF CleanupCloud
  <1>2. PICK out \in Outcomes :
           /\ Charge(out)
           /\ \/ Continue([worker EXCEPT !.step = "deleteFRR"])
              \/ worker' = Idle /\ delayed' = TRUE
           /\ peers' = {} \/ peers' = peers \/ peers' \in SUBSET peers
    BY DEF CleanupCloud, Return
  <1> QED
    BY <1>1, <1>2, GotoMoves, ChargeType DEF Steps, TypeOK

\* The finalizer comes off only after a listing that found no FRRConfiguration.
LEMMA DeleteMoves ==
  ASSUME TypeOK, DeleteFRRConfigurations
  PROVE  /\ \/ /\ Moves("removeFinalizer", worker.obj.status) /\ frr' = frr
               /\ \A i \in 1..MaxGroups : frr[i] = "none"
            \/ worker' = Idle /\ delayed' \in BOOLEAN
            \/ UNCHANGED <<worker, delayed>>
         /\ frr' = frr \/ \E i \in 1..MaxGroups : frr' = [frr EXCEPT ![i] = "none"]
         /\ frr' \in [1..MaxGroups -> Groups \cup {"none", "other"}]
         /\ budget' \in Nat
  <1>1. worker \in Reconciles
    BY BusyType DEF DeleteFRRConfigurations
  <1>2. PICK out \in Outcomes :
           /\ Charge(out)
           /\ \/ /\ {i \in 1..MaxGroups : frr[i] # "none"} = {} /\ frr' = frr
                 /\ \/ Continue([worker EXCEPT !.step = "removeFinalizer"])
                    \/ worker' = Idle /\ delayed' = TRUE
              \/ /\ frr' = frr \/ \E i \in 1..MaxGroups : frr' = [frr EXCEPT ![i] = "none"]
                 /\ UNCHANGED <<worker, delayed>> \/ (worker' = Idle /\ delayed' = TRUE)
    BY DEF DeleteFRRConfigurations, Return
  <1>3. Continue([worker EXCEPT !.step = "removeFinalizer"])
           => Moves("removeFinalizer", worker.obj.status)
    BY <1>1, GotoMoves DEF Steps
  <1>4. frr' = frr \/ \E i \in 1..MaxGroups : frr' = [frr EXCEPT ![i] = "none"]
    BY <1>2
  <1>5. frr' \in [1..MaxGroups -> Groups \cup {"none", "other"}]
    BY <1>4 DEF TypeOK
  <1>6. budget' \in Nat
    BY <1>2, ChargeType
  <1>7. \/ /\ Moves("removeFinalizer", worker.obj.status) /\ frr' = frr
           /\ \A i \in 1..MaxGroups : frr[i] = "none"
        \/ worker' = Idle /\ delayed' \in BOOLEAN
        \/ UNCHANGED <<worker, delayed>>
    BY <1>2, <1>3
  <1> QED
    BY <1>4, <1>5, <1>6, <1>7

\* Only a write that applied, of the version the worker read, is followed by phase 1.
LEMMA FinalizerMoves ==
  ASSUME TypeOK, EnsureFinalizer
  PROVE  /\ \/ /\ worker.obj.finalizer
               /\ worker' = [worker EXCEPT !.step = "patch", !.obj = Started(worker.obj)]
               /\ UNCHANGED apiVars /\ delayed' = delayed
            \/ /\ ~worker.obj.finalizer /\ Current(worker.obj)
               /\ Write([worker.obj EXCEPT !.finalizer = TRUE])
               /\ worker' = [worker EXCEPT !.step = "patch",
                                !.obj = [Started(worker.obj) EXCEPT !.rv = worker.obj.rv + 1]]
               /\ delayed' = delayed
            \/ /\ worker' = Idle /\ delayed' \in BOOLEAN
               /\ \/ UNCHANGED apiVars
                  \/ /\ ~worker.obj.finalizer /\ Current(worker.obj)
                     /\ Write([worker.obj EXCEPT !.finalizer = TRUE])
         /\ budget' \in Nat
  <1>1. CASE worker.obj.finalizer
    BY <1>1 DEF EnsureFinalizer, Continue, TypeOK
  <1>2. CASE ~worker.obj.finalizer /\ Current(worker.obj)
    <2>1. PICK out \in Outcomes :
             /\ Charge(out)
             /\ IF Applied(out) THEN Write([worker.obj EXCEPT !.finalizer = TRUE])
                                ELSE UNCHANGED apiVars
             /\ IF out = "ok"
                THEN Continue([worker EXCEPT !.step = "patch",
                                 !.obj = [Started(worker.obj) EXCEPT !.rv = worker.obj.rv + 1]])
                ELSE Return(TRUE)
      BY <1>2 DEF EnsureFinalizer
    <2>2. budget' \in Nat
      BY <2>1, ChargeType
    <2>3. CASE out = "ok"
      <3>1. /\ Write([worker.obj EXCEPT !.finalizer = TRUE])
            /\ worker' = [worker EXCEPT !.step = "patch",
                             !.obj = [Started(worker.obj) EXCEPT !.rv = worker.obj.rv + 1]]
            /\ delayed' = delayed
        BY <2>1, <2>3 DEF Applied, Continue
      <3> QED
        BY <1>2, <2>2, <3>1
    <2>4. CASE out # "ok"
      <3>1. /\ worker' = Idle /\ delayed' \in BOOLEAN
            /\ Write([worker.obj EXCEPT !.finalizer = TRUE]) \/ UNCHANGED apiVars
        BY <2>1, <2>4 DEF Return
      <3> QED
        BY <1>2, <2>2, <3>1
    <2> QED
      BY <2>3, <2>4
  <1>3. CASE ~worker.obj.finalizer /\ ~Current(worker.obj)
    BY <1>3 DEF EnsureFinalizer, Return, TypeOK
  <1> QED
    BY <1>1, <1>2, <1>3

\* The two ways the last step of a reconcile ends.
LEMMA PatchStatusMoves ==
  ASSUME TypeOK, PatchConfigStatus
  PROVE  /\ worker' = Idle /\ delayed' \in BOOLEAN
         /\ UNCHANGED apiVars \/ (Current(worker.obj) /\ Write(worker.obj))
         /\ budget' \in Nat
  <1>0. worker \in Reconciles
    BY BusyType DEF PatchConfigStatus
  <1>1. worker' = Idle /\ delayed' \in BOOLEAN
    BY <1>0 DEF PatchConfigStatus, Return
  <1>2. UNCHANGED apiVars \/ (Current(worker.obj) /\ Write(worker.obj))
    BY DEF PatchConfigStatus
  <1>3. budget' \in Nat
    <2>1. UNCHANGED budget \/ \E out \in Outcomes : Charge(out)
      BY DEF PatchConfigStatus
    <2> QED
      BY <2>1, ChargeType DEF TypeOK
  <1> QED
    BY <1>1, <1>2, <1>3

LEMMA RemoveMoves ==
  ASSUME TypeOK, RemoveFinalizer
  PROVE  /\ worker' = Idle /\ delayed' \in BOOLEAN
         /\ UNCHANGED apiVars \/ (Current(worker.obj) /\ Put(Gone(store.uid)))
         /\ budget' \in Nat
  <1>1. worker' = Idle /\ delayed' \in BOOLEAN
    BY DEF RemoveFinalizer, Return
  <1>2. UNCHANGED apiVars \/ (Current(worker.obj) /\ Put(Gone(store.uid)))
    BY DEF RemoveFinalizer
  <1>3. budget' \in Nat
    <2>1. UNCHANGED budget \/ \E out \in Outcomes : Charge(out)
      BY DEF RemoveFinalizer
    <2> QED
      BY <2>1, ChargeType DEF TypeOK
  <1> QED
    BY <1>1, <1>2, <1>3

LEMMA TypeStep == TypeOK /\ [Next]_vars => TypeOK'
  <1> SUFFICES ASSUME TypeOK, [Next]_vars PROVE TypeOK'
    OBVIOUS
  <1> USE DEF apiVars, routingVars, worldVars, queueVars
  <1>1. CASE CreateConfig
    <2>1. PICK s \in Specs, name \in BOOLEAN :
             Put([exists |-> TRUE, uid |-> store.uid + 1, rv |-> 1, generation |-> 1,
                  named |-> name, spec |-> s, deleting |-> FALSE, finalizer |-> FALSE,
                  status |-> NoStatus])
      BY <1>1 DEF CreateConfig
    <2>2. [exists |-> TRUE, uid |-> store.uid + 1, rv |-> 1, generation |-> 1,
           named |-> name, spec |-> s, deleting |-> FALSE, finalizer |-> FALSE,
           status |-> NoStatus] \in Objects
      BY StatusType DEF TypeOK, Objects
    <2> QED
      BY <1>1, <2>1, <2>2, PutType DEF CreateConfig, Event, TypeOK
  <1>2. CASE EditConfig
    <2>1. PICK s \in Specs : Write([store EXCEPT !.generation = @ + 1, !.spec = s])
      BY <1>2, Zenon DEF EditConfig
    <2>2. store \in Objects /\ store.generation + 1 \in Nat
      BY DEF TypeOK, Objects
    <2>3. [store EXCEPT !.generation = @ + 1, !.spec = s] \in Objects
      BY <2>2, ObjectType, Zenon
    <2> QED
      BY <1>2, <2>1, <2>3, WriteType DEF EditConfig, Event, TypeOK
  <1>3. CASE DeleteConfig
    <2>1. store \in Objects /\ store.generation + 1 \in Nat /\ store.uid \in Nat
      BY DEF TypeOK, Objects
    <2>2. [store EXCEPT !.generation = @ + 1, !.deleting = TRUE] \in Objects
      BY <2>1, SpecsAssumption, ObjectType, Zenon
    <2>3. Gone(store.uid) \in Objects
      BY <2>1, GoneType
    <2> QED
      BY <1>3, <2>2, <2>3, PutType, WriteType DEF DeleteConfig, Event, TypeOK
  <1>4. CASE RoutingsChange
    <2>1. routings' \in BOOLEAN
      BY <1>4, Zenon DEF RoutingsChange
    <2> QED
      BY <1>4, <2>1 DEF RoutingsChange, Event, TypeOK
  <1>5. CASE NodeChanges
    <2>1. PICK n \in Nodes, info \in {"absent", "incomplete", "complete"} :
             nodes' = [nodes EXCEPT ![n] = info]
      BY <1>5 DEF NodeChanges
    <2>2. nodes' \in [Nodes -> {"absent", "incomplete", "complete"}]
      BY <2>1 DEF TypeOK
    <2>3. queued' \in BOOLEAN
      BY <1>5, Zenon DEF NodeChanges
    <2> QED
      BY <1>5, <2>2, <2>3 DEF NodeChanges, Event, TypeOK
  <1>6. CASE CredentialsChange
    <2>1. cloud' \in [credentials : {"valid", "pending", "invalid"}, found : BOOLEAN, plan : Plans]
      BY <1>6 DEF CredentialsChange, TypeOK
    <2> QED
      BY <1>6, <2>1 DEF CredentialsChange, Event, TypeOK
  <1>7. CASE PlanChanges
    <2>1. cloud' \in [credentials : {"valid", "pending", "invalid"}, found : BOOLEAN, plan : Plans]
      BY <1>7 DEF PlanChanges, TypeOK
    <2> QED
      BY <1>7, <2>1 DEF PlanChanges, Event, TypeOK
  <1>8. CASE FRRStarts
    BY <1>8 DEF FRRStarts, TypeOK
  <1>9. CASE FRRStops
    BY <1>9 DEF FRRStops, Event, TypeOK
  <1>10. CASE FRRDrifts
    <2>1. PICK i \in 1..MaxGroups, x \in {"none", "other"} : frr' = [frr EXCEPT ![i] = x]
      BY <1>10 DEF FRRDrifts
    <2>2. frr' \in [1..MaxGroups -> Groups \cup {"none", "other"}]
      BY <2>1 DEF TypeOK
    <2> QED
      BY <1>10, <2>2 DEF FRRDrifts, Event, TypeOK
  <1>11. CASE TimePasses
    <2>1. store' \in Objects /\ cache' \in Objects
      BY <1>11, OlderType DEF TimePasses, TypeOK
    <2>2. views' \in Seq(Objects)
      <3>1. views' = [i \in 1..Len(views) |-> Older(views[i])] /\ Len(views) \in Nat
        BY <1>11 DEF TimePasses, TypeOK
      <3>2. \A i \in 1..Len(views) : Older(views[i]) \in Objects
        BY OlderType DEF TypeOK
      <3> QED
        BY <3>1, <3>2
    <2>3. worker' \in Reconciles \cup {Idle}
      <3>1. CASE worker \in Reconciles
        <4>1. Older(worker.obj) \in Objects /\ Aged(worker.baseline) \in Statuses
          BY <3>1, OlderType, AgedType DEF Reconciles
        <4> QED
          BY <1>11, <3>1, <4>1 DEF TimePasses, Reconciles
      <3>2. CASE worker = Idle
        <4>1. Aged(NoStatus) = NoStatus
          BY Zenon DEF Aged, NoStatus
        <4>2. Older(Gone(0)) = Gone(0)
          BY <4>1 DEF Older, Gone
        <4>3. worker' = [Idle EXCEPT !.obj = Gone(0), !.baseline = NoStatus]
          BY <1>11, <3>2, <4>1, <4>2, IdleFields DEF TimePasses
        <4> QED
          BY <4>3 DEF Idle
      <3> QED
        BY <3>1, <3>2 DEF TypeOK
    <2> QED
      BY <1>11, <2>1, <2>2, <2>3 DEF TimePasses, TypeOK
  <1>12. CASE Restart
    <2>1. queued' \in BOOLEAN /\ delayed' \in BOOLEAN
      BY <1>12, Zenon DEF Restart, TypeOK, Objects
    <2> QED
      BY <1>12, <2>1 DEF Restart, Event, TypeOK
  <1>13. CASE DeliverView
    <2>1. Head(views) \in Objects /\ Tail(views) \in Seq(Objects)
      BY <1>13 DEF DeliverView, TypeOK
    <2> QED
      BY <1>13, <2>1 DEF DeliverView, TypeOK
  <1>14. CASE DeliverRoutings \/ TimerFires
    <2>1. queued' \in BOOLEAN
      BY <1>14, Zenon DEF DeliverRoutings, TimerFires
    <2> QED
      BY <1>14, <2>1 DEF DeliverRoutings, TimerFires, TypeOK
  <1>15. CASE GetConfig
    <2>1. cache \in Objects /\ cache.status \in Statuses /\ NoStatus \in Statuses
      BY StatusType DEF TypeOK, Objects
    <2>2. [cache.status EXCEPT !.phase = "Degraded", !.patched = "InvalidName"] \in Statuses
      BY <2>1, SpecsAssumption, StatusTypes, Zenon
    <2>3. ASSUME NEW s \in Steps, NEW st \in Statuses
          PROVE  /\ [[Idle EXCEPT !.obj = cache, !.baseline = cache.status]
                        EXCEPT !.step = s] \in Reconciles
                 /\ [[Idle EXCEPT !.obj = cache, !.baseline = cache.status]
                        EXCEPT !.step = s, !.obj.status = st] \in Reconciles
      BY <2>1 DEF Idle, Reconciles, Objects
    <2>4. worker' \in Reconciles \cup {Idle}
      BY <1>15, <2>2, <2>3, Zenon DEF GetConfig, Steps
    <2> QED
      BY <1>15, <2>4 DEF GetConfig, TypeOK
  <1>16. CASE EnsureFinalizer
    <2>1. worker \in Reconciles /\ worker.obj \in Objects /\ worker.obj.rv + 1 \in Nat
      BY <1>16, BusyType DEF EnsureFinalizer, Objects
    <2>2. Started(worker.obj) \in Objects /\ [worker.obj EXCEPT !.finalizer = TRUE] \in Objects
      BY <2>1, StartedType, SpecsAssumption, ObjectType, Zenon
    <2>3. [Started(worker.obj) EXCEPT !.rv = worker.obj.rv + 1] \in Objects
      BY <2>1, <2>2, SpecsAssumption, ObjectType, Zenon
    <2>4. ASSUME NEW o \in Objects PROVE [worker EXCEPT !.step = "patch", !.obj = o] \in Reconciles
      BY <2>1 DEF Reconciles, Steps
    <2>5. worker' \in Reconciles \cup {Idle} /\ delayed' \in BOOLEAN /\ budget' \in Nat
      BY <1>16, <2>2, <2>3, <2>4, FinalizerMoves, Zenon DEF TypeOK
    <2>6. store' \in Objects /\ cache' \in Objects /\ views' \in Seq(Objects)
      BY <1>16, <2>2, FinalizerMoves, WriteType DEF TypeOK
    <2> QED
      BY <1>16, <2>5, <2>6 DEF EnsureFinalizer, Elsewhere, TypeOK
  <1>17. CASE PatchNetworkOperator
    BY <1>17, PatchMoves DEF Moves, PatchNetworkOperator, TypeOK
  <1>18. CASE IsFRRReady
    BY <1>18, FRRMoves DEF Moves, IsFRRReady, Elsewhere, TypeOK
  <1>19. CASE BuildPlatform
    BY <1>19, BuildMoves DEF Moves, BuildPlatform, Elsewhere, TypeOK
  <1>20. CASE DiscoverEndpoints
    BY <1>20, DiscoverMoves DEF Moves, DiscoverEndpoints, Elsewhere, TypeOK
  <1>21. CASE EnsureFRRConfiguration
    BY <1>21, EnsureMoves DEF Moves, EnsureFRRConfiguration, Elsewhere, TypeOK
  <1>22. CASE PruneFRRConfigurations
    BY <1>22, PruneMoves, Zenon DEF Moves, PruneFRRConfigurations, Elsewhere, TypeOK
  <1>23. CASE ListRouterNodes
    BY <1>23, ListMoves, Zenon DEF Moves, ListRouterNodes, Elsewhere, TypeOK
  <1>24. CASE ReconcileNodes
    BY <1>24, ReconcileMoves DEF Moves, ReconcileNodes, Elsewhere, TypeOK
  <1>25. CASE PatchConfigStatus
    <2>1. worker.obj \in Objects
      BY <1>25, BusyType DEF PatchConfigStatus
    <2>2. store' \in Objects /\ cache' \in Objects /\ views' \in Seq(Objects)
      BY <1>25, <2>1, PatchStatusMoves, WriteType DEF TypeOK
    <2> QED
      BY <1>25, <2>2, PatchStatusMoves DEF PatchConfigStatus, Elsewhere, TypeOK
  <1>26. CASE CheckRoutings
    BY <1>26, RoutingsMoves DEF Moves, CheckRoutings, Elsewhere, TypeOK
  <1>27. CASE CleanupCloud
    BY <1>27, CleanupMoves DEF Moves, CleanupCloud, Elsewhere, TypeOK
  <1>28. CASE DeleteFRRConfigurations
    BY <1>28, DeleteMoves DEF Moves, DeleteFRRConfigurations, Elsewhere, TypeOK
  <1>29. CASE RemoveFinalizer
    <2>1. Gone(store.uid) \in Objects
      BY GoneType DEF TypeOK, Objects
    <2>2. store' \in Objects /\ cache' \in Objects /\ views' \in Seq(Objects)
      BY <1>29, <2>1, RemoveMoves, PutType DEF TypeOK
    <2> QED
      BY <1>29, <2>2, RemoveMoves DEF RemoveFinalizer, Elsewhere, TypeOK
  <1>30. CASE UNCHANGED vars
    BY <1>30 DEF vars, TypeOK
  <1> QED
    BY <1>1, <1>2, <1>3, <1>4, <1>5, <1>6, <1>7, <1>8, <1>9, <1>10, <1>11, <1>12, <1>13,
       <1>14, <1>15, <1>16, <1>17, <1>18, <1>19, <1>20, <1>21, <1>22, <1>23, <1>24, <1>25,
       <1>26, <1>27, <1>28, <1>29, <1>30
    DEF Next, Environment, Reconcile

\* Every variable keeps its type, whatever users, faults and restarts do.
THEOREM TypeCorrect == Spec => []TypeOK
  BY TypeInit, TypeStep, PTL DEF Spec

-----------------------------------------------------------------------------
(* Versions and the watch.                                                 *)

LEMMA PrecedesReflexive == ASSUME NEW a \in Objects PROVE Precedes(a, a)
  BY DEF Precedes, Objects

LEMMA PrecedesTransitive ==
  ASSUME NEW a \in Objects, NEW b \in Objects, NEW c \in Objects, Precedes(a, b), Precedes(b, c)
  PROVE  Precedes(a, c)
  BY DEF Precedes, Objects

LEMMA VersionType ==
  ASSUME TypeOK
  PROVE  /\ Len(views) \in Nat
         /\ \A i \in 0..Len(views) : View(cache, views, i) \in Objects
         /\ \A o \in Versions : o \in Objects
         /\ cache \in Versions
  <1>1. Len(views) \in Nat /\ \A i \in 0..Len(views) : View(cache, views, i) \in Objects
    BY DEF TypeOK, View
  <1>2. 0 \in 0..Len(views) /\ View(cache, views, 0) = cache
    BY <1>1 DEF View
  <1> QED
    BY <1>1, <1>2 DEF Versions

\* The cached object is an earlier version of the stored one, which is the last version.
LEMMA CachePrecedes ==
  ASSUME TypeOK, WatchInv
  PROVE  Precedes(cache, store) /\ store \in Versions
         /\ \A o \in Versions : Precedes(cache, o) /\ Precedes(o, store)
  <1>1. Len(views) \in Nat
    BY DEF TypeOK
  <1>2. \A i \in 0..Len(views) : /\ Precedes(cache, View(cache, views, i))
                                /\ Precedes(View(cache, views, i), store)
    BY <1>1 DEF WatchInv, View
  <1>3. store \in Versions
    BY <1>1 DEF WatchInv, Versions
  <1> QED
    BY <1>2, <1>3 DEF Versions

\* A write of a later version extends the chain of versions.
LEMMA PutWatch ==
  ASSUME TypeOK, WatchInv, NEW o \in Objects, Precedes(store, o), Put(o)
  PROVE  /\ WatchInv'
         /\ Versions' \subseteq Versions \cup {store'}
         /\ store' = o /\ cache' = cache
  <1>0. /\ store \in Objects /\ cache \in Objects /\ views \in Seq(Objects)
        /\ store' = o /\ cache' = cache /\ views' = Append(views, o)
    BY DEF TypeOK, Put
  <1>1. /\ Len(views) \in Nat
        /\ Len(views') = Len(views) + 1
        /\ View(cache', views', Len(views) + 1) = o
        /\ \A i \in 0..Len(views) : /\ View(cache', views', i) = View(cache, views, i)
                                   /\ View(cache, views, i) \in Objects
    BY <1>0 DEF View
  <1>2. ASSUME NEW i \in 0..Len(views'), NEW j \in 0..Len(views'), i <= j
        PROVE  Precedes(View(cache', views', i), View(cache', views', j))
    <2>1. CASE j <= Len(views)
      BY <1>1, <1>2, <2>1 DEF WatchInv
    <2>2. CASE i <= Len(views) /\ j = Len(views) + 1
      <3>1. Precedes(View(cache, views, i), store)
        BY <1>1, <2>2 DEF WatchInv
      <3>2. Precedes(View(cache, views, i), o)
        BY <1>0, <1>1, <2>2, <3>1, PrecedesTransitive
      <3> QED
        BY <1>1, <2>2, <3>2
    <2>3. CASE i = Len(views) + 1
      <3>1. i = j
        BY <1>1, <1>2, <2>3
      <3> QED
        BY <1>1, <2>3, <3>1, PrecedesReflexive
    <2> QED
      BY <1>1, <1>2, <2>1, <2>2, <2>3
  <1>3. Versions' \subseteq Versions \cup {store'}
    <2> SUFFICES ASSUME NEW i \in 0..Len(views')
                 PROVE  View(cache', views', i) \in Versions \cup {store'}
      BY DEF Versions
    <2>1. i \in 0..Len(views) \/ i = Len(views) + 1
      BY <1>1
    <2> QED
      BY <1>0, <1>1, <2>1 DEF Versions
  <1>4. View(cache', views', Len(views')) = store'
    BY <1>0, <1>1
  <1> QED
    BY <1>0, <1>2, <1>3, <1>4 DEF WatchInv

LEMMA WriteWatch ==
  ASSUME TypeOK, WatchInv, NEW o \in Objects, Precedes(store, [o EXCEPT !.rv = @ + 1]), Write(o)
  PROVE  /\ WatchInv'
         /\ Versions' \subseteq Versions \cup {store'}
         /\ store' = [o EXCEPT !.rv = @ + 1] /\ cache' = cache
  <1>1. [o EXCEPT !.rv = @ + 1] \in Objects
    BY DEF Objects
  <1> QED
    BY <1>1, PutWatch DEF Write

\* Delivery moves the cache one version on.
LEMMA DeliverWatch ==
  ASSUME TypeOK, WatchInv, DeliverView
  PROVE  /\ WatchInv'
         /\ Versions' \subseteq Versions
         /\ Precedes(cache, cache')
  <1>1. /\ Len(views) \in Nat /\ Len(views) > 0
        /\ Len(views') = Len(views) - 1
        /\ \A i \in 0..Len(views') : View(cache', views', i) = View(cache, views, i + 1)
        /\ cache' = View(cache, views, 1)
    BY DEF DeliverView, TypeOK, View
  <1>2. View(cache', views', Len(views')) = store'
    BY <1>1 DEF WatchInv, DeliverView
  <1>3. ASSUME NEW i \in 0..Len(views'), NEW j \in 0..Len(views'), i <= j
        PROVE  Precedes(View(cache', views', i), View(cache', views', j))
    BY <1>1, <1>3 DEF WatchInv
  <1>4. Precedes(cache, cache')
    BY <1>1 DEF WatchInv, View
  <1>5. Versions' \subseteq Versions
    <2> SUFFICES ASSUME NEW i \in 0..Len(views') PROVE View(cache', views', i) \in Versions
      BY DEF Versions
    <2>1. i + 1 \in 0..Len(views)
      BY <1>1
    <2> QED
      BY <1>1, <2>1 DEF Versions
  <1> QED
    BY <1>2, <1>3, <1>4, <1>5 DEF WatchInv

-----------------------------------------------------------------------------
(* What a step preserves that makes nothing Ready and keeps the finalizer.  *)

IsReady(o) == o.exists /\ ~o.deleting /\ o.status.phase = "Ready" /\ o.status.observed = o.generation

\* The stored object t, written over s, is Ready only if s was, with the same conditions.
NotNewlyReady(s, t) ==
    IsReady(t) => /\ IsReady(s) /\ t.uid = s.uid /\ t.generation = s.generation
                  /\ t.spec = s.spec /\ t.status = s.status

\* The object t, written over s, still has the finalizer that s had.
Keeps(s, t) == s.exists /\ s.finalizer => t.exists /\ t.uid = s.uid /\ t.finalizer

\* A step that moves the store and the cache forward.
Forward ==
    /\ TypeOK /\ TypeOK' /\ WatchInv /\ WatchInv'
    /\ Precedes(store, store') /\ Precedes(cache, cache')
    /\ Versions' \subseteq Versions \cup {store'}
    /\ Sound(store')
    /\ NotNewlyReady(store, store')
    /\ Keeps(store, store')

LEMMA BehindPrecedes ==
  ASSUME NEW o \in Objects, NEW s \in Objects, NEW t \in Objects, Behind(o, s), Precedes(s, t)
  PROVE  Behind(o, t)
  BY DEF Behind, Precedes, Objects

LEMMA FromCachePrecedes ==
  ASSUME NEW o \in Objects, NEW s \in Objects, NEW t \in Objects, FromCache(o, s), Precedes(s, t)
  PROVE  FromCache(o, t)
  BY DEF FromCache, Precedes, Objects

LEMMA StoreKeeps == ASSUME StoreInv, Forward PROVE StoreInv'
  <1>1. VersionsInv'
    <2> SUFFICES ASSUME NEW o \in Versions' PROVE Sound(o) /\ Protected(o)'
      BY DEF VersionsInv, Sound
    <2>1. CASE o \in Versions
      BY <2>1 DEF StoreInv, VersionsInv, Protected, Holds, Keeps, Forward
    <2>2. CASE o = store'
      BY <2>2 DEF Forward, Protected, Holds
    <2> QED
      BY <2>1, <2>2 DEF Forward
  <1>2. SeenInv'
    <2> SUFFICES ASSUME ReadyNow'
                 PROVE  /\ cache'.exists /\ cache'.uid = store'.uid
                        /\ cache'.generation = store'.generation
      BY DEF SeenInv
    <2>1. /\ ReadyNow /\ store'.exists
          /\ store'.uid = store.uid /\ store'.generation = store.generation
      BY DEF ReadyNow, IsReady, NotNewlyReady, Forward
    <2>2. cache.exists /\ cache.uid = store.uid /\ cache.generation = store.generation
      BY <2>1 DEF StoreInv, SeenInv
    <2>3. Precedes(cache', store')
      <3>1. Len(views') \in Nat
        BY DEF Forward, TypeOK
      <3> QED
        BY <3>1 DEF Forward, WatchInv, View
    <2>4. Precedes(cache, cache')
      BY DEF Forward
    <2>5. /\ cache \in Objects /\ cache' \in Objects
          /\ store \in Objects /\ store' \in Objects
      BY DEF Forward, TypeOK
    <2> QED
      BY <2>1, <2>2, <2>3, <2>4, <2>5 DEF Precedes, Objects
  <1>3. ReadyInv'
    BY Zenon DEF ReadyInv, StoreInv, Forward, NotNewlyReady, ReadyNow, IsReady, GoodConditions
  <1> QED
    BY <1>1, <1>2, <1>3 DEF StoreInv, Forward

\* What is configured stays owned and stays what Ready promises.
LEMMA FRRKeeps ==
  ASSUME FRRIsOwned, ReadyIsApplied, Forward, frr' = frr
  PROVE  FRRIsOwned' /\ ReadyIsApplied'
  <1>1. FRRIsOwned'
    BY DEF FRRIsOwned, Forward, Keeps
  <1>2. ReadyIsApplied'
    BY DEF ReadyIsApplied, Forward, NotNewlyReady, ReadyNow, IsReady, Configured
  <1> QED
    BY <1>1, <1>2

LEMMA WorkerKeeps ==
  ASSUME WorkerInv, Forward, frr' = frr, worker' = worker PROVE WorkerInv'
  <1>1. CopyInv'
    <2> SUFFICES ASSUME worker.step # "idle"
                 PROVE  CopyInv'
      BY DEF CopyInv
    <2>1. /\ worker.obj \in Objects /\ store \in Objects /\ store' \in Objects
          /\ cache \in Objects /\ cache' \in Objects
      BY BusyType DEF Forward, TypeOK
    <2>2. FromCache(worker.obj, cache') /\ Behind(worker.obj, store')
      BY <2>1, BehindPrecedes, FromCachePrecedes DEF Forward, WorkerInv, CopyInv
    <2>3. ASSUME worker.step = "finalizer", Current(worker.obj)'
          PROVE  worker.obj = store'
      <3>1. Behind(worker.obj, store) /\ Precedes(store, store')
        BY <2>3 DEF WorkerInv, CopyInv, Forward
      <3>2. store'.exists /\ store'.uid = worker.obj.uid /\ store'.rv = worker.obj.rv
        BY <2>3 DEF Current
      <3>3. store = store' /\ Current(worker.obj)
        BY <2>1, <3>1, <3>2 DEF Behind, Precedes, Current, Objects
      <3> QED
        BY <2>3, <3>3 DEF WorkerInv, CopyInv
    <2>4. ReadyNow' => worker.obj.uid = store'.uid /\ worker.obj.generation = store'.generation
      BY DEF ReadyNow, IsReady, NotNewlyReady, Forward, WorkerInv, CopyInv
    <2> QED
      BY <2>2, <2>3, <2>4 DEF WorkerInv, CopyInv, Sound
  <1>2. HoldInv'
    BY DEF WorkerInv, HoldInv, Protected, Holds, Keeps, Forward
  <1>3. BuildInv'
    BY DEF WorkerInv, BuildInv
  <1>4. ApplyInv'
    BY DEF WorkerInv, ApplyInv, Configured
  <1> QED
    BY <1>1, <1>2, <1>3, <1>4 DEF WorkerInv

LEMMA WorkerIdle == ASSUME worker' = Idle PROVE WorkerInv'
  <1>1. worker'.step = "idle"
    BY IdleFields
  <1> QED
    BY <1>1
    DEF WorkerInv, CopyInv, HoldInv, BuildInv, ApplyInv, ForwardSteps, EndsReady

\* Such a step of anyone but the worker, or with which the worker returns.
LEMMA QuietStep ==
  ASSUME IInv, Forward, frr' = frr, worker' = worker \/ worker' = Idle
  PROVE  IInv'
  BY StoreKeeps, FRRKeeps, WorkerKeeps, WorkerIdle DEF IInv, Forward

\* Among them every step that leaves the objects alone.
LEMMA StillForward ==
  ASSUME IInv, TypeOK', UNCHANGED apiVars PROVE Forward
  <1>1. store' = store /\ cache' = cache /\ views' = views
    BY DEF apiVars
  <1>2. store \in Objects /\ cache \in Objects
    BY DEF IInv, TypeOK
  <1>3. Precedes(store, store') /\ Precedes(cache, cache')
    BY <1>1, <1>2, PrecedesReflexive
  <1>4. WatchInv' /\ Versions' = Versions
    BY <1>1 DEF IInv, StoreInv, WatchInv, Versions
  <1>5. Sound(store')
    BY <1>1, CachePrecedes DEF IInv, StoreInv, VersionsInv, Sound
  <1>6. NotNewlyReady(store, store') /\ Keeps(store, store')
    BY <1>1 DEF NotNewlyReady, Keeps
  <1> QED
    BY <1>3, <1>4, <1>5, <1>6 DEF Forward, IInv, StoreInv

-----------------------------------------------------------------------------
(* Users, the environment and time.                                        *)

LEMMA StoreFields ==
  ASSUME IInv
  PROVE  /\ store \in Objects /\ cache \in Objects
         /\ store.uid \in Nat /\ store.rv \in Nat /\ store.generation \in Nat
         /\ store.status \in Statuses /\ store.status.observed \in Nat
         /\ Sound(store) /\ Sound(cache) /\ Protected(cache)
  <1>1. store \in Objects /\ cache \in Objects
    BY DEF IInv, TypeOK
  <1>2. store \in Versions /\ cache \in Versions
    BY CachePrecedes, VersionType DEF IInv, StoreInv
  <1>3. Sound(store) /\ Sound(cache) /\ Protected(cache)
    BY <1>2 DEF IInv, StoreInv, VersionsInv
  <1> QED
    BY <1>1, <1>3, Zenon DEF Objects, Statuses

\* A write over the store of a version that is not Ready and keeps the finalizer.
LEMMA PutForward ==
  ASSUME IInv, TypeOK', NEW o \in Objects, Put(o),
         Precedes(store, o), Sound(o), NotNewlyReady(store, o), Keeps(store, o)
  PROVE  Forward
  <1>1. /\ WatchInv' /\ Versions' \subseteq Versions \cup {store'}
        /\ store' = o /\ cache' = cache
    BY PutWatch DEF IInv, StoreInv
  <1>2. Precedes(cache, cache')
    BY <1>1, StoreFields, PrecedesReflexive
  <1> QED
    BY <1>1, <1>2 DEF Forward, IInv, StoreInv

LEMMA NoStatusFields ==
  /\ NoStatus.phase = "" /\ NoStatus.observed = 0 /\ NoStatus.reconciled = ""
  BY DEF NoStatus

LEMMA GoneFields ==
  ASSUME NEW u
  PROVE  /\ ~Gone(u).exists /\ Gone(u).uid = u /\ Gone(u).status = NoStatus
         /\ Gone(u).generation = 0
         /\ Sound(Gone(u)) /\ ~IsReady(Gone(u))
  <1>1. /\ ~Gone(u).exists /\ Gone(u).uid = u /\ Gone(u).status = NoStatus
        /\ Gone(u).generation = 0
    BY DEF Gone
  <1>2. Gone(u).status.observed = 0 /\ Gone(u).status.reconciled = ""
    BY <1>1, NoStatusFields, Zenon
  <1>3. Gone(u).generation = 0
    BY <1>1
  <1>4. Sound(Gone(u))
    <2>0. Gone(u).status.observed = 0
      BY <1>2, Zenon
    <2>1. Gone(u).status.observed <= Gone(u).generation
      BY <1>3, <2>0
    <2>2. Gone(u).status.reconciled # "Reconciled"
      BY <1>2, Zenon
    <2> QED
      BY <2>1, <2>2 DEF Sound
  <1> QED
    BY <1>1, <1>4 DEF IsReady

\* The version after a write that changes the spec, or marks the deletion.
LEMMA WriteFields ==
  ASSUME NEW s \in Objects, NEW o \in Objects, NEW w,
         o.exists = s.exists, o.uid = s.uid, o.rv = s.rv, w = [o EXCEPT !.rv = @ + 1]
  PROVE  /\ w \in Objects
         /\ w.exists = s.exists /\ w.uid = s.uid /\ w.rv = s.rv + 1
         /\ w.generation = o.generation /\ w.spec = o.spec /\ w.deleting = o.deleting
         /\ w.finalizer = o.finalizer /\ w.status = o.status
  BY DEF Objects

LEMMA CreateForward == ASSUME IInv, TypeOK', CreateConfig PROVE Forward
  <1>1. PICK s \in Specs, name \in BOOLEAN :
           Put([exists |-> TRUE, uid |-> store.uid + 1, rv |-> 1, generation |-> 1,
                named |-> name, spec |-> s, deleting |-> FALSE, finalizer |-> FALSE,
                status |-> NoStatus])
    BY DEF CreateConfig
  <1> DEFINE o == [exists |-> TRUE, uid |-> store.uid + 1, rv |-> 1, generation |-> 1,
                   named |-> name, spec |-> s, deleting |-> FALSE, finalizer |-> FALSE,
                   status |-> NoStatus]
  <1>2. o \in Objects
    BY StatusType, StoreFields DEF Objects
  <1>3. Precedes(store, o)
    BY StoreFields DEF Precedes
  <1>4. Sound(o) /\ NotNewlyReady(store, o)
    <2>1. o.status = NoStatus /\ o.generation = 1
      OBVIOUS
    <2> HIDE DEF o
    <2>2. o.status.phase = "" /\ o.status.observed = 0 /\ o.status.reconciled = ""
      BY <2>1, NoStatusFields, Zenon
    <2>3. o.generation = 1
      BY <2>1
    <2>4. o.status.observed <= o.generation
      <3>1. o.status.observed = 0
        BY <2>2, Zenon
      <3> QED
        BY <2>3, <3>1
    <2>5. o.status.reconciled # "Reconciled" /\ o.status.phase # "Ready"
      BY <2>2, Zenon
    <2> QED
      BY <2>4, <2>5 DEF Sound, NotNewlyReady, IsReady
  <1>5. Keeps(store, o)
    BY DEF Keeps, CreateConfig
  <1> HIDE DEF o
  <1>6. Put(o)
    BY <1>1 DEF o
  <1> QED
    BY <1>2, <1>3, <1>4, <1>5, <1>6, PutForward

LEMMA EditForward == ASSUME IInv, TypeOK', EditConfig PROVE Forward
  <1>1. PICK s \in Specs : Write([store EXCEPT !.generation = @ + 1, !.spec = s])
    BY Zenon DEF EditConfig
  <1> DEFINE p == [store EXCEPT !.generation = @ + 1, !.spec = s]
             o == [p EXCEPT !.rv = @ + 1]
  <1>0. /\ p \in Objects
        /\ p.exists = store.exists /\ p.uid = store.uid /\ p.deleting = store.deleting
        /\ p.finalizer = store.finalizer /\ p.status = store.status
        /\ p.rv = store.rv /\ p.generation = store.generation + 1
    <2>1. store \in Objects
      BY StoreFields
    <2>2. p.deleting = store.deleting
      BY <2>1 DEF Objects
    <2>3. p \in Objects
      <3>1. store.generation + 1 \in Nat
        BY <2>1 DEF Objects
      <3> QED
        BY <2>1, <3>1, ObjectType, Zenon
    <2> QED
      BY <2>1, <2>2, <2>3 DEF Objects
  <1>3. Put(o)
    BY <1>1 DEF Write
  <1> HIDE DEF p
  <1>2. /\ o \in Objects
        /\ o.exists = store.exists /\ o.uid = store.uid /\ o.deleting = store.deleting
        /\ o.finalizer = store.finalizer /\ o.status = store.status
        /\ o.rv = store.rv + 1 /\ o.generation = store.generation + 1
    BY <1>0, StoreFields, WriteFields
  <1> HIDE DEF o
  <1>4. Precedes(store, o) /\ Keeps(store, o)
    BY <1>2, StoreFields DEF Precedes, Keeps, EditConfig
  <1>5. Sound(o) /\ NotNewlyReady(store, o)
    BY <1>2, StoreFields DEF Sound, NotNewlyReady, IsReady
  <1> QED
    BY <1>2, <1>3, <1>4, <1>5, PutForward

LEMMA DeleteForward == ASSUME IInv, TypeOK', DeleteConfig PROVE Forward
  <1>1. CASE store.finalizer
    <2> DEFINE p == [store EXCEPT !.generation = @ + 1, !.deleting = TRUE]
               o == [p EXCEPT !.rv = @ + 1]
    <2>0. /\ p \in Objects
          /\ p.exists = store.exists /\ p.uid = store.uid /\ p.deleting
          /\ p.finalizer = store.finalizer /\ p.status = store.status
          /\ p.rv = store.rv /\ p.generation = store.generation + 1
      <3>1. store \in Objects
        BY StoreFields
      <3>2. p.deleting
        BY <3>1 DEF Objects
      <3>3. p \in Objects
        <4>1. store.generation + 1 \in Nat
          BY <3>1 DEF Objects
        <4> QED
          BY <3>1, <4>1, SpecsAssumption, ObjectType, Zenon
      <3> QED
        BY <3>1, <3>2, <3>3 DEF Objects
    <2>2. Put(o)
      BY <1>1 DEF Write, DeleteConfig
    <2> HIDE DEF p
    <2>1. /\ o \in Objects
          /\ o.exists = store.exists /\ o.uid = store.uid /\ o.deleting
          /\ o.finalizer = store.finalizer /\ o.status = store.status
          /\ o.rv = store.rv + 1 /\ o.generation = store.generation + 1
      BY <2>0, StoreFields, WriteFields
    <2> HIDE DEF o
    <2>3. Precedes(store, o) /\ Keeps(store, o)
      BY <2>1, StoreFields DEF Precedes, Keeps, DeleteConfig
    <2>4. Sound(o) /\ NotNewlyReady(store, o)
      BY <2>1, StoreFields DEF Sound, NotNewlyReady, IsReady
    <2> QED
      BY <2>1, <2>2, <2>3, <2>4, PutForward
  <1>2. CASE ~store.finalizer
    <2>1. Gone(store.uid) \in Objects /\ Put(Gone(store.uid))
      BY <1>2, StoreFields, GoneType DEF DeleteConfig
    <2>2. Precedes(store, Gone(store.uid)) /\ Keeps(store, Gone(store.uid))
      BY <1>2, StoreFields DEF Precedes, Keeps, Gone
    <2>3. Sound(Gone(store.uid)) /\ NotNewlyReady(store, Gone(store.uid))
      BY GoneFields DEF NotNewlyReady
    <2> QED
      BY <2>1, <2>2, <2>3, PutForward
  <1> QED
    BY <1>1, <1>2

LEMMA DeliverForward == ASSUME IInv, TypeOK', DeliverView PROVE Forward
  <1>1. WatchInv' /\ Versions' \subseteq Versions /\ Precedes(cache, cache')
    BY DeliverWatch DEF IInv, StoreInv
  <1>2. store' = store
    BY DEF DeliverView
  <1>3. Precedes(store, store') /\ Sound(store')
    BY <1>2, StoreFields, PrecedesReflexive DEF Sound
  <1>4. NotNewlyReady(store, store') /\ Keeps(store, store')
    BY <1>2 DEF NotNewlyReady, Keeps
  <1> QED
    BY <1>1, <1>3, <1>4 DEF Forward, IInv, StoreInv

LEMMA RestartForward == ASSUME IInv, TypeOK', Restart PROVE Forward
  <1>1. store' = store /\ cache' = store /\ views' = <<>>
    BY DEF Restart
  <1>2. Precedes(store, store') /\ Sound(store')
    BY <1>1, StoreFields, PrecedesReflexive DEF Sound
  <1>3. NotNewlyReady(store, store') /\ Keeps(store, store')
    BY <1>1 DEF NotNewlyReady, Keeps
  <1>4. Precedes(cache, cache')
    BY <1>1, CachePrecedes DEF IInv, StoreInv
  <1>5. Len(views') = 0 /\ \A i \in 0..Len(views') : View(cache', views', i) = store'
    BY <1>1 DEF View
  <1>6. WatchInv' /\ Versions' \subseteq {store'}
    <2>1. WatchInv'
      BY <1>1, <1>2, <1>5 DEF WatchInv
    <2>2. Versions' \subseteq {store'}
      BY <1>5 DEF Versions
    <2> QED
      BY <2>1, <2>2
  <1> QED
    BY <1>2, <1>3, <1>4, <1>6 DEF Forward, IInv, StoreInv

\* Somebody else's change of an FRRConfiguration creates none.
LEMMA DriftStep == ASSUME IInv, TypeOK', FRRDrifts PROVE IInv'
  <1>1. UNCHANGED apiVars /\ worker' = worker /\ "drift" \in Disturbances
    BY DEF FRRDrifts
  <1>2. PICK i \in 1..MaxGroups : /\ frr[i] # "none"
                                  /\ \E x \in {"none", "other"} : frr' = [frr EXCEPT ![i] = x]
    BY DEF FRRDrifts
  <1>3. \A j \in 1..MaxGroups : frr[j] = "none" => frr'[j] = "none"
    BY <1>2 DEF IInv, TypeOK
  <1>4. StoreInv'
    BY <1>1, StillForward, StoreKeeps DEF IInv
  <1>5. FRRIsOwned'
    BY <1>1, <1>3 DEF IInv, FRRIsOwned, apiVars
  <1>6. ReadyIsApplied'
    BY <1>1 DEF ReadyIsApplied
  <1>7. CopyInv' /\ BuildInv'
    BY <1>1 DEF IInv, WorkerInv, CopyInv, BuildInv, apiVars, ReadyNow, Current
  <1>8. HoldInv' /\ ApplyInv'
    BY <1>1, <1>3 DEF IInv, WorkerInv, HoldInv, ApplyInv, Protected, Holds, apiVars
  <1> QED
    BY <1>4, <1>5, <1>6, <1>7, <1>8 DEF IInv, WorkerInv

\* Time changes nothing but how long a condition has been False.
LEMMA OlderFields ==
  ASSUME NEW o \in Objects
  PROVE  /\ Older(o) \in Objects
         /\ Older(o).exists = o.exists /\ Older(o).uid = o.uid /\ Older(o).rv = o.rv
         /\ Older(o).generation = o.generation /\ Older(o).spec = o.spec
         /\ Older(o).deleting = o.deleting /\ Older(o).finalizer = o.finalizer
         /\ Older(o).status.phase = o.status.phase
         /\ Older(o).status.observed = o.status.observed
         /\ Older(o).status.patched = o.status.patched
         /\ Older(o).status.frrReady = o.status.frrReady
         /\ Older(o).status.discovered = o.status.discovered
         /\ Older(o).status.applied = o.status.applied
         /\ Older(o).status.inventory = o.status.inventory
         /\ Older(o).status.reconciled = o.status.reconciled
         /\ Older(o).status.peerGroups = o.status.peerGroups
  <1>1. o.status \in Statuses /\ Older(o) \in Objects
    BY OlderType DEF Objects
  <1>2. Older(o).status = Aged(o.status)
    BY DEF Older, Objects
  <1>3. /\ Older(o).exists = o.exists /\ Older(o).uid = o.uid /\ Older(o).rv = o.rv
        /\ Older(o).generation = o.generation /\ Older(o).spec = o.spec
        /\ Older(o).deleting = o.deleting /\ Older(o).finalizer = o.finalizer
    BY DEF Older, Objects
  <1>4. ASSUME NEW st \in Statuses
        PROVE  /\ Aged(st).phase = st.phase /\ Aged(st).observed = st.observed
               /\ Aged(st).patched = st.patched /\ Aged(st).frrReady = st.frrReady
               /\ Aged(st).discovered = st.discovered /\ Aged(st).applied = st.applied
               /\ Aged(st).inventory = st.inventory /\ Aged(st).reconciled = st.reconciled
               /\ Aged(st).peerGroups = st.peerGroups
    BY Zenon DEF Aged, Statuses
  <1> QED
    BY <1>1, <1>2, <1>3, <1>4

LEMMA OlderPrecedes ==
  ASSUME NEW a \in Objects, NEW b \in Objects, Precedes(a, b) PROVE Precedes(Older(a), Older(b))
  BY OlderFields DEF Precedes

\* Building depends on no other field.
LEMMA BuildingSame ==
  ASSUME NEW a, NEW b, NEW step, NEW all, Building(step, a, all),
         b.generation = a.generation, b.spec = a.spec, b.deleting = a.deleting,
         b.status.phase = a.status.phase, b.status.observed = a.status.observed,
         b.status.patched = a.status.patched, b.status.frrReady = a.status.frrReady,
         b.status.discovered = a.status.discovered, b.status.applied = a.status.applied,
         b.status.inventory = a.status.inventory, b.status.reconciled = a.status.reconciled,
         b.status.peerGroups = a.status.peerGroups
  PROVE  Building(step, b, all)
  <1>1. GoodConditions(a) => GoodConditions(b)
    BY Zenon DEF GoodConditions
  <1>2. EndsReady(step, b) => EndsReady(step, a)
    BY DEF EndsReady
  <1> QED
    BY <1>1, <1>2, Zenon DEF Building

LEMMA TimeStep == ASSUME IInv, TypeOK', TimePasses PROVE IInv'
  <1>1. /\ store' = Older(store) /\ cache' = Older(cache) /\ frr' = frr
        /\ views' = [i \in DOMAIN views |-> Older(views[i])]
        /\ store \in Objects /\ cache \in Objects /\ views \in Seq(Objects)
    BY DEF TimePasses, IInv, TypeOK
  <1>2. /\ Len(views) \in Nat /\ Len(views') = Len(views)
        /\ \A i \in 0..Len(views) : View(cache', views', i) = Older(View(cache, views, i))
    BY <1>1 DEF View
  <1>3. \A i \in 0..Len(views) : View(cache, views, i) \in Objects
    BY VersionType DEF IInv
  <1>4. WatchInv'
    BY <1>1, <1>2, <1>3, OlderPrecedes DEF IInv, StoreInv, WatchInv
  <1>5. /\ store'.exists = store.exists /\ store'.uid = store.uid
        /\ store'.finalizer = store.finalizer /\ store'.deleting = store.deleting
        /\ store'.generation = store.generation /\ store'.spec = store.spec
        /\ ReadyNow' = ReadyNow
    BY <1>1, OlderFields DEF ReadyNow
  <1>6. VersionsInv'
    <2> SUFFICES ASSUME NEW o \in Versions' PROVE Sound(o) /\ Protected(o)'
      BY DEF VersionsInv, Sound
    <2>1. PICK i \in 0..Len(views) : o = Older(View(cache, views, i))
      BY <1>2 DEF Versions
    <2>2. Sound(View(cache, views, i)) /\ Protected(View(cache, views, i))
      BY DEF IInv, StoreInv, VersionsInv, Versions
    <2> DEFINE p == View(cache, views, i)
    <2>3. /\ o.uid = p.uid /\ o.exists = p.exists /\ o.generation = p.generation
          /\ o.finalizer = p.finalizer /\ o.deleting = p.deleting
          /\ o.status.reconciled = p.status.reconciled
          /\ o.status.discovered = p.status.discovered
          /\ o.status.observed = p.status.observed
      BY <1>3, <2>1, OlderFields
    <2>4. store'.exists = store.exists /\ store'.uid = store.uid /\ store'.finalizer = store.finalizer
      BY <1>5
    <2> HIDE DEF p
    <2>5. Sound(o)
      BY <2>2, <2>3 DEF Sound, p
    <2>6. Protected(o)'
      BY <2>2, <2>3, <2>4 DEF Protected, Holds, p
    <2> QED
      BY <2>5, <2>6
  <1>7. SeenInv' /\ ReadyInv'
    <2>1. SeenInv'
      BY <1>1, <1>5, OlderFields DEF IInv, StoreInv, SeenInv
    <2>2. GoodConditions(store) => GoodConditions(Older(store))
      <3>1. /\ Older(store).spec = store.spec
            /\ Older(store).status.patched = store.status.patched
            /\ Older(store).status.frrReady = store.status.frrReady
            /\ Older(store).status.discovered = store.status.discovered
            /\ Older(store).status.applied = store.status.applied
            /\ Older(store).status.inventory = store.status.inventory
            /\ Older(store).status.reconciled = store.status.reconciled
            /\ Older(store).status.peerGroups = store.status.peerGroups
        BY <1>1, OlderFields
      <3> QED
        BY <3>1 DEF GoodConditions
    <2>3. ReadyInv'
      BY <1>1, <1>5, <2>2 DEF IInv, StoreInv, ReadyInv
    <2> QED
      BY <2>1, <2>3
  <1>8. FRRIsOwned' /\ ReadyIsApplied'
    BY <1>1, <1>5 DEF IInv, FRRIsOwned, ReadyIsApplied, Configured
  <1>9. WorkerInv'
    <2>1. CASE worker.step = "idle"
      <3>1. worker'.step = "idle"
        <4>1. worker = Idle
          BY <2>1 DEF IInv, TypeOK, Reconciles, Steps
        <4> QED
          BY <4>1 DEF TimePasses, Idle
      <3> QED
        BY <3>1 DEF WorkerInv, CopyInv, HoldInv, BuildInv, ApplyInv, ForwardSteps, EndsReady
    <2>2. CASE worker.step # "idle"
      <3>1. worker \in Reconciles /\ worker.obj \in Objects
        BY <2>2, BusyType DEF IInv
      <3>2. /\ worker'.step = worker.step /\ worker'.obj = Older(worker.obj)
            /\ worker'.groups = worker.groups /\ worker'.next = worker.next
            /\ worker'.all = worker.all
        BY <3>1 DEF TimePasses, Reconciles
      <3>3. CopyInv'
        <4>1. Current(worker.obj)' = Current(worker.obj)
          BY <1>1, <3>1, <3>2, OlderFields DEF Current
        <4>2. worker.step = "finalizer" /\ Current(worker.obj) => worker'.obj = store'
          BY <1>1, <2>2, <3>2 DEF IInv, WorkerInv, CopyInv
        <4>3. FromCache(worker'.obj, cache') /\ Behind(worker'.obj, store') /\ Sound(worker'.obj)
          BY <1>1, <2>2, <3>1, <3>2, OlderFields
          DEF IInv, WorkerInv, CopyInv, FromCache, Behind, Sound
        <4> QED
          BY <1>5, <2>2, <3>1, <3>2, <4>1, <4>2, <4>3, OlderFields
          DEF IInv, WorkerInv, CopyInv, Sound
      <3>4. HoldInv'
        BY <1>1, <1>5, <3>1, <3>2, OlderFields DEF IInv, WorkerInv, HoldInv, Protected, Holds
      <3>5. BuildInv'
        <4>1. Building(worker.step, worker.obj, worker.all)
          BY <2>2 DEF IInv, WorkerInv, BuildInv
        <4>2. Building(worker.step, Older(worker.obj), worker.all)
          BY <3>1, <4>1, OlderFields, BuildingSame
        <4> QED
          BY <3>2, <4>2 DEF BuildInv
      <3>6. ApplyInv'
        BY <1>1, <3>1, <3>2, OlderFields
        DEF IInv, WorkerInv, ApplyInv, EndsReady, Configured
      <3> QED
        BY <3>3, <3>4, <3>5, <3>6 DEF WorkerInv
    <2> QED
      BY <2>1, <2>2
  <1> QED
    BY <1>4, <1>6, <1>7, <1>8, <1>9 DEF IInv, StoreInv

-----------------------------------------------------------------------------
(* The steps of a reconcile that write no object.                          *)

\* Reading the cache.
LEMMA GetStep == ASSUME IInv, TypeOK', GetConfig PROVE IInv'
  <1> DEFINE invalid == [cache.status EXCEPT !.phase = "Degraded", !.patched = "InvalidName"]
             start == [Idle EXCEPT !.obj = cache, !.baseline = cache.status]
  <1>1. UNCHANGED apiVars /\ frr' = frr
    BY DEF GetConfig
  <1>2. Forward
    BY <1>1, StillForward
  <1>3. CASE ~cache.exists
    <2>1. worker' = Idle
      BY <1>3 DEF GetConfig
    <2> QED
      BY <1>1, <1>2, <2>1, QuietStep
  <1>4. CASE cache.exists
    <2>1. /\ cache \in Objects /\ cache.status \in Statuses
          /\ store \in Objects /\ Sound(cache) /\ Protected(cache) /\ Precedes(cache, store)
      BY StoreFields, CachePrecedes DEF Objects, IInv, StoreInv
    <2>2. /\ worker'.next = 1
          /\ \/ worker'.step = "status" /\ worker'.obj = [cache EXCEPT !.status = invalid]
             \/ worker'.step = "routings" /\ worker'.obj = cache /\ cache.deleting
             \/ worker'.step = "finalizer" /\ worker'.obj = cache /\ ~cache.deleting
      <3>1. \/ worker' = [start EXCEPT !.step = "status", !.obj.status = invalid]
            \/ worker' = [start EXCEPT !.step = "routings"] /\ cache.deleting
            \/ worker' = [start EXCEPT !.step = "finalizer"] /\ ~cache.deleting
        BY <1>4 DEF GetConfig
      <3>2. /\ [start EXCEPT !.step = "status", !.obj.status = invalid].step = "status"
            /\ [start EXCEPT !.step = "status", !.obj.status = invalid].obj
                  = [cache EXCEPT !.status = invalid]
            /\ [start EXCEPT !.step = "status", !.obj.status = invalid].next = 1
        BY DEF Idle
      <3>3. ASSUME NEW s \in {"routings", "finalizer"}
            PROVE  /\ [start EXCEPT !.step = s].step = s
                   /\ [start EXCEPT !.step = s].obj = cache
                   /\ [start EXCEPT !.step = s].next = 1
        BY DEF Idle
      <3> HIDE DEF start, invalid
      <3> QED
        BY <3>1, <3>2, <3>3
    <2>3. /\ worker'.obj.exists /\ worker'.obj.uid = cache.uid /\ worker'.obj.rv = cache.rv
          /\ worker'.obj.generation = cache.generation /\ worker'.obj.spec = cache.spec
          /\ worker'.obj.deleting = cache.deleting /\ worker'.obj.finalizer = cache.finalizer
          /\ worker'.obj.status.observed = cache.status.observed
          /\ worker'.obj.status.reconciled = cache.status.reconciled
          /\ worker'.obj.status.discovered = cache.status.discovered
          /\ worker'.step = "status" => worker'.obj.status.phase = "Degraded"
      <3>1. /\ invalid.phase = "Degraded" /\ invalid.observed = cache.status.observed
            /\ invalid.reconciled = cache.status.reconciled
            /\ invalid.discovered = cache.status.discovered
        BY <2>1, Zenon DEF Statuses
      <3> HIDE DEF invalid
      <3>2. /\ [cache EXCEPT !.status = invalid].status = invalid
            /\ [cache EXCEPT !.status = invalid].exists = cache.exists
            /\ [cache EXCEPT !.status = invalid].uid = cache.uid
            /\ [cache EXCEPT !.status = invalid].rv = cache.rv
            /\ [cache EXCEPT !.status = invalid].generation = cache.generation
            /\ [cache EXCEPT !.status = invalid].spec = cache.spec
            /\ [cache EXCEPT !.status = invalid].deleting = cache.deleting
            /\ [cache EXCEPT !.status = invalid].finalizer = cache.finalizer
        BY <2>1 DEF Objects
      <3> QED
        BY <1>4, <2>2, <3>1, <3>2
    <2>4. CopyInv'
      <3>1. Sound(worker'.obj) /\ FromCache(worker'.obj, cache)
        BY <2>1, <2>3 DEF Sound, FromCache, Objects
      <3>2. Behind(worker'.obj, store)
        BY <2>1, <2>3 DEF Precedes, Behind
      <3>3. worker'.step = "finalizer" /\ Current(worker.obj)' => worker'.obj = store
        BY <1>1, <2>1, <2>2 DEF Current, Precedes, Objects, apiVars
      <3>4. ReadyNow' => worker'.obj.uid = store.uid /\ worker'.obj.generation = store.generation
        BY <1>1, <2>3 DEF IInv, StoreInv, SeenInv, ReadyNow, apiVars
      <3>5. /\ worker'.step \in DeletionSteps => worker'.obj.deleting
            /\ worker'.step \in ForwardSteps \cup {"finalizer"} => ~worker'.obj.deleting
        BY <2>2 DEF DeletionSteps, ForwardSteps
      <3> QED
        BY <1>1, <2>3, <3>1, <3>2, <3>3, <3>4, <3>5 DEF CopyInv, Sound, apiVars
    <2>5. HoldInv'
      BY <1>1, <2>1, <2>2 DEF HoldInv, Protected, Holds, ForwardSteps, apiVars
    <2>6. BuildInv' /\ ApplyInv'
      <3>1. worker'.step \notin ForwardSteps /\ ~EndsReady(worker'.step, worker'.obj)
        BY <2>2, <2>3 DEF ForwardSteps, EndsReady
      <3>2. BuildInv'
        BY <2>2, <3>1, Zenon DEF BuildInv, Building, ForwardSteps
      <3>3. ApplyInv'
        BY <2>2, <3>1 DEF ApplyInv, ForwardSteps
      <3> QED
        BY <3>2, <3>3
    <2>7. StoreInv' /\ FRRIsOwned' /\ ReadyIsApplied'
      BY <1>1, <1>2, StoreKeeps, FRRKeeps DEF IInv
    <2> QED
      BY <2>4, <2>5, <2>6, <2>7 DEF IInv, WorkerInv
  <1> QED
    BY <1>3, <1>4

LEMMA MovesFields ==
  ASSUME worker \in Reconciles, NEW s, NEW st \in Statuses, Moves(s, st)
  PROVE  /\ worker'.obj.status = st /\ worker'.obj.exists = worker.obj.exists
         /\ worker'.obj.uid = worker.obj.uid /\ worker'.obj.rv = worker.obj.rv
         /\ worker'.obj.generation = worker.obj.generation
         /\ worker'.obj.spec = worker.obj.spec /\ worker'.obj.deleting = worker.obj.deleting
         /\ worker'.obj.finalizer = worker.obj.finalizer
  BY DEF Moves, Reconciles, Objects

\* A status the worker may put in its copy.
SoundStatus(st) ==
    /\ st \in Statuses
    /\ st.reconciled = "Reconciled" => st.discovered = "Discovered"
    /\ st.observed = worker.obj.status.observed

\* The steps a reconcile takes one after the other.
Follows(s, t) ==
    /\ t # "finalizer"
    /\ t \in ForwardSteps => s \in ForwardSteps
    /\ t \in DeletionSteps => s \in DeletionSteps

LEMMA CopyMoves ==
  ASSUME IInv, TypeOK', UNCHANGED apiVars, worker.step # "idle",
         NEW s, NEW st, SoundStatus(st), Moves(s, st), Follows(worker.step, s)
  PROVE  /\ StoreInv' /\ CopyInv'
         /\ s \in ForwardSteps => Holds(worker.obj)'
  <1>1. worker \in Reconciles /\ st \in Statuses
    BY BusyType DEF IInv, SoundStatus
  <1>2. /\ worker'.obj.status = st /\ worker'.obj.exists = worker.obj.exists
        /\ worker'.obj.uid = worker.obj.uid /\ worker'.obj.rv = worker.obj.rv
        /\ worker'.obj.generation = worker.obj.generation
        /\ worker'.obj.spec = worker.obj.spec /\ worker'.obj.deleting = worker.obj.deleting
        /\ worker'.obj.finalizer = worker.obj.finalizer
        /\ worker'.step = s
    BY <1>1, MovesFields DEF Moves
  <1>3. StoreInv'
    BY StillForward, StoreKeeps DEF IInv
  <1>4. CopyInv'
    <2>1. CopyInv
      BY DEF IInv, WorkerInv
    <2>2. Sound(worker'.obj)
      BY <1>2, <2>1 DEF CopyInv, Sound, SoundStatus
    <2>3. FromCache(worker'.obj, cache) /\ Behind(worker'.obj, store)
      BY <1>2, <2>1 DEF CopyInv, FromCache, Behind
    <2>4. ReadyNow' => worker'.obj.uid = store.uid /\ worker'.obj.generation = store.generation
      BY <1>2, <2>1 DEF CopyInv, ReadyNow, apiVars
    <2>5. /\ worker'.obj.exists
          /\ worker'.step \in DeletionSteps => worker'.obj.deleting
          /\ worker'.step \in ForwardSteps \cup {"finalizer"} => ~worker'.obj.deleting
      BY <1>2, <2>1 DEF CopyInv, Follows
    <2>6. worker'.step # "finalizer"
      BY <1>2 DEF Follows
    <2> QED
      BY <2>2, <2>3, <2>4, <2>5, <2>6 DEF CopyInv, Sound, apiVars
  <1>5. s \in ForwardSteps => Holds(worker.obj)'
    BY <1>2 DEF IInv, WorkerInv, HoldInv, Follows, Holds, apiVars
  <1> QED
    BY <1>3, <1>4, <1>5

\* The reconcile ends, and not in Ready.
LEMMA EndStep ==
  ASSUME IInv, TypeOK', UNCHANGED apiVars, worker.step # "idle",
         NEW st, SoundStatus(st), Moves("status", st), st.phase # "Ready" \/ worker.obj.deleting,
         FRRIsOwned', ReadyIsApplied'
  PROVE  IInv'
  <1>1. StoreInv' /\ CopyInv'
    <2>1. Follows(worker.step, "status")
      BY DEF Follows, ForwardSteps, DeletionSteps
    <2> QED
      BY <2>1, CopyMoves
  <1>2. /\ worker'.step = "status" /\ worker'.obj.status = st
        /\ worker'.obj.deleting = worker.obj.deleting
    BY BusyType, MovesFields DEF IInv, SoundStatus, Moves
  <1>3. ~EndsReady(worker'.step, worker'.obj)
    BY <1>2 DEF EndsReady
  <1>4. HoldInv' /\ ApplyInv'
    BY <1>2, <1>3 DEF HoldInv, ApplyInv, ForwardSteps
  <1>5. BuildInv'
    BY <1>2, <1>3 DEF BuildInv, Building, ForwardSteps
  <1> QED
    BY <1>1, <1>4, <1>5 DEF IInv, WorkerInv

\* The reconcile goes on to the next phase.
LEMMA PhaseStep ==
  ASSUME IInv, TypeOK', UNCHANGED apiVars, worker.step \in ForwardSteps,
         NEW s \in ForwardSteps, NEW st, SoundStatus(st), Moves(s, st),
         Building(s, worker'.obj, worker'.all), ApplyInv', FRRIsOwned', ReadyIsApplied'
  PROVE  IInv'
  <1>1. StoreInv' /\ CopyInv' /\ Holds(worker.obj)'
    <2>1. Follows(worker.step, s) /\ worker.step # "idle"
      BY DEF Follows, ForwardSteps, DeletionSteps
    <2> QED
      BY <2>1, CopyMoves
  <1>2. HoldInv'
    BY <1>1 DEF HoldInv, Moves, ForwardSteps
  <1>3. BuildInv'
    BY DEF BuildInv, Moves
  <1> QED
    BY <1>1, <1>2, <1>3 DEF IInv, WorkerInv

\* The deletion goes on.
LEMMA DeletionStep ==
  ASSUME IInv, TypeOK', UNCHANGED apiVars, worker.step \in DeletionSteps,
         NEW s \in DeletionSteps, Moves(s, worker.obj.status),
         s = "removeFinalizer" => \A i \in 1..MaxGroups : frr'[i] = "none",
         FRRIsOwned', ReadyIsApplied'
  PROVE  IInv'
  <1>1. StoreInv' /\ CopyInv'
    <2>1. Follows(worker.step, s) /\ worker.step # "idle"
      BY DEF Follows, ForwardSteps, DeletionSteps
    <2>2. SoundStatus(worker.obj.status)
      BY <2>1, BusyType DEF SoundStatus, IInv, WorkerInv, CopyInv, Sound
    <2> QED
      BY <2>1, <2>2, CopyMoves
  <1>2. worker'.step = s
    BY DEF Moves
  <1>3. HoldInv' /\ ApplyInv'
    BY <1>2 DEF HoldInv, ApplyInv, ForwardSteps, DeletionSteps, EndsReady
  <1>4. BuildInv'
    BY <1>2, Zenon DEF BuildInv, Building, ForwardSteps, DeletionSteps, EndsReady
  <1> QED
    BY <1>1, <1>3, <1>4 DEF IInv, WorkerInv

\* In most steps the FRRConfigurations stay as they are.
LEMMA FRRStays ==
  ASSUME IInv, TypeOK', UNCHANGED apiVars, frr' = frr
  PROVE  FRRIsOwned' /\ ReadyIsApplied'
  BY StillForward, FRRKeeps DEF IInv

\* What is known of the worker in the phases.
LEMMA PhaseFields ==
  ASSUME IInv, worker.step \in ForwardSteps
  PROVE  /\ worker.step # "idle" /\ worker \in Reconciles
         /\ worker.obj \in Objects /\ worker.obj.status \in Statuses
         /\ Building(worker.step, worker.obj, worker.all)
         /\ SoundStatus(worker.obj.status)
         /\ worker.obj.status.phase = "Configuring"
         /\ worker.obj.status.observed = worker.obj.generation
  <1>1. worker.step # "idle"
    BY DEF ForwardSteps
  <1>2. /\ worker \in Reconciles /\ worker.obj \in Objects /\ worker.obj.status \in Statuses
    BY <1>1, BusyType DEF IInv
  <1>3. Building(worker.step, worker.obj, worker.all)
    BY <1>1 DEF IInv, WorkerInv, BuildInv
  <1>4. SoundStatus(worker.obj.status)
    BY <1>1, <1>2 DEF IInv, WorkerInv, CopyInv, Sound, SoundStatus
  <1> QED
    BY <1>1, <1>2, <1>3, <1>4, Zenon DEF Building

LEMMA PatchStep == ASSUME IInv, TypeOK', PatchNetworkOperator PROVE IInv'
  <1> DEFINE st == worker.obj.status
             good == [st EXCEPT !.patched = "Patched"]
             bad == [[st EXCEPT !.patched = "PatchFailed"] EXCEPT !.phase = "Degraded"]
  <1>1. worker.step = "patch" /\ UNCHANGED apiVars /\ frr' = frr
    BY DEF PatchNetworkOperator
  <1>2. /\ worker \in Reconciles /\ st \in Statuses /\ SoundStatus(st)
        /\ Building("patch", worker.obj, worker.all)
    BY <1>1, PhaseFields DEF ForwardSteps
  <1>3. FRRIsOwned' /\ ReadyIsApplied'
    BY <1>1, FRRStays
  <1>4. CASE Moves("status", bad)
    <2>1. [st EXCEPT !.patched = "PatchFailed"] \in Statuses
      BY <1>2, SpecsAssumption, StatusTypes, Zenon
    <2>2. bad \in Statuses
      BY <2>1, SpecsAssumption, StatusTypes, Zenon
    <2>3. /\ bad.phase = "Degraded" /\ bad.reconciled = st.reconciled
          /\ bad.discovered = st.discovered /\ bad.observed = st.observed
      BY <1>2, Zenon DEF Statuses
    <2> HIDE DEF bad
    <2>4. SoundStatus(bad)
      BY <1>2, <2>2, <2>3 DEF SoundStatus
    <2> QED
      BY <1>1, <1>3, <1>4, <2>3, <2>4, EndStep
  <1>5. CASE Moves("frr", good)
    <2>1. /\ good \in Statuses /\ good.patched = "Patched" /\ good.phase = st.phase
          /\ good.observed = st.observed /\ SoundStatus(good)
      <3>1. good \in Statuses
        BY <1>2, Zenon DEF Statuses
      <3>2. /\ good.patched = "Patched" /\ good.phase = st.phase
            /\ good.observed = st.observed /\ good.reconciled = st.reconciled
            /\ good.discovered = st.discovered
        BY <1>2, Zenon DEF Statuses
      <3> HIDE DEF good
      <3> QED
        BY <1>2, <3>1, <3>2, Zenon DEF SoundStatus
    <2> HIDE DEF good
    <2>2. /\ worker'.obj.status = good /\ worker'.obj.generation = worker.obj.generation
          /\ worker'.step = "frr" /\ worker'.next = worker.next
      BY <1>2, <1>5, <2>1, MovesFields DEF Moves
    <2>3. Building("frr", worker'.obj, worker'.all)
      BY <1>2, <2>1, <2>2 DEF Building, ForwardSteps, EndsReady
    <2>4. ApplyInv'
      BY <1>1, <2>2 DEF IInv, WorkerInv, ApplyInv, EndsReady
    <2> QED
      BY <1>1, <1>3, <1>5, <2>1, <2>3, <2>4, PhaseStep DEF ForwardSteps
  <1> QED
    BY <1>4, <1>5, PatchMoves DEF IInv

LEMMA FRRStep == ASSUME IInv, TypeOK', IsFRRReady PROVE IInv'
  <1> DEFINE st == worker.obj.status
             failed == [[st EXCEPT !.frrReady = "CheckFailed"] EXCEPT !.phase = "Degraded"]
             waiting == [st EXCEPT !.frrReady = "WaitingForFRR"]
  <1>1. worker.step = "frr" /\ UNCHANGED apiVars /\ frr' = frr
    BY DEF IsFRRReady
  <1>2. /\ worker \in Reconciles /\ st \in Statuses /\ SoundStatus(st)
        /\ Building("frr", worker.obj, worker.all) /\ st.phase = "Configuring"
    BY <1>1, PhaseFields DEF ForwardSteps
  <1>3. FRRIsOwned' /\ ReadyIsApplied'
    BY <1>1, FRRStays
  <1>4. CASE Moves("status", failed)
    <2>1. SoundStatus(failed) /\ failed.phase # "Ready"
      BY <1>2, Zenon DEF SoundStatus, Statuses
    <2> HIDE DEF failed
    <2> QED
      BY <1>1, <1>3, <1>4, <2>1, EndStep
  <1>5. CASE Moves("status", waiting)
    <2>1. SoundStatus(waiting) /\ waiting.phase # "Ready"
      BY <1>2, Zenon DEF SoundStatus, Statuses
    <2> HIDE DEF waiting
    <2> QED
      BY <1>1, <1>3, <1>5, <2>1, EndStep
  <1> HIDE DEF failed, waiting
  <1>6. CASE /\ Moves("apply", ManualReady(st)) /\ worker.obj.spec.platform = "Manual"
             /\ worker'.groups = worker.obj.spec.groups
    <2> DEFINE new == ManualReady(st)
    <2>1. FRRReady(st) \in Statuses /\ FRRReady(st).frrReady = "Ready" /\ FRRReady(st).peerGroups = <<>>
          /\ FRRReady(st).phase = st.phase /\ FRRReady(st).observed = st.observed
          /\ FRRReady(st).patched = st.patched
      BY <1>2, Zenon DEF FRRReady, Statuses
    <2>2. /\ new \in Statuses /\ new.patched = st.patched /\ new.frrReady = "Ready"
          /\ new.phase = st.phase /\ new.observed = st.observed /\ new.peerGroups = <<>>
          /\ new.discovered = "" /\ new.inventory = "" /\ new.reconciled = ""
      <3> DEFINE mid == DropCloud(FRRReady(st))
      <3>1. mid \in Statuses
        BY <2>1, SpecsAssumption, StatusTypes, Zenon
      <3>2. /\ mid.patched = st.patched /\ mid.frrReady = "Ready" /\ mid.phase = st.phase
            /\ mid.observed = st.observed /\ mid.peerGroups = <<>>
            /\ mid.inventory = "" /\ mid.reconciled = ""
        BY <2>1, Zenon DEF DropCloud, Statuses
      <3>3. new = [mid EXCEPT !.discovered = ""]
        BY DEF ManualReady
      <3> HIDE DEF mid, new
      <3>4. new \in Statuses
        BY <3>1, <3>3, SpecsAssumption, StatusTypes, Zenon
      <3>5. /\ new.patched = mid.patched /\ new.frrReady = mid.frrReady /\ new.phase = mid.phase
            /\ new.observed = mid.observed /\ new.peerGroups = mid.peerGroups
            /\ new.inventory = mid.inventory /\ new.reconciled = mid.reconciled
            /\ new.discovered = ""
        BY <3>1, <3>3, Zenon DEF Statuses
      <3> QED
        BY <3>2, <3>4, <3>5, Zenon
    <2> HIDE DEF new
    <2>3. SoundStatus(new)
      BY <2>2, Zenon DEF SoundStatus
    <2>4. /\ worker'.obj.status = new /\ worker'.obj.generation = worker.obj.generation
          /\ worker'.obj.spec = worker.obj.spec /\ worker'.step = "apply"
          /\ worker'.next = worker.next
      BY <1>2, <1>6, <2>2, MovesFields, Zenon DEF Moves, new
    <2>5. Building("apply", worker'.obj, worker'.all)
      BY <1>2, <1>6, <2>2, <2>4, Zenon DEF Building, ForwardSteps, EndsReady
    <2>6. ApplyInv'
      <3>1. worker'.next = 1
        BY <1>1, <2>4 DEF IInv, WorkerInv, ApplyInv
      <3>2. \A i \in 1..MaxGroups : ~(i < worker'.next)
        BY <3>1, SpecsAssumption
      <3> QED
        BY <1>6, <2>4, <3>2 DEF ApplyInv, EndsReady
    <2>7. Moves("apply", new) /\ "apply" \in ForwardSteps /\ worker.step \in ForwardSteps
      BY <1>1, <1>6 DEF ForwardSteps, new
    <2> QED
      BY <1>1, <1>3, <2>3, <2>5, <2>6, <2>7, PhaseStep
  <1>7. CASE Moves("build", FRRReady(st)) /\ worker.obj.spec.platform # "Manual"
    <2> DEFINE new == FRRReady(st)
    <2>1. /\ new \in Statuses /\ new.patched = st.patched /\ new.frrReady = "Ready"
          /\ new.phase = st.phase /\ new.observed = st.observed /\ SoundStatus(new)
      <3>1. new \in Statuses
        BY <1>2, Zenon DEF FRRReady, Statuses
      <3>2. /\ new.patched = st.patched /\ new.frrReady = "Ready" /\ new.phase = st.phase
            /\ new.observed = st.observed /\ new.reconciled = st.reconciled
            /\ new.discovered = st.discovered
        BY <1>2, Zenon DEF FRRReady, Statuses
      <3> HIDE DEF new
      <3> QED
        BY <1>2, <3>1, <3>2, Zenon DEF SoundStatus
    <2> HIDE DEF new
    <2>2. /\ worker'.obj.status = new /\ worker'.obj.generation = worker.obj.generation
          /\ worker'.obj.spec = worker.obj.spec /\ worker'.step = "build"
          /\ worker'.next = worker.next
      BY <1>2, <1>7, <2>1, MovesFields DEF Moves, new
    <2>3. Building("build", worker'.obj, worker'.all)
      BY <1>2, <1>7, <2>1, <2>2 DEF Building, ForwardSteps, EndsReady
    <2>4. ApplyInv'
      BY <1>1, <2>2 DEF IInv, WorkerInv, ApplyInv, EndsReady
    <2> QED
      BY <1>1, <1>3, <1>7, <2>1, <2>3, <2>4, PhaseStep DEF ForwardSteps, new
  <1> QED
    BY <1>4, <1>5, <1>6, <1>7, FRRMoves DEF IInv, failed, waiting

\* A cloud that cannot be used ends the reconcile, in a phase other than Ready.
LEMMA CloudFailedStep ==
  ASSUME IInv, TypeOK', UNCHANGED apiVars, frr' = frr, worker.step \in ForwardSteps,
         NEW r \in CloudFailures,
         \/ Moves("status", CloudFailed(worker.obj.status, r))
         \/ Moves("status", [CloudFailed(worker.obj.status, r) EXCEPT !.phase = "Degraded"])
  PROVE  IInv'
  <1> DEFINE st == worker.obj.status
             new == CloudFailed(st, r)
             bad == [new EXCEPT !.phase = "Degraded"]
  <1>1. /\ worker.step # "idle" /\ st \in Statuses /\ st.phase = "Configuring"
    BY PhaseFields
  <1>2. new \in Statuses
    BY <1>1, CloudFailedType
  <1>3. new.reconciled = "" /\ new.phase = st.phase /\ new.observed = st.observed
    BY <1>1, Zenon DEF CloudFailed, DropCloud, Statuses
  <1> HIDE DEF new
  <1>4. SoundStatus(new) /\ new.phase # "Ready"
    BY <1>1, <1>2, <1>3, Zenon DEF SoundStatus
  <1>5. SoundStatus(bad) /\ bad.phase # "Ready"
    BY <1>2, <1>3, Zenon DEF SoundStatus, Statuses
  <1>6. FRRIsOwned' /\ ReadyIsApplied'
    BY FRRStays
  <1> HIDE DEF bad
  <1>7. Moves("status", new) \/ Moves("status", bad)
    BY DEF new, bad
  <1> QED
    BY <1>1, <1>4, <1>5, <1>6, <1>7, EndStep

LEMMA BuildStep == ASSUME IInv, TypeOK', BuildPlatform PROVE IInv'
  <1>1. worker.step = "build" /\ worker.step \in ForwardSteps /\ UNCHANGED apiVars /\ frr' = frr
    BY DEF BuildPlatform, ForwardSteps
  <1>2. CASE Moves("discover", worker.obj.status)
    <2>1. /\ worker \in Reconciles /\ worker.obj.status \in Statuses
          /\ SoundStatus(worker.obj.status) /\ Building("build", worker.obj, worker.all)
      BY <1>1, PhaseFields
    <2>2. /\ worker'.obj.status = worker.obj.status
          /\ worker'.obj.generation = worker.obj.generation
          /\ worker'.obj.spec = worker.obj.spec /\ worker'.step = "discover"
          /\ worker'.next = worker.next
      BY <1>2, <2>1, MovesFields DEF Moves
    <2>3. Building("discover", worker'.obj, worker'.all)
      BY <2>1, <2>2 DEF Building, ForwardSteps, EndsReady
    <2>4. ApplyInv'
      BY <1>1, <2>2 DEF IInv, WorkerInv, ApplyInv, EndsReady
    <2>5. FRRIsOwned' /\ ReadyIsApplied'
      BY <1>1, FRRStays
    <2> QED
      BY <1>1, <1>2, <2>1, <2>3, <2>4, <2>5, PhaseStep DEF ForwardSteps
  <1> QED
    BY <1>1, <1>2, BuildMoves, CloudFailedStep DEF IInv

LEMMA DiscoverStep == ASSUME IInv, TypeOK', DiscoverEndpoints PROVE IInv'
  <1>1. worker.step = "discover" /\ worker.step \in ForwardSteps /\ UNCHANGED apiVars /\ frr' = frr
    BY DEF DiscoverEndpoints, ForwardSteps
  <1>2. ASSUME NEW p \in Plans, Moves("apply", Discovered(worker.obj.status, p)),
               worker'.groups = p
        PROVE  IInv'
    <2> DEFINE st == worker.obj.status
               new == Discovered(st, p)
    <2>1. /\ worker \in Reconciles /\ st \in Statuses
          /\ SoundStatus(st) /\ Building("discover", worker.obj, worker.all)
      BY <1>1, PhaseFields
    <2>2. /\ new \in Statuses /\ new.patched = st.patched /\ new.frrReady = st.frrReady
          /\ new.phase = st.phase /\ new.observed = st.observed /\ new.discovered = "Discovered"
      BY <2>1, Zenon DEF Discovered, Statuses
    <2> HIDE DEF new
    <2>3. SoundStatus(new)
      BY <2>2 DEF SoundStatus
    <2>4. /\ worker'.obj.status = new /\ worker'.obj.generation = worker.obj.generation
          /\ worker'.obj.spec = worker.obj.spec /\ worker'.step = "apply"
          /\ worker'.next = worker.next
      BY <1>2, <2>1, <2>2, MovesFields DEF Moves, new
    <2>5. Building("apply", worker'.obj, worker'.all) /\ worker'.obj.spec.platform # "Manual"
      BY <2>1, <2>2, <2>4, Zenon DEF Building, ForwardSteps, EndsReady
    <2>6. ApplyInv'
      <3>1. worker'.next = 1
        BY <1>1, <2>4 DEF IInv, WorkerInv, ApplyInv
      <3>2. \A i \in 1..MaxGroups : ~(i < worker'.next)
        BY <3>1, SpecsAssumption
      <3> QED
        BY <2>4, <2>5, <3>2 DEF ApplyInv, EndsReady
    <2>7. FRRIsOwned' /\ ReadyIsApplied'
      BY <1>1, FRRStays
    <2> QED
      BY <1>1, <1>2, <2>3, <2>5, <2>6, <2>7, PhaseStep DEF ForwardSteps, new
  <1> QED
    BY <1>1, <1>2, DiscoverMoves, CloudFailedStep DEF IInv

-----------------------------------------------------------------------------
(* Applying the groups, reconciling the nodes, deletion.                   *)

\* While the store is Ready, the worker's copy is of the spec it is Ready for.
LEMMA ReadySpec ==
  ASSUME IInv, worker.step # "idle", ReadyNow
  PROVE  worker.obj.spec = store.spec /\ ~worker.obj.deleting
  <1>1. /\ Behind(worker.obj, store) /\ worker.obj.uid = store.uid
        /\ worker.obj.generation = store.generation
    BY DEF IInv, WorkerInv, CopyInv
  <1>2. store.exists /\ ~store.deleting /\ store.uid \in Nat
    BY StoreFields DEF ReadyNow
  <1> QED
    BY <1>1, <1>2 DEF Behind

\* An update satisfies what it was asked for.
LEMMA UpdateSatisfies ==
  ASSUME NEW e, NEW d PROVE SpecSatisfied(CreateOrUpdate(e, d), d)
  BY DEF SpecSatisfied, CreateOrUpdate

LEMMA RenderedGroups ==
  ASSUME NEW g \in Plans \cup {<<>>}, NEW i \in 1..MaxGroups
  PROVE  Rendered(g)[i] = IF i <= Len(g) THEN g[i] ELSE "none"
  BY DEF Rendered

\* Writing the next group, or pruning past the last, spoils no group in place.
LEMMA ApplyKeeps ==
  ASSUME IInv, TypeOK', UNCHANGED apiVars, worker.step = "apply",
         \/ frr' = frr
         \/ /\ worker.next <= Len(worker.groups)
            /\ frr' = [frr EXCEPT ![worker.next] = CreateOrUpdate(@, worker.groups[worker.next])]
         \/ \E i \in Stale : frr' = [frr EXCEPT ![i] = "none"]
  PROVE  /\ FRRIsOwned' /\ ReadyIsApplied'
         /\ \A i \in 1..MaxGroups : i <= Len(worker.groups) =>
               \/ frr'[i] = frr[i]
               \/ i = worker.next /\ SpecSatisfied(frr'[i], worker.groups[i])
  <1>1. /\ worker \in Reconciles /\ worker.obj \in Objects /\ Holds(worker.obj)
        /\ worker.groups \in Plans \cup {<<>>} /\ worker.next \in Nat
        /\ Len(worker.groups) \in Nat /\ worker.step # "idle"
    BY PhaseFields, GroupsType DEF ForwardSteps, IInv, WorkerInv, HoldInv, Reconciles
  <1>2. frr \in [1..MaxGroups -> Groups \cup {"none", "other"}]
    BY DEF IInv, TypeOK
  <1>3. \A i \in 1..MaxGroups :
           \/ frr'[i] = frr[i]
           \/ /\ i = worker.next /\ i <= Len(worker.groups)
              /\ SpecSatisfied(frr'[i], worker.groups[i])
           \/ i > Len(worker.groups) /\ frr'[i] = "none"
    <2>1. CASE frr' = [frr EXCEPT ![worker.next] = CreateOrUpdate(@, worker.groups[worker.next])]
               /\ worker.next <= Len(worker.groups)
      BY <1>1, <1>2, <2>1, UpdateSatisfies
    <2>2. CASE \E i \in Stale : frr' = [frr EXCEPT ![i] = "none"]
      BY <1>1, <1>2, <2>2 DEF Stale
    <2> QED
      BY <2>1, <2>2
  <1>4. FRRIsOwned'
    BY <1>1 DEF FRRIsOwned, Holds, apiVars
  <1>5. ReadyIsApplied'
    <2> SUFFICES ASSUME "drift" \notin Disturbances, ReadyNow', store'.spec.platform = "Manual"
                 PROVE  Configured(store.spec.groups)'
      BY DEF ReadyIsApplied
    <2>1. store' = store /\ ReadyNow
      BY DEF ReadyNow, apiVars
    <2>2. worker.obj.spec = store.spec
      BY <1>1, <2>1, ReadySpec
    <2>3. worker.groups = store.spec.groups
      BY <2>1, <2>2 DEF IInv, WorkerInv, ApplyInv
    <2>4. \A i \in 1..MaxGroups : SpecSatisfied(frr[i], Rendered(worker.groups)[i])
      BY <2>1, <2>3 DEF IInv, ReadyIsApplied, Configured
    <2>5. ASSUME NEW i \in 1..MaxGroups
          PROVE  SpecSatisfied(frr'[i], Rendered(worker.groups)[i])
      <3>1. SpecSatisfied("none", "none")
        BY DEF SpecSatisfied
      <3> QED
        BY <1>1, <1>3, <2>4, <3>1, RenderedGroups
    <2> QED
      BY <2>1, <2>3, <2>5 DEF Configured
  <1>6. \A i \in 1..MaxGroups : i <= Len(worker.groups) =>
               \/ frr'[i] = frr[i]
               \/ i = worker.next /\ SpecSatisfied(frr'[i], worker.groups[i])
    BY <1>1, <1>3
  <1> QED
    BY <1>4, <1>5, <1>6

\* A failed call ends the reconcile, Degraded.
LEMMA ApplyFailedStep ==
  ASSUME IInv, TypeOK', UNCHANGED apiVars, worker.step \in ForwardSteps,
         Moves("status", Failed(worker.obj.status)), FRRIsOwned', ReadyIsApplied'
  PROVE  IInv'
  <1> DEFINE st == worker.obj.status
             new == Failed(st)
  <1>1. worker.step # "idle" /\ st \in Statuses /\ SoundStatus(st)
    BY PhaseFields
  <1>2. [st EXCEPT !.applied = "ApplyFailed"] \in Statuses
    BY <1>1, SpecsAssumption, StatusTypes, Zenon
  <1>3. new \in Statuses
    BY <1>2, SpecsAssumption, StatusTypes, Zenon DEF Failed
  <1>4. /\ new.phase = "Degraded" /\ new.reconciled = st.reconciled
        /\ new.discovered = st.discovered /\ new.observed = st.observed
    BY <1>1, Zenon DEF Failed, Statuses
  <1> HIDE DEF new
  <1>5. SoundStatus(new)
    BY <1>1, <1>3, <1>4 DEF SoundStatus
  <1> QED
    BY <1>1, <1>4, <1>5, EndStep DEF new

\* Worker and objects stay, or only the next group advances.
LEMMA StayStep ==
  ASSUME IInv, TypeOK', UNCHANGED apiVars, worker.step = "apply",
         worker'.step = "apply", worker'.obj = worker.obj, worker'.all = worker.all,
         ApplyInv', FRRIsOwned', ReadyIsApplied'
  PROVE  IInv'
  <1>1. StoreInv'
    BY StillForward, StoreKeeps DEF IInv
  <1>2. CopyInv' /\ HoldInv'
    BY DEF IInv, WorkerInv, CopyInv, HoldInv, Holds, apiVars, ReadyNow, Sound, ForwardSteps,
           DeletionSteps
  <1>3. BuildInv'
    BY DEF IInv, WorkerInv, BuildInv
  <1> QED
    BY <1>1, <1>2, <1>3 DEF IInv, WorkerInv

LEMMA EnsureStep == ASSUME IInv, TypeOK', EnsureFRRConfiguration PROVE IInv'
  <1>1. /\ worker.step = "apply" /\ worker.step \in ForwardSteps /\ UNCHANGED apiVars
        /\ worker.next <= Len(worker.groups)
    BY DEF EnsureFRRConfiguration, ForwardSteps
  <1>2. /\ worker \in Reconciles /\ worker.next \in Nat /\ Len(worker.groups) \in Nat
    BY <1>1, PhaseFields, GroupsType DEF Reconciles
  <1>3. /\ FRRIsOwned' /\ ReadyIsApplied'
        /\ \A i \in 1..MaxGroups : i <= Len(worker.groups) =>
               \/ frr'[i] = frr[i]
               \/ i = worker.next /\ SpecSatisfied(frr'[i], worker.groups[i])
    BY <1>1, EnsureMoves, ApplyKeeps DEF IInv
  <1>4. CASE Moves("status", Failed(worker.obj.status))
    BY <1>1, <1>3, <1>4, ApplyFailedStep
  <1>5. CASE /\ worker' \in Reconciles /\ worker'.step = "apply"
             /\ worker'.obj = worker.obj /\ worker'.groups = worker.groups
             /\ worker'.next = worker.next + 1 /\ worker'.all = worker.all
             /\ frr' = [frr EXCEPT ![worker.next] =
                           CreateOrUpdate(@, worker.groups[worker.next])]
    <2>1. ApplyInv'
      <3>1. ASSUME NEW i \in 1..MaxGroups, "drift" \notin Disturbances,
                   i < worker.next + 1, i <= Len(worker.groups)
            PROVE  SpecSatisfied(frr'[i], worker.groups[i])
        <4>1. CASE i = worker.next
          BY <1>5, <4>1, UpdateSatisfies DEF IInv, TypeOK
        <4>2. CASE i < worker.next
          <5>1. frr'[i] = frr[i]
            BY <1>5, <4>2 DEF IInv, TypeOK
          <5> QED
            BY <1>1, <3>1, <4>2, <5>1 DEF IInv, WorkerInv, ApplyInv
        <4> QED
          BY <1>2, <3>1, <4>1, <4>2
      <3>2. worker'.obj.spec.platform = "Manual" => worker'.groups = worker'.obj.spec.groups
        BY <1>1, <1>5 DEF IInv, WorkerInv, ApplyInv
      <3> QED
        BY <1>5, <3>1, <3>2 DEF ApplyInv, EndsReady
    <2> QED
      BY <1>1, <1>3, <1>5, <2>1, StayStep
  <1> QED
    BY <1>4, <1>5, EnsureMoves DEF IInv

LEMMA PruneStep == ASSUME IInv, TypeOK', PruneFRRConfigurations PROVE IInv'
  <1> DEFINE st == worker.obj.status
             applied == AppliedStatus(st)
             ready == [applied EXCEPT !.phase = "Ready"]
  <1>1. /\ worker.step = "apply" /\ worker.step \in ForwardSteps /\ UNCHANGED apiVars
        /\ worker.next > Len(worker.groups)
    BY DEF PruneFRRConfigurations, ForwardSteps
  <1>2. /\ worker \in Reconciles /\ worker.next \in Nat /\ Len(worker.groups) \in Nat
        /\ st \in Statuses /\ SoundStatus(st) /\ st.observed = worker.obj.generation
        /\ Building("apply", worker.obj, worker.all)
        /\ worker.groups \in Plans \cup {<<>>}
    BY <1>1, PhaseFields, GroupsType DEF Reconciles
  <1>3. /\ FRRIsOwned' /\ ReadyIsApplied'
        /\ \A i \in 1..MaxGroups : i <= Len(worker.groups) =>
               \/ frr'[i] = frr[i]
               \/ i = worker.next /\ SpecSatisfied(frr'[i], worker.groups[i])
    BY <1>1, PruneMoves, ApplyKeeps DEF IInv
  <1>4. CASE Moves("status", Failed(st))
    BY <1>1, <1>3, <1>4, ApplyFailedStep
  <1>5. applied \in Statuses /\ ready \in Statuses
    <2>1. applied \in Statuses
      BY <1>2, SpecsAssumption, StatusTypes, Zenon DEF AppliedStatus
    <2> QED
      BY <2>1, SpecsAssumption, StatusTypes, Zenon
  <1>6. /\ applied.applied = "Applied" /\ applied.phase = st.phase /\ applied.patched = st.patched
        /\ applied.frrReady = st.frrReady /\ applied.discovered = st.discovered
        /\ applied.inventory = st.inventory /\ applied.reconciled = st.reconciled
        /\ applied.peerGroups = st.peerGroups /\ applied.observed = st.observed
    BY <1>2, Zenon DEF AppliedStatus, Statuses
  <1> HIDE DEF applied
  <1>7. /\ ready.applied = "Applied" /\ ready.phase = "Ready" /\ ready.patched = st.patched
        /\ ready.frrReady = st.frrReady /\ ready.discovered = st.discovered
        /\ ready.inventory = st.inventory /\ ready.reconciled = st.reconciled
        /\ ready.peerGroups = st.peerGroups /\ ready.observed = st.observed
    BY <1>5, <1>6, Zenon DEF Statuses
  <1> HIDE DEF ready
  <1>8. SoundStatus(applied) /\ SoundStatus(ready)
    BY <1>2, <1>5, <1>6, <1>7 DEF SoundStatus
  <1>9. CASE /\ Moves("status", ready) /\ worker.obj.spec.platform = "Manual"
             /\ Stale = {} /\ frr' = frr
    <2>1. StoreInv' /\ CopyInv'
      <3>1. Follows("apply", "status") /\ worker.step # "idle"
        BY <1>1 DEF Follows, ForwardSteps, DeletionSteps
      <3> QED
        BY <1>1, <1>8, <1>9, <3>1, CopyMoves
    <2>2. /\ worker'.obj.status = ready /\ worker'.obj.generation = worker.obj.generation
          /\ worker'.obj.spec = worker.obj.spec /\ worker'.step = "status"
      BY <1>2, <1>5, <1>9, MovesFields DEF Moves
    <2>3. GoodConditions(worker'.obj)
      BY <1>2, <1>7, <1>9, <2>2, Zenon DEF Building, ForwardSteps, GoodConditions
    <2>4. BuildInv'
      BY <1>2, <1>7, <2>2, <2>3, Zenon DEF BuildInv, Building, ForwardSteps
    <2>5. HoldInv'
      BY <2>2 DEF HoldInv, ForwardSteps
    <2>6. ApplyInv'
      <3>1. ASSUME NEW i \in 1..MaxGroups, "drift" \notin Disturbances
            PROVE  SpecSatisfied(frr[i], Rendered(worker.groups)[i])
        <4>1. CASE i <= Len(worker.groups)
          <5>1. SpecSatisfied(frr[i], worker.groups[i])
            BY <1>1, <1>2, <3>1, <4>1 DEF IInv, WorkerInv, ApplyInv
          <5> QED
            BY <1>2, <4>1, <5>1, RenderedGroups
        <4>2. CASE ~(i <= Len(worker.groups))
          <5>1. frr[i] = "none"
            BY <1>2, <1>9, <4>2 DEF Stale
          <5> QED
            BY <1>2, <4>2, <5>1, RenderedGroups DEF SpecSatisfied
        <4> QED
          BY <4>1, <4>2
      <3>2. worker.groups = worker.obj.spec.groups
        BY <1>1, <1>9 DEF IInv, WorkerInv, ApplyInv
      <3>3. "drift" \notin Disturbances => Configured(worker.obj.spec.groups)'
        BY <1>9, <2>2, <3>1, <3>2 DEF Configured
      <3> QED
        BY <2>2, <3>3 DEF ApplyInv
    <2> QED
      BY <1>3, <2>1, <2>4, <2>5, <2>6 DEF IInv, WorkerInv
  <1>10. CASE Moves("nodes", applied) /\ worker.obj.spec.platform # "Manual" /\ frr' = frr
    <2>1. /\ worker'.obj.status = applied /\ worker'.obj.generation = worker.obj.generation
          /\ worker'.obj.spec = worker.obj.spec /\ worker'.step = "nodes"
      BY <1>2, <1>5, <1>10, MovesFields DEF Moves
    <2>2. Building("nodes", worker'.obj, worker'.all)
      BY <1>2, <1>6, <1>10, <2>1, Zenon DEF Building, ForwardSteps, EndsReady
    <2>3. ApplyInv'
      BY <2>1 DEF ApplyInv, EndsReady
    <2> QED
      BY <1>1, <1>3, <1>8, <1>10, <2>2, <2>3, PhaseStep DEF ForwardSteps
  <1>11. CASE UNCHANGED <<worker, delayed>>
    <2>1. ApplyInv'
      <3>1. ASSUME NEW i \in 1..MaxGroups, "drift" \notin Disturbances,
                   i < worker.next, i <= Len(worker.groups)
            PROVE  SpecSatisfied(frr'[i], worker.groups[i])
        BY <1>1, <1>2, <1>3, <3>1 DEF IInv, WorkerInv, ApplyInv
      <3> QED
        BY <1>1, <1>11, <3>1 DEF IInv, WorkerInv, ApplyInv, EndsReady
    <2> QED
      BY <1>1, <1>3, <1>11, <2>1, StayStep
  <1> QED
    BY <1>4, <1>9, <1>10, <1>11, PruneMoves DEF IInv, applied, ready

\* The nodes could not be listed, or the cloud not be reconciled.
LEMMA UnreconciledStep ==
  ASSUME IInv, TypeOK', UNCHANGED apiVars, frr' = frr, worker.step \in ForwardSteps,
         Moves("status", Unreconciled(worker.obj.status))
  PROVE  IInv'
  <1> DEFINE st == worker.obj.status
             new == Unreconciled(st)
  <1>1. worker.step # "idle" /\ st \in Statuses /\ SoundStatus(st)
    BY PhaseFields
  <1>2. [st EXCEPT !.reconciled = "CloudReconcileFailed"] \in Statuses
    BY <1>1, SpecsAssumption, StatusTypes, Zenon
  <1>3. new \in Statuses
    BY <1>2, SpecsAssumption, StatusTypes, Zenon DEF Unreconciled
  <1>4. /\ new.phase = "Degraded" /\ new.reconciled = "CloudReconcileFailed"
        /\ new.observed = st.observed
    BY <1>1, Zenon DEF Unreconciled, Statuses
  <1> HIDE DEF new
  <1>5. SoundStatus(new)
    BY <1>1, <1>3, <1>4 DEF SoundStatus
  <1>6. FRRIsOwned' /\ ReadyIsApplied'
    BY FRRStays
  <1> QED
    BY <1>1, <1>4, <1>5, <1>6, EndStep DEF new

LEMMA ListStep == ASSUME IInv, TypeOK', ListRouterNodes PROVE IInv'
  <1>1. worker.step = "nodes" /\ worker.step \in ForwardSteps /\ UNCHANGED apiVars /\ frr' = frr
    BY DEF ListRouterNodes, ForwardSteps
  <1>2. ASSUME NEW all \in BOOLEAN, Moves("cloud", Inventory(worker.obj.status, all)),
               worker'.all = all
        PROVE  IInv'
    <2> DEFINE st == worker.obj.status
               new == Inventory(st, all)
    <2>1. /\ worker \in Reconciles /\ st \in Statuses /\ SoundStatus(st)
          /\ Building("nodes", worker.obj, worker.all)
      BY <1>1, PhaseFields
    <2>2. new \in Statuses
      BY <2>1, InventoryType
    <2>3. /\ new.phase = st.phase /\ new.patched = st.patched /\ new.frrReady = st.frrReady
          /\ new.discovered = st.discovered /\ new.applied = st.applied
          /\ new.reconciled = st.reconciled /\ new.observed = st.observed
          /\ all => new.inventory = "Complete"
      <3>1. CASE all
        BY <2>1, <3>1, Zenon DEF Inventory, Statuses
      <3>2. CASE ~all
        BY <2>1, <3>2, Zenon DEF Inventory, Statuses
      <3> QED
        BY <3>1, <3>2
    <2> HIDE DEF new
    <2>4. SoundStatus(new)
      BY <2>1, <2>2, <2>3 DEF SoundStatus
    <2>5. /\ worker'.obj.status = new /\ worker'.obj.generation = worker.obj.generation
          /\ worker'.obj.spec = worker.obj.spec /\ worker'.step = "cloud"
      BY <1>2, <2>1, <2>2, MovesFields DEF Moves, new
    <2>6. Building("cloud", worker'.obj, worker'.all)
      BY <1>2, <2>1, <2>3, <2>5 DEF Building, ForwardSteps, EndsReady
    <2>7. ApplyInv'
      BY <2>5 DEF ApplyInv, EndsReady
    <2>8. FRRIsOwned' /\ ReadyIsApplied'
      BY <1>1, FRRStays
    <2> QED
      BY <1>1, <1>2, <2>4, <2>6, <2>7, <2>8, PhaseStep DEF ForwardSteps, new
  <1> QED
    BY <1>1, <1>2, ListMoves, UnreconciledStep DEF IInv

LEMMA ReconcileStep == ASSUME IInv, TypeOK', ReconcileNodes PROVE IInv'
  <1>1. worker.step = "cloud" /\ worker.step \in ForwardSteps /\ UNCHANGED apiVars /\ frr' = frr
    BY DEF ReconcileNodes, ForwardSteps
  <1>2. ASSUME NEW ph \in {"Ready", "Configuring", "Degraded"}, ph = "Ready" => worker.all,
               Moves("status", [ReconciledStatus(worker.obj.status, worker.all) EXCEPT !.phase = ph])
        PROVE  IInv'
    <2> DEFINE st == worker.obj.status
               done == ReconciledStatus(st, worker.all)
               new == [done EXCEPT !.phase = ph]
    <2>1. /\ worker \in Reconciles /\ worker.obj \in Objects
          /\ st \in Statuses /\ SoundStatus(st) /\ worker.step # "idle"
          /\ Building("cloud", worker.obj, worker.all)
      BY <1>1, PhaseFields
    <2>2. done \in Statuses
      BY <2>1, SpecsAssumption, StatusTypes, Zenon DEF ReconciledStatus
    <2>3. /\ done.patched = st.patched /\ done.frrReady = st.frrReady
          /\ done.discovered = st.discovered /\ done.applied = st.applied
          /\ done.inventory = st.inventory /\ done.observed = st.observed
          /\ worker.all => done.reconciled = "Reconciled"
      <3>1. CASE worker.all
        BY <2>1, <3>1, Zenon DEF ReconciledStatus, Statuses
      <3>2. CASE ~worker.all
        BY <2>1, <3>2, Zenon DEF ReconciledStatus, Statuses
      <3> QED
        BY <3>1, <3>2
    <2> HIDE DEF done
    <2>4. /\ new \in Statuses /\ new.phase = ph
          /\ new.patched = st.patched /\ new.frrReady = st.frrReady
          /\ new.discovered = st.discovered /\ new.applied = st.applied
          /\ new.inventory = st.inventory /\ new.observed = st.observed
          /\ worker.all => new.reconciled = "Reconciled"
      <3>1. new \in Statuses
        BY <2>2, SpecsAssumption, StatusTypes, Zenon
      <3> QED
        BY <2>2, <2>3, <3>1, Zenon DEF Statuses
    <2> HIDE DEF new
    <2>5. st.discovered = "Discovered" /\ worker.obj.spec.platform # "Manual"
      BY <2>1 DEF Building
    <2>6. SoundStatus(new)
      BY <2>4, <2>5 DEF SoundStatus
    <2>7. StoreInv' /\ CopyInv'
      <3>1. Follows("cloud", "status")
        BY DEF Follows, ForwardSteps, DeletionSteps
      <3> QED
        BY <1>1, <1>2, <2>1, <2>6, <3>1, CopyMoves DEF new, done
    <2>8. /\ worker'.obj.status = new /\ worker'.obj.generation = worker.obj.generation
          /\ worker'.obj.spec = worker.obj.spec /\ worker'.step = "status"
      BY <1>2, <2>1, <2>4, MovesFields DEF Moves, new, done
    <2>9. EndsReady(worker'.step, worker'.obj) => GoodConditions(worker'.obj)
      BY <1>2, <2>1, <2>4, <2>5, <2>8, Zenon DEF EndsReady, Building, ForwardSteps, GoodConditions
    <2>10. BuildInv'
      BY <2>1, <2>4, <2>8, <2>9 DEF BuildInv, Building, ForwardSteps
    <2>11. HoldInv' /\ ApplyInv'
      BY <2>5, <2>8 DEF HoldInv, ApplyInv, ForwardSteps
    <2>12. FRRIsOwned' /\ ReadyIsApplied'
      BY <1>1, FRRStays
    <2> QED
      BY <2>7, <2>10, <2>11, <2>12 DEF IInv, WorkerInv
  <1> QED
    BY <1>1, <1>2, ReconcileMoves, UnreconciledStep DEF IInv


LEMMA RoutingsStep == ASSUME IInv, TypeOK', CheckRoutings PROVE IInv'
  <1> DEFINE st == worker.obj.status
             new == Blocked(st)
  <1>1. /\ worker.step = "routings" /\ worker.step # "idle" /\ worker.step \in DeletionSteps
        /\ UNCHANGED apiVars /\ frr' = frr
    BY DEF CheckRoutings, DeletionSteps
  <1>2. FRRIsOwned' /\ ReadyIsApplied'
    BY <1>1, FRRStays
  <1>3. st \in Statuses /\ worker.obj.deleting /\ Sound(worker.obj)
    BY <1>1, BusyType DEF IInv, WorkerInv, CopyInv
  <1>4. CASE Moves("status", new)
    <2>0. new \in Statuses
      BY <1>3, SpecsAssumption, StatusTypes, Zenon
    <2>1. /\ new.reconciled = st.reconciled /\ new.discovered = st.discovered
          /\ new.observed = st.observed
      BY <1>3, Zenon DEF Blocked, Statuses
    <2> HIDE DEF new
    <2>2. SoundStatus(new)
      BY <1>3, <2>0, <2>1 DEF SoundStatus, Sound
    <2> QED
      BY <1>1, <1>2, <1>3, <1>4, <2>2, EndStep
  <1>5. ASSUME NEW s \in {"deleteFRR", "cleanup"}, Moves(s, st) PROVE IInv'
    BY <1>1, <1>2, <1>5, DeletionStep DEF DeletionSteps
  <1> QED
    BY <1>4, <1>5, RoutingsMoves DEF IInv

LEMMA CleanupStep == ASSUME IInv, TypeOK', CleanupCloud PROVE IInv'
  <1>1. worker.step \in DeletionSteps /\ UNCHANGED apiVars /\ frr' = frr
    BY DEF CleanupCloud, DeletionSteps
  <1>2. FRRIsOwned' /\ ReadyIsApplied'
    BY <1>1, FRRStays
  <1>3. CASE Moves("deleteFRR", worker.obj.status)
    BY <1>1, <1>2, <1>3, DeletionStep DEF DeletionSteps
  <1>4. CASE worker' = Idle
    BY <1>1, <1>4, StillForward, QuietStep
  <1> QED
    BY <1>3, <1>4, CleanupMoves DEF IInv

\* While the FRRConfigurations are deleted, the store cannot be Ready.
LEMMA DeleteStep == ASSUME IInv, TypeOK', DeleteFRRConfigurations PROVE IInv'
  <1>1. /\ worker.step = "deleteFRR" /\ worker.step # "idle" /\ worker.step \in DeletionSteps
        /\ UNCHANGED apiVars
    BY DEF DeleteFRRConfigurations, DeletionSteps
  <1>2. worker.obj.deleting
    BY <1>1 DEF IInv, WorkerInv, CopyInv
  <1>3. ~ReadyNow /\ ~ReadyNow'
    <2>1. ~ReadyNow
      BY <1>1, <1>2, ReadySpec
    <2> QED
      BY <1>1, <2>1 DEF ReadyNow, apiVars
  <1>4. \A j \in 1..MaxGroups : frr[j] = "none" => frr'[j] = "none"
    BY DeleteMoves DEF IInv, TypeOK
  <1>5. FRRIsOwned'
    BY <1>1, <1>4 DEF IInv, FRRIsOwned, apiVars
  <1>6. ReadyIsApplied'
    BY <1>3 DEF ReadyIsApplied
  <1>7. StoreInv'
    BY <1>1, StillForward, StoreKeeps DEF IInv
  <1>8. CASE Moves("removeFinalizer", worker.obj.status) /\ frr' = frr
             /\ \A i \in 1..MaxGroups : frr[i] = "none"
    BY <1>1, <1>5, <1>6, <1>8, DeletionStep DEF DeletionSteps
  <1>9. CASE worker' = Idle
    BY <1>5, <1>6, <1>7, <1>9, WorkerIdle DEF IInv
  <1>10. CASE worker' = worker
    <2>1. CopyInv' /\ BuildInv'
      BY <1>1, <1>10 DEF IInv, WorkerInv, CopyInv, BuildInv, apiVars, ReadyNow, Current
    <2>2. HoldInv' /\ ApplyInv'
      BY <1>1, <1>10 DEF HoldInv, ApplyInv, ForwardSteps, EndsReady
    <2> QED
      BY <1>5, <1>6, <1>7, <2>1, <2>2 DEF IInv, WorkerInv
  <1> QED
    BY <1>8, <1>9, <1>10, DeleteMoves DEF IInv

-----------------------------------------------------------------------------
(* The steps of a reconcile that write the object.                         *)

\* The copy with which the phases start.
LEMMA StartedFields ==
  ASSUME NEW o \in Objects, NEW n \in Nat, NEW w,
         w = Started(o) \/ w = [Started(o) EXCEPT !.rv = n]
  PROVE  /\ w \in Objects
         /\ w.exists = o.exists /\ w.uid = o.uid /\ w.generation = o.generation
         /\ w.spec = o.spec /\ w.deleting = o.deleting /\ w.finalizer
         /\ w.status.phase = "Configuring" /\ w.status.observed = o.generation
         /\ w.status.reconciled = o.status.reconciled
         /\ w.status.discovered = o.status.discovered
         /\ w = Started(o) => w.rv = o.rv
         /\ w = [Started(o) EXCEPT !.rv = n] => w.rv = n
  <1> DEFINE st == [o.status EXCEPT !.phase = "Configuring", !.observed = o.generation]
             s == Started(o)
  <1>1. /\ o.status \in Statuses
        /\ st.phase = "Configuring" /\ st.observed = o.generation
        /\ st.reconciled = o.status.reconciled /\ st.discovered = o.status.discovered
    BY Zenon DEF Objects, Statuses
  <1>2. s \in Objects
    BY StartedType
  <1>3. s = [o EXCEPT !.finalizer = TRUE, !.status = st]
    BY DEF Started
  <1> HIDE DEF st, s
  <1>4. /\ s.exists = o.exists /\ s.uid = o.uid /\ s.generation = o.generation
        /\ s.spec = o.spec /\ s.deleting = o.deleting /\ s.finalizer /\ s.status = st
        /\ s.rv = o.rv
    BY <1>3 DEF Objects
  <1>5. CASE w = s
    BY <1>1, <1>2, <1>4, <1>5 DEF s, Objects
  <1>6. CASE w = [s EXCEPT !.rv = n]
    <2>1. w \in Objects
      BY <1>2, <1>6, SpecsAssumption, ObjectType, Zenon
    <2>2. /\ w.exists = s.exists /\ w.uid = s.uid /\ w.generation = s.generation
          /\ w.spec = s.spec /\ w.deleting = s.deleting /\ w.finalizer = s.finalizer
          /\ w.status = s.status /\ w.rv = n
      BY <1>2, <1>6 DEF Objects
    <2>3. w = s => w.rv = o.rv
      BY <1>4
    <2> QED
      BY <1>1, <1>4, <2>1, <2>2, <2>3 DEF s
  <1> QED
    BY <1>5, <1>6 DEF s

\* Writing the finalizer on the version the worker read.
LEMMA FinalizerForward ==
  ASSUME IInv, TypeOK', worker.step = "finalizer", ~worker.obj.finalizer, Current(worker.obj),
         Write([worker.obj EXCEPT !.finalizer = TRUE])
  PROVE  /\ Forward /\ worker.obj = store
         /\ store'.exists /\ store'.uid = store.uid /\ store'.rv = store.rv + 1
         /\ store'.generation = store.generation /\ store'.spec = store.spec
         /\ store'.deleting = store.deleting /\ store'.finalizer
         /\ store'.status = store.status
         /\ cache' = cache
  <1>1. worker.obj = store /\ store.exists
    BY DEF IInv, WorkerInv, CopyInv, Current
  <1> DEFINE p == [store EXCEPT !.finalizer = TRUE]
             o == [p EXCEPT !.rv = @ + 1]
  <1>2. store \in Objects
    BY StoreFields
  <1>3. /\ p \in Objects
        /\ p.exists = store.exists /\ p.uid = store.uid /\ p.rv = store.rv
        /\ p.generation = store.generation /\ p.spec = store.spec
        /\ p.deleting = store.deleting /\ p.finalizer /\ p.status = store.status
    BY <1>2 DEF Objects
  <1>4. Put(o)
    BY <1>1 DEF Write
  <1> HIDE DEF p
  <1>5. /\ o \in Objects
        /\ o.exists = store.exists /\ o.uid = store.uid /\ o.rv = store.rv + 1
        /\ o.generation = store.generation /\ o.spec = store.spec
        /\ o.deleting = store.deleting /\ o.finalizer /\ o.status = store.status
    BY <1>2, <1>3, WriteFields
  <1> HIDE DEF o
  <1>6. Precedes(store, o) /\ Keeps(store, o)
    BY <1>1, <1>5, StoreFields DEF Precedes, Keeps
  <1>7. Sound(o) /\ NotNewlyReady(store, o)
    BY <1>5, StoreFields DEF Sound, NotNewlyReady, IsReady
  <1>8. Forward
    BY <1>4, <1>5, <1>6, <1>7, PutForward
  <1>9. store' = o /\ cache' = cache
    BY <1>4 DEF Put
  <1> QED
    BY <1>1, <1>5, <1>8, <1>9

\* The worker enters the phases with a copy of the stored object that has the
\* finalizer.
LEMMA StartStep ==
  ASSUME IInv, Forward, frr' = frr, worker.step = "finalizer",
         NEW n \in Nat, NEW w, w = Started(worker.obj) \/ w = [Started(worker.obj) EXCEPT !.rv = n],
         worker' = [worker EXCEPT !.step = "patch", !.obj = w],
         Holds(worker.obj)', FromCache(w, cache'), Behind(w, store')
  PROVE  IInv'
  <1>0. worker.step # "idle"
    OBVIOUS
  <1>1. worker \in Reconciles /\ worker.obj \in Objects /\ worker.next = 1
    BY <1>0, BusyType DEF IInv, WorkerInv, ApplyInv
  <1>2. /\ w.exists = worker.obj.exists /\ w.uid = worker.obj.uid
        /\ w.generation = worker.obj.generation /\ w.deleting = worker.obj.deleting
        /\ w.status.phase = "Configuring" /\ w.status.observed = w.generation
        /\ w.status.reconciled = worker.obj.status.reconciled
        /\ w.status.discovered = worker.obj.status.discovered
        /\ w \in Objects
    BY <1>1, StartedFields
  <1>3. worker'.step = "patch" /\ worker'.obj = w /\ worker'.next = 1
    BY <1>1 DEF Reconciles
  <1>4. StoreInv' /\ FRRIsOwned' /\ ReadyIsApplied'
    BY StoreKeeps, FRRKeeps DEF IInv
  <1>5. CopyInv'
    <2>1. /\ worker.obj.exists /\ Sound(worker.obj) /\ ~worker.obj.deleting
          /\ ReadyNow => worker.obj.uid = store.uid /\ worker.obj.generation = store.generation
      BY <1>0 DEF IInv, WorkerInv, CopyInv
    <2>2. w.status.observed <= w.generation
      BY <1>2 DEF Objects
    <2>3. Sound(w)
      BY <1>2, <2>1, <2>2 DEF Sound
    <2>4. ReadyNow' => w.uid = store'.uid /\ w.generation = store'.generation
      BY <1>2, <2>1 DEF ReadyNow, Forward, NotNewlyReady, IsReady
    <2> QED
      BY <1>2, <1>3, <2>1, <2>3, <2>4 DEF CopyInv, Sound, DeletionSteps, ForwardSteps
  <1>6. HoldInv'
    <2>1. Holds(worker.obj)' => store'.exists /\ store'.uid = worker'.obj.uid /\ store'.finalizer
      BY DEF Holds
    <2> QED
      BY <1>3, <2>1 DEF HoldInv, Holds
  <1>7. BuildInv' /\ ApplyInv'
    BY <1>2, <1>3 DEF BuildInv, Building, ForwardSteps, EndsReady, ApplyInv
  <1> QED
    BY <1>4, <1>5, <1>6, <1>7 DEF IInv, WorkerInv, Forward

LEMMA FinalizerStep == ASSUME IInv, TypeOK', EnsureFinalizer PROVE IInv'
  <1> DEFINE o == worker.obj
  <1>1. worker.step = "finalizer" /\ worker.step # "idle" /\ frr' = frr
    BY DEF EnsureFinalizer
  <1>2. /\ o \in Objects /\ o.exists /\ ~o.deleting /\ Protected(o) /\ o.rv \in Nat
        /\ FromCache(o, cache) /\ Behind(o, store) /\ worker \in Reconciles
    BY <1>1, BusyType DEF IInv, WorkerInv, CopyInv, HoldInv, Objects
  <1>3. CASE /\ o.finalizer /\ UNCHANGED apiVars
             /\ worker' = [worker EXCEPT !.step = "patch", !.obj = Started(o)]
    <2> DEFINE w == Started(o)
    <2>1. /\ w.uid = o.uid /\ w.generation = o.generation /\ w.rv = o.rv /\ w.spec = o.spec
          /\ w.deleting = o.deleting /\ w.finalizer
      BY <1>2, StartedFields
    <2>2. worker'.obj = w
      BY <1>2, <1>3 DEF Reconciles
    <2> HIDE DEF w
    <2>3. Forward
      BY <1>3, StillForward
    <2>4. Holds(worker.obj)'
      BY <1>2, <1>3, <2>1, <2>2 DEF Protected, Holds, apiVars
    <2>5. FromCache(w, cache') /\ Behind(w, store')
      BY <1>2, <1>3, <2>1 DEF FromCache, Behind, apiVars
    <2>6. worker' = [worker EXCEPT !.step = "patch", !.obj = w] /\ w = Started(worker.obj)
      BY <1>3 DEF w
    <2> QED
      BY <1>1, <1>2, <2>3, <2>4, <2>5, <2>6, StartStep, Zenon
  <1>4. CASE /\ ~o.finalizer /\ Current(o) /\ Write([o EXCEPT !.finalizer = TRUE])
             /\ worker' = [worker EXCEPT !.step = "patch",
                              !.obj = [Started(o) EXCEPT !.rv = o.rv + 1]]
    <2> DEFINE w == [Started(o) EXCEPT !.rv = o.rv + 1]
    <2>0. o.rv + 1 \in Nat
      BY <1>2
    <2>1. /\ w.uid = o.uid /\ w.generation = o.generation /\ w.spec = o.spec
          /\ w.deleting = o.deleting /\ w.finalizer /\ w.rv = o.rv + 1
      BY <1>2, <2>0, StartedFields
    <2>2. worker'.obj = w
      BY <1>2, <1>4 DEF Reconciles
    <2>6. worker' = [worker EXCEPT !.step = "patch", !.obj = w]
          /\ w = [Started(worker.obj) EXCEPT !.rv = o.rv + 1]
      BY <1>4
    <2> HIDE DEF w
    <2>3. /\ Forward /\ o = store
          /\ store'.exists /\ store'.uid = store.uid /\ store'.rv = store.rv + 1
          /\ store'.generation = store.generation /\ store'.spec = store.spec
          /\ store'.deleting = store.deleting /\ store'.finalizer /\ cache' = cache
      BY <1>1, <1>4, FinalizerForward
    <2>4. Holds(worker.obj)'
      BY <2>1, <2>2, <2>3 DEF Holds
    <2>5. FromCache(w, cache') /\ Behind(w, store')
      BY <1>2, <2>1, <2>3, StoreFields DEF FromCache, Behind
    <2> QED
      BY <1>1, <2>0, <2>3, <2>4, <2>5, <2>6, StartStep, Zenon
  <1>5. CASE worker' = Idle /\ UNCHANGED apiVars
    BY <1>1, <1>5, StillForward, QuietStep
  <1>6. CASE /\ worker' = Idle /\ ~o.finalizer /\ Current(o)
             /\ Write([o EXCEPT !.finalizer = TRUE])
    BY <1>1, <1>6, FinalizerForward, QuietStep
  <1> QED
    BY <1>3, <1>4, <1>5, <1>6, FinalizerMoves DEF IInv

\* A status write makes the object Ready only with the conditions that the
\* reconcile of its present spec has established.
LEMMA PatchStatusStep == ASSUME IInv, TypeOK', PatchConfigStatus PROVE IInv'
  <1> DEFINE o == worker.obj
             t == [o EXCEPT !.rv = @ + 1]
  <1>1. worker.step = "status" /\ worker.step # "idle" /\ frr' = frr /\ worker' = Idle
    BY PatchStatusMoves DEF PatchConfigStatus, IInv
  <1>2. CASE UNCHANGED apiVars
    BY <1>1, <1>2, StillForward, QuietStep
  <1>3. CASE Current(o) /\ Write(o)
    <2>1. /\ o \in Objects /\ o.exists /\ Sound(o) /\ FromCache(o, cache) /\ Behind(o, store)
      BY <1>1, BusyType DEF IInv, WorkerInv, CopyInv
    <2>2. /\ store \in Objects /\ cache \in Objects /\ store.exists
          /\ store.uid = o.uid /\ store.rv = o.rv
      BY <1>3, StoreFields DEF Current
    <2>3. /\ o.generation = store.generation /\ o.deleting = store.deleting
          /\ o.finalizer = store.finalizer /\ o.spec = store.spec
      BY <2>1, <2>2 DEF Behind, Objects
    <2>4. Put(t)
      BY <1>3 DEF Write
    <2>5. /\ t \in Objects /\ t.exists /\ t.uid = store.uid /\ t.rv = store.rv + 1
          /\ t.generation = store.generation /\ t.spec = store.spec
          /\ t.deleting = store.deleting /\ t.finalizer = store.finalizer
          /\ t.status = o.status /\ t.generation = o.generation
      BY <2>1, <2>2, <2>3 DEF Objects
    <2> HIDE DEF t
    <2>6. Precedes(store, t) /\ Keeps(store, t)
      BY <2>2, <2>5 DEF Precedes, Keeps, Objects
    <2>7. Sound(t)
      BY <2>1, <2>5 DEF Sound
    <2>8. CASE ~EndsReady("status", o)
      <3>1. NotNewlyReady(store, t)
        BY <2>3, <2>5, <2>8 DEF NotNewlyReady, IsReady, EndsReady
      <3> QED
        BY <1>1, <2>4, <2>5, <2>6, <2>7, <3>1, PutForward, QuietStep
    <2>9. CASE EndsReady("status", o)
      <3>1. /\ WatchInv' /\ Versions' \subseteq Versions \cup {store'}
            /\ store' = t /\ cache' = cache
        BY <2>4, <2>5, <2>6, PutWatch DEF IInv, StoreInv
      <3>2. VersionsInv'
        <4> SUFFICES ASSUME NEW v \in Versions' PROVE Sound(v) /\ Protected(v)'
          BY DEF VersionsInv, Sound
        <4>1. CASE v \in Versions
          BY <2>6, <3>1, <4>1 DEF IInv, StoreInv, VersionsInv, Protected, Holds, Keeps
        <4>2. CASE v = store'
          BY <2>5, <2>7, <3>1, <4>2 DEF Protected, Holds
        <4> QED
          BY <3>1, <4>1, <4>2
      <3>3. SeenInv'
        <4>1. Precedes(cache, store)
          BY CachePrecedes DEF IInv, StoreInv
        <4>2. cache.exists /\ cache.uid = store.uid /\ cache.generation = store.generation
          BY <2>1, <2>2, <2>3, <4>1 DEF Precedes, FromCache, Objects
        <4> QED
          BY <2>5, <3>1, <4>2 DEF SeenInv
      <3>4. GoodConditions(o)
        BY <1>1, <2>9 DEF IInv, WorkerInv, BuildInv, Building
      <3>5. ReadyInv'
        BY <2>3, <2>5, <3>1, <3>4, Zenon DEF ReadyInv, GoodConditions
      <3>6. FRRIsOwned'
        BY <1>1, <2>2, <2>6, <3>1 DEF IInv, FRRIsOwned, Keeps
      <3>7. ReadyIsApplied'
        <4>1. "drift" \notin Disturbances /\ o.spec.platform = "Manual" => Configured(o.spec.groups)
          BY <1>1, <2>9 DEF IInv, WorkerInv, ApplyInv
        <4> QED
          BY <1>1, <2>3, <2>5, <3>1, <4>1 DEF ReadyIsApplied, Configured
      <3> QED
        BY <1>1, <3>1, <3>2, <3>3, <3>5, <3>6, <3>7, WorkerIdle DEF IInv, StoreInv
    <2> QED
      BY <2>8, <2>9
  <1> QED
    BY <1>2, <1>3, PatchStatusMoves DEF IInv

\* Once the finalizer goes, no version the watch has still to deliver can start
\* another apply: all of them are marked deleted.
LEMMA RemoveStep == ASSUME IInv, TypeOK', RemoveFinalizer PROVE IInv'
  <1> DEFINE o == worker.obj
             g == Gone(store.uid)
  <1>1. /\ worker.step = "removeFinalizer" /\ worker.step # "idle"
        /\ frr' = frr /\ worker' = Idle
    BY RemoveMoves DEF RemoveFinalizer, IInv
  <1>2. CASE UNCHANGED apiVars
    BY <1>1, <1>2, StillForward, QuietStep
  <1>3. CASE Current(o) /\ Put(g)
    <2>1. /\ o \in Objects /\ o.deleting /\ FromCache(o, cache)
          /\ \A i \in 1..MaxGroups : frr[i] = "none"
      BY <1>1, BusyType DEF IInv, WorkerInv, CopyInv, HoldInv, DeletionSteps
    <2>2. /\ store \in Objects /\ cache \in Objects /\ store.exists /\ store.uid = o.uid
          /\ store.uid \in Nat
      BY <1>3, StoreFields DEF Current
    <2>3. g \in Objects /\ ~g.exists /\ g.uid = store.uid /\ Sound(g)
      BY <2>2, GoneType, GoneFields
    <2>4. Put(g)
      BY <1>3
    <2> HIDE DEF g
    <2>5. Precedes(store, g)
      BY <2>2, <2>3 DEF Precedes
    <2>6. /\ WatchInv' /\ Versions' \subseteq Versions \cup {store'}
          /\ store' = g /\ cache' = cache
      BY <2>3, <2>4, <2>5, PutWatch DEF IInv, StoreInv
    <2>7. VersionsInv'
      <3> SUFFICES ASSUME NEW v \in Versions' PROVE Sound(v) /\ Protected(v)'
        BY DEF VersionsInv, Sound
      <3>1. CASE v \in Versions
        <4>1. Sound(v) /\ v \in Objects /\ Precedes(cache, v) /\ Precedes(v, store) /\ Protected(v)
          BY <3>1, VersionType, CachePrecedes DEF IInv, StoreInv, VersionsInv
        <4>2. v.exists /\ v.finalizer => v.deleting
          <5> SUFFICES ASSUME v.exists, v.finalizer, ~v.deleting PROVE FALSE
            OBVIOUS
          <5>1. v.uid = store.uid
            BY <4>1 DEF Protected, Holds
          <5> QED
            BY <2>1, <2>2, <4>1, <5>1 DEF Precedes, FromCache, Objects
        <4> QED
          BY <4>1, <4>2 DEF Protected
      <3>2. CASE v = store'
        BY <2>3, <2>6, <3>2 DEF Protected
      <3> QED
        BY <2>6, <3>1, <3>2
    <2>8. ~ReadyNow' /\ FRRIsOwned'
      BY <1>1, <2>1, <2>3, <2>6 DEF ReadyNow, FRRIsOwned
    <2>9. SeenInv' /\ ReadyInv' /\ ReadyIsApplied'
      BY <2>8 DEF SeenInv, ReadyInv, ReadyIsApplied
    <2> QED
      BY <1>1, <2>6, <2>7, <2>8, <2>9, WorkerIdle DEF IInv, StoreInv
  <1> QED
    BY <1>2, <1>3, RemoveMoves DEF IInv

-----------------------------------------------------------------------------
(* The invariant and the theorems.                                         *)

LEMMA InitInv == Init => IInv
  <1> SUFFICES ASSUME Init PROVE IInv
    OBVIOUS
  <1>1. TypeOK
    BY TypeInit
  <1>2. /\ store = Gone(0) /\ cache = Gone(0) /\ views = <<>> /\ worker = Idle
        /\ frr = [i \in 1..MaxGroups |-> "none"]
    BY DEF Init
  <1>3. ~store.exists /\ Sound(store) /\ store \in Objects
    BY <1>1, <1>2, GoneFields DEF TypeOK
  <1>4. Len(views) = 0 /\ \A i \in 0..Len(views) : View(cache, views, i) = store
    BY <1>2 DEF View
  <1>5. Versions = {store}
    BY <1>4 DEF Versions
  <1>6. WatchInv
    BY <1>3, <1>4, PrecedesReflexive DEF WatchInv
  <1>7. VersionsInv /\ SeenInv /\ ReadyInv
    BY <1>3, <1>5 DEF VersionsInv, SeenInv, ReadyInv, Protected, ReadyNow
  <1>8. WorkerInv
    <2>1. worker.step = "idle"
      BY <1>2, IdleFields
    <2> QED
      BY <2>1 DEF WorkerInv, CopyInv, HoldInv, BuildInv, ApplyInv, ForwardSteps, EndsReady
  <1>9. FRRIsOwned /\ ReadyIsApplied
    BY <1>2, <1>3 DEF FRRIsOwned, ReadyIsApplied, ReadyNow
  <1> QED
    BY <1>1, <1>6, <1>7, <1>8, <1>9 DEF IInv, StoreInv

\* Steps that touch neither the objects nor what the worker has written.
LEMMA ElsewhereStep ==
  ASSUME IInv, TypeOK',
         \/ RoutingsChange \/ NodeChanges \/ CredentialsChange \/ PlanChanges
         \/ FRRStarts \/ FRRStops \/ DeliverRoutings \/ TimerFires \/ UNCHANGED vars
  PROVE  IInv'
  <1>1. UNCHANGED apiVars /\ frr' = frr /\ worker' = worker
    BY Zenon DEF RoutingsChange, NodeChanges, CredentialsChange, PlanChanges, FRRStarts, FRRStops,
           DeliverRoutings, TimerFires, vars, apiVars
  <1> QED
    BY <1>1, StillForward, QuietStep

LEMMA StepInv == IInv /\ [Next]_vars => IInv'
  <1> SUFFICES ASSUME IInv, [Next]_vars PROVE IInv'
    OBVIOUS
  <1>0. TypeOK'
    BY TypeStep DEF IInv
  <1>1. CASE CreateConfig \/ EditConfig \/ DeleteConfig \/ DeliverView
    <2>1. Forward
      BY <1>0, <1>1, CreateForward, EditForward, DeleteForward, DeliverForward
    <2>2. frr' = frr /\ worker' = worker
      BY <1>1, Zenon DEF CreateConfig, EditConfig, DeleteConfig, DeliverView
    <2> QED
      BY <2>1, <2>2, QuietStep
  <1>2. CASE Restart
    <2>1. frr' = frr /\ worker' = Idle
      BY <1>2 DEF Restart
    <2> QED
      BY <1>0, <1>2, <2>1, RestartForward, QuietStep
  <1>3. CASE FRRDrifts
    BY <1>0, <1>3, DriftStep
  <1>4. CASE TimePasses
    BY <1>0, <1>4, TimeStep
  <1>5. CASE GetConfig
    BY <1>0, <1>5, GetStep
  <1>6. CASE Reconcile
    <2>1. CASE EnsureFinalizer
      BY <1>0, <2>1, FinalizerStep
    <2>2. CASE PatchNetworkOperator
      BY <1>0, <2>2, PatchStep
    <2>3. CASE IsFRRReady
      BY <1>0, <2>3, FRRStep
    <2>4. CASE BuildPlatform
      BY <1>0, <2>4, BuildStep
    <2>5. CASE DiscoverEndpoints
      BY <1>0, <2>5, DiscoverStep
    <2>6. CASE EnsureFRRConfiguration
      BY <1>0, <2>6, EnsureStep
    <2>7. CASE PruneFRRConfigurations
      BY <1>0, <2>7, PruneStep
    <2>8. CASE ListRouterNodes
      BY <1>0, <2>8, ListStep
    <2>9. CASE ReconcileNodes
      BY <1>0, <2>9, ReconcileStep
    <2>10. CASE PatchConfigStatus
      BY <1>0, <2>10, PatchStatusStep
    <2>11. CASE CheckRoutings
      BY <1>0, <2>11, RoutingsStep
    <2>12. CASE CleanupCloud
      BY <1>0, <2>12, CleanupStep
    <2>13. CASE DeleteFRRConfigurations
      BY <1>0, <2>13, DeleteStep
    <2>14. CASE RemoveFinalizer
      BY <1>0, <2>14, RemoveStep
    <2> QED
      BY <1>6, <2>1, <2>2, <2>3, <2>4, <2>5, <2>6, <2>7, <2>8, <2>9, <2>10, <2>11, <2>12,
         <2>13, <2>14 DEF Reconcile
  <1>7. CASE \/ RoutingsChange \/ NodeChanges \/ CredentialsChange \/ PlanChanges
             \/ FRRStarts \/ FRRStops \/ DeliverRoutings \/ TimerFires \/ UNCHANGED vars
    BY <1>0, <1>7, ElsewhereStep
  <1> QED
    BY <1>1, <1>2, <1>3, <1>4, <1>5, <1>6, <1>7 DEF Next, Environment

\* The inductive invariant holds in every reachable state.
THEOREM Invariance == Spec => []IInv
  <1>1. Init => IInv
    BY InitInv
  <1>2. IInv /\ [Next]_vars => IInv'
    BY StepInv
  <1> QED
    BY <1>1, <1>2, PTL DEF Spec

\* The finalizer protects the FRRConfigurations: through failed calls, lost
\* replies, restarts, and deletion and re-creation of the object however late the
\* cache sees them, EnsureFRRConfiguration writes none that the stored object's
\* finalizer does not cover, and RemoveFinalizer leaves none behind.
THEOREM ConfigurationsAreOwned == Spec => []FRRIsOwned
  <1>1. IInv => FRRIsOwned
    BY DEF IInv
  <1> QED
    BY <1>1, Invariance, PTL

\* While a Manual configuration is Ready for its spec, the FRRConfigurations are
\* those of that spec, for any number of groups: no reconcile started from an
\* older cached spec writes or prunes anything after the status became Ready.
THEOREM ReadyApplied == Spec => []ReadyIsApplied
  <1>1. IInv => ReadyIsApplied
    BY DEF IInv
  <1> QED
    BY <1>1, Invariance, PTL

\* A configuration that is Ready for its spec has the conditions that go with its
\* platform, all of them True, and none of a platform it had before.
THEOREM ReadyWithoutFailure == Spec => []ReadyHasNoFailure
  <1>1. IInv => ReadyHasNoFailure
    <2> SUFFICES ASSUME IInv, ReadyNow PROVE ReadyHasNoFailure
      BY Zenon DEF ReadyHasNoFailure
    <2>1. GoodConditions(store)
      BY DEF IInv, StoreInv, ReadyInv
    <2> QED
      BY <2>1, Zenon DEF GoodConditions, ReadyHasNoFailure
  <1> QED
    BY <1>1, Invariance, PTL

\* No status reports the cloud's peers reconciled beside a failed discovery: the
\* conditions of phase 5 are dropped whenever phase 3 fails.
THEOREM ConditionsAgree == Spec => []CloudConditionsAgree
  <1>1. IInv => CloudConditionsAgree
    BY StoreFields DEF Sound, CloudConditionsAgree
  <1> QED
    BY <1>1, Invariance, PTL
=============================================================================
