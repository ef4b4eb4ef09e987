# A TLA+ development for the BGP cloud connector

The operator connects the user-defined networks of an OpenShift cluster to the
routers of a cloud over BGP. This directory models its two controllers, its three
cloud platforms and its handling of AWS credentials in TLA+, checks them with TLC on
small instances, and proves with TLAPS every safety property that a passing run checks,
among them that the Azure and GCP platforms implement the platform interface.

Paths are relative to `src/` unless they start with `src/`. "Configuration" is the
singleton `BGPCloudConfiguration`, "routing" a `BGPRouting` object, CUDN a
`ClusterUserDefinedNetwork`, RA the one shared `RouteAdvertisements`.

## 1. Inventory

| component | source | state | operations |
|---|---|---|---|
| BGPRouting controller | `internal/controller/bgprouting_controller.go`, `clusterudn.go`, `routeadvertisements.go` | routings (spec, finalizer, status) in the API server; an informer cache; a work queue; one CUDN per network name; the RA | `Reconcile`, `reconcileDelete`, `mapConfigToRoutings`/`enqueueAllRoutings`, `mapClusterUDNToRouting` |
| BGPCloudConfiguration controller | `internal/controller/bgpcloudconfiguration_controller.go` | the configuration; cache; queue; the conditions kept in its status | five phases of `Reconcile`, `completeReconcile`, `reconcileDelete`, watches of nodes and routings |
| FRR rendering | `internal/controller/frr.go` | one `FRRConfiguration` per peer group, named by position | `EnsureFRRConfigurations`, prune, `DeleteFRRConfigurations`, `createOrUpdate`, `specSatisfied` |
| Network operator patch | `internal/controller/network_operator.go` | the cluster's `Network` operator object | `PatchNetworkOperator`, `IsFRRReady` |
| Status writing | `internal/controller/status.go`, `constants.go` | baseline status of a reconcile | `patchConfigStatus`, `patchRoutingStatus`, terminal reasons |
| Platform interface | `internal/platform/platform.go` | none | `DiscoverEndpoints`, `ReconcileNodes`, `Cleanup` |
| AWS platform | `internal/platform/aws/*.go` | Route Server peers in EC2 with the managed-by tag; source/dest check of interfaces; a gauge | `ReconcileNodes`, `Cleanup`, discovery |
| AWS credentials | `internal/platform/aws/credentials.go`, `aws.go` | the CredentialsRequest, the secret written in answer, a file with its temporaries | `ResolveCredentials`: ambient credentials, `reconcileCredentialsRequest`, secret, `writeCredentialsFile`; load and `GetCallerIdentity` in `newPlatform` |
| Azure platform | `internal/platform/azure/*.go` | peerings of a Route Server that others use, told apart by name; IP forwarding of interfaces; a gauge | `ReconcileNodes`, `Cleanup`: two lists, merge, `ReconcilePeers`, count |
| GCP platform | `internal/platform/gcp/*.go` | peers of a Cloud Router that others use, one field; numbered NCC spokes; canIpForward and nested virtualization of instances; a gauge | `ReconcileNodes`, `Cleanup`: instance by instance, spoke by spoke, read, merge and wholesale write of the peers |
| Manager | `cmd/main.go`, `internal/controller/cache.go` | none | start-up, cache options |
| API types | `api/v1beta1` | schema | generated copying, validation by the API server |

How they interact. Both controllers are controller-runtime reconcilers: an event of
a watch, a `RequeueAfter` or a rate-limited retry puts a key in a queue, and one
worker takes keys. Typed objects are read from an informer cache, which is some
earlier version of the API server; unstructured objects (CUDN, RA,
FRRConfiguration, Network) are read and written live. A write to a typed object
carries the resource version it was made from and is refused when that is no longer
current. The configuration controller asks the Network operator for FRR and waits
by requeueing, asks the platform for the peering plan, writes FRRConfigurations,
and gives the platform the router nodes. The routing controller waits for the
configuration to be Ready, then writes the CUDN and the RA. Deleting the
configuration waits until the cache has no routing.

What is hard about it:

- decisions on a cached list (duplicates, "am I the last", "does a routing exist")
  while the API server has moved on;
- reconciles that stop between two live calls, because a call failed, its reply was
  lost or the process restarted, and that are entered again from the start;
- a status that is the memory between reconciles: skipped writes, refused writes,
  conditions left over from another spec or another platform;
- reasons that schedule no retry, so that a watch has to bring the key back;
- EC2, Azure and Google APIs that list what is deleting, refuse what is held, and
  are shared with other clusters and with people; lists that are stale by the time a
  write or a delete is made from them;
- credentials that arrive from another operator, may be replaced at any time, and pass
  through a file that a crash must not leave half written.

What makes each component correct:

- routing controller: Ready means the network and the RA are there; one owner per
  network name; nothing outlives its finalizer; every object settles in the phase
  its surroundings call for;
- configuration controller: Ready means the groups of the present spec are
  configured; no condition contradicts the phase; FRRConfigurations do not outlive
  the finalizer; it settles, and deletions end;
- every cloud platform: after a reconcile exactly the router nodes are peered, a wanted
  peer is never deleted on the way, an empty node list releases nothing, cleanup
  leaves no peer, what belongs to others is left alone, and it converges;
- AWS besides: only peers with the tag of the cluster are deleted. Azure: a node that
  is peered forwards. GCP: a node is in exactly one spoke, and no spoke is too large;
- credentials: the SDK reads whole files with what the secret said, no file with a key
  is left behind, nobody's edit of the request is undone, and the operator gets the
  credentials that the cluster can give.

`PROJECT.json` lists the hazards line by line.

## 2. Plan

Done, in this order:

1. `BGPRouting`, with proofs of type correctness, `ReadyIsAdvertised` and
   `UniqueClaims`.
2. `BGPCloudConfiguration`, which uses the cloud through the promise of the interface.
3. `AWSRouteServer`.
4. `CloudPlatform`, that promise as a specification; `AzureRouteServer` and
   `GCPCloudRouter`, with their refinements of it.
5. `AWSCredentials`, with proofs of its safety properties; the proof that
   `AzureRouteServer` implements `CloudPlatform`.
6. The inductive invariants of `BGPCloudConfiguration`, `AWSRouteServer` and
   `GCPCloudRouter`, with theorems for all their safety properties and for the
   refinement; `ReadyIsRevisited` and `NetworksAreOwned` of `BGPRouting`.

Next:

7. Theorems that hold under a condition where the runs of section 7 show that they fail
   without it: `ReadyHasNetwork` for names of one object each, `AdvertisementsAreOwned`
   when deletions do not overlap.
8. `createOrUpdate` (`internal/controller/frr.go:253`) with another writer between its
   Get and its Update.
9. A composition of the two controllers over one API server: a configuration that is
   deleted, degraded or re-created under its routings; peers per platform.

## 3. Modules

| module | models | used by |
|---|---|---|
| `BGPRouting` | routing controller, CUDN, RA, cache and queue | `MCRouting`, `BGPRoutingProofs` |
| `BGPRoutingProofs` | inductive invariant and theorems | `BGPRoutingOwnershipProofs` |
| `BGPRoutingOwnershipProofs` | theorems about the queue and about the finalizer | |
| `BGPCloudConfiguration` | configuration controller, FRRConfigurations, cloud by its promise | `MCConfig`, `BGPCloudConfigurationProofs` |
| `BGPCloudConfigurationProofs` | inductive invariant and theorems | |
| `CloudPlatform` | abstract: what `platform.CloudPlatform` promises of one cluster's peers | `AzureRouteServer`, `GCPCloudRouter` |
| `AWSRouteServer` | `ReconcileNodes` and `Cleanup` against EC2, for clusters that share endpoints | `MCAWS`, `AWSRouteServerProofs` |
| `AWSRouteServerProofs` | inductive invariants and theorems | |
| `AzureRouteServer` | `ReconcileNodes` and `Cleanup` against a Route Server that others use | `MCAzure`, `AzureRouteServerProofs` |
| `AzureRouteServerProofs` | inductive invariant, theorems and refinement | |
| `GCPCloudRouter` | `ReconcileNodes` and `Cleanup` against a Cloud Router and its NCC spokes | `MCGCP`, `GCPCloudRouterProofs` |
| `GCPCloudRouterProofs` | inductive invariant, theorems and refinement | |
| `AWSCredentials` | `ResolveCredentials` with CCO, the secret and the file | `MCCredentials`, `AWSCredentialsProofs` |
| `AWSCredentialsProofs` | inductive invariants and theorems | |

Definitions marked "Faulty variant" are plausible mistakes in the operation that
follows; nothing uses them. Putting one in the place of that operation makes TLC
report the property named for it in `PROJECT.json`.

### Conventions

- *Versions.* `store` is the API server, `views` the versions the watch has still to
  deliver, `cache` the informer cache. A write appends to `views`, `DeliverView`
  moves the cache one version on. `Current` is the resource-version check. A
  `Restart` fills the cache from the store and enqueues every listed object.
- *Reconcile.* `worker` is the reconcile in progress: the step it is at, its copy of
  the object and the status it started from. Each live call is a step of its own, so
  that anything may happen between two calls.
- *Calls.* Every live call ends `"ok"`, `"error"` (refused before it took effect) or
  `"lostReply"` (took effect, reported failed). The last two cost an event.
- *Queue.* `queue` is a set, as a key is held once; `delayed` are keys with a
  pending `RequeueAfter` or rate-limited retry. How long they wait is left out:
  only whether a retry is scheduled matters.
- *Conditions.* A condition is its reason; the reason decides between True and False.
  Messages are left out, apart from what is said under section 8.
- *Disturbances* names the kinds of event a run allows. The bounded number of them is
  the only bound on the environment.

### BGPRouting

`GetRouting` is the head of `Reconcile`; `EnsureFinalizer`, `CheckDuplicate`,
`CheckConfig`, `ValidateNamespaceLabels`, `EnsureClusterUDN`,
`EnsureRouteAdvertisements` and `PatchRoutingStatus` are its steps in order;
`DeleteClusterUDN`, `CountRemaining`, `DeleteRouteAdvertisements` and
`RemoveFinalizer` those of `reconcileDelete`. `DeliverView` includes the second
watch of the controller (`AffectsAll`), which enqueues every object when one appears,
goes or is renamed. The configuration and the namespaces are what the cache says of
them. Deleting a CUDN takes effect at once: its own finalizer belongs to OVN.

### BGPCloudConfiguration

`PatchNetworkOperator`, `IsFRRReady`, `BuildPlatform` and `DiscoverEndpoints`,
`EnsureFRRConfiguration` with `PruneFRRConfigurations`, and `ListRouterNodes` with
`ReconcileNodes` are phases 1 to 5. `CheckRoutings`, `CleanupCloud`,
`DeleteFRRConfigurations` and `RemoveFinalizer` are `reconcileDelete`. A rendered
peer group is a value; `Covers` says which value has everything another has, which is
all that `specSatisfied` looks at. `since` is the transition time of the inventory
condition, as recent or older than five minutes; `TimePasses` ages every copy.
`BuildResults` are the ways building the platform may end: a failed call is an error that
is retried or, where it is the `GetCallerIdentity` of AWS, a credential error, which is
terminal also when the failure was a passing one (`aws/aws.go:81`).

### AWSRouteServer

`ListManaged`, `DeleteStale`, `ListAll`, `AddPeer`, `CountPeers` and
`DisableSourceDestCheck` are the calls of `ReconcileNodes` for one endpoint after the
other; `ListForCleanup` and `DeleteManaged` those of `Cleanup`. EC2 is external: a
peer is pending, then available or failed; a deleted one is deleting, then deleted,
and is listed for a while. It refuses to delete a peer that is not in use and to
create one whose address is held. The Route Servers of the spec may change; they are
never none, which the schema demands. `Subnet` says at which addresses a cluster may have
router nodes: clusters that share a subnet can pass an address on (`MayOwn`), and adopt
each other's peers with it; clusters with a subnet each cannot. Building the platform,
with the `GetCallerIdentity` that may end it for good, comes before the first step here
and is in `AWSCredentials`.

### CloudPlatform

Three variables: the call in progress, the addresses it was given and the addresses
with a peer of the cluster. `ReconcileNodes` takes a set that is not empty; `WritePeers`
adds peers of given addresses and removes peers of others, any number at a time, and may
give up with it; `Succeed` needs the peers to be exactly the given ones; `ReleasePeers`
and `Cleaned` are the same for Cleanup. No peer changes outside a call.

`AzureRouteServer` and `GCPCloudRouter` define `Phase`, `Desired` and `Peered`, the
refinement mapping, and `ImplementsPlatform` is the abstract specification under it.
`AWSRouteServer` has no mapping: EC2 keeps listing a peer that is deleting or has
failed, and whether such a peer counts is what that module is about.

### AzureRouteServer

`ReconcileNodes`, `ListNICs`, `EnableIPForwarding`, `ListOthers` (the first list, which
learns what is not ours), `ComparePeers` (the second, inside `ReconcilePeers`),
`CreateOrUpdatePeering`, `DeletePeering` and `CountManagedPeers` (the third) are the
calls in order; `Cleanup` enters at `ListOthers` with no peering of its own wanted.
`OthersWrite` is everybody else on the Route Server, `touched` records whose peering was
written since the first list. `peeringName` maps the addresses of a cluster to names
one-to-one, so an address stands for the name. The addresses in `Cut` are those whose name
would be longer than 80 characters: its prefix is cut, and `IsOurPeering`, which looks for
the whole prefix, does not recognise it. Such a peering is wanted twice when it is listed,
as one of the node and as one of somebody else, and the sort, which is not stable, decides
(`WantedWith`). A VM may take over the address of another.

### GCPCloudRouter

`EnsureCanIPForward` and `EnsureNestedVirtualization` prepare node by node;
`ReconcileSpoke` writes the numbered chunks of `ChunkRouterNodes`, slices of the nodes
sorted by name (`SortByName`), `ListSpokes` and
`DeleteSpoke` remove the numbers beyond them; `GetRouterTopology`, `ReadRouter` and
`PatchRouter` read the interfaces, read the router again, and write the whole list of
peers; `ReadRouterToClear` and `UpdateRouter` are `ClearPeers`. Reading a
spoke and writing it is one step: nobody else writes spokes with this prefix.

The interfaces of the router are a list. A peer of ours is named by an address and the
place of an interface in that list, and holds the VM and the interface (`PeerRecords`): a
name stands for another interface once an earlier one is gone. `InterfacesChange` adds,
removes and reorders interfaces, down to none. `DiscoverEndpoints` refuses a router
without interfaces; `GetRouterTopology`, the second read, does not. The setting for
site-to-site transfer is the one the platform was built with (`worker.siteToSite`).

GCP is external: it refuses a patch when an interface is gone or a VM is in no spoke
(`Accepts`), to remove an interface that a peer uses, and it may refuse a call about a VM
that is no router node any more, without any effect (`OutcomesFor`).

In the refinement mapping a call that found no interface at its second read, and so
reports success with no node peered, counts as given up: that is the one success the
interface's promise does not cover (section 7).

### AWSCredentials

The steps of `ResolveCredentials` in order: `AmbientCredentials`, `GetRequest`,
`CreateRequest` or `UpdateRequest`, `ReadSecret`, and the five steps of
`writeCredentialsFile`; then those of `newPlatform`: `LoadFile`, where the SDK reads the
file, and `VerifyCredentials`, which asks STS. STS may refuse a role that is not the pod's
(`MayBeRefused`): the secret read right after a change of role may still name the old one.
Whatever goes wrong there is a `CredentialError`, a terminal reason, and the operator
stops: only an event of a watch (`Revisited`) brings it back, and none has to come. `CCOSync` is the cloud credential operator on
a minting cluster, which makes a key pair, or on a manual one, which writes the role of
the request. `ContainerRestarts` loses the call and keeps the directory, which is a
volume of the pod; `PodReplaced` empties it and may bring another `ROLEARN`.

## 4. Runs

| run | checks | shows | distinct states |
|---|---|---|---|
| `MCRoutingShared` | `TypeOK`, `ReadyIsAdvertised`, `UniqueClaims`, `NetworksAreOwned` | two objects that claim one name, with failed calls, lost replies and restarts | 0.7 million |
| `MCRoutingLive` | `ReadyIsRevisited`, `Converges` | edits, changes of configuration, namespaces, CUDNs and RA, then quiet; one of the subnets is invalid | 0.7 million |
| `MCConfigSafety` | `FRRIsOwned`, `ReadyIsApplied`, `ReadyHasNoFailure` | edits between a cloud and Manual specs of one and two groups, failures, restarts, deletion and re-creation | 3.2 million |
| `MCConfigLive` | `TypeOK`, `CloudConditionsAgree`, `Converges` | nodes, credentials, plan and FRRConfigurations change, routings block a deletion, a wrong name, FRR outages, failures, a restart, then quiet | 1.3 million |
| `MCAWSPeers` | `TypeOK`, `OnlyNodesArePeered`, `CleanupReleasesPeers`, `Converges` | one cluster in two zones, everything that can fail or interfere, then quiet | 1.2 million |
| `MCAzurePeers` | `TypeOK`, `PeeredNodesForward`, `OthersSurvive`, `ImplementsPlatform`, `Converges` | three VMs, two of them with one address in turn, and a peering of somebody else | 0.7 million |
| `MCGCPPeers` | `TypeOK`, `NodesAreInOneSpoke`, `CleanupReleasesSpokes`, `OthersSurvive`, `ImplementsPlatform`, `Converges` | three VMs in spokes of one, a peer of somebody else, and interfaces, at most two, that come, go and change places | 0.8 million |
| `MCCredentials` | `TypeOK`, `FileIsWhole`, `TemporariesAreRemoved`, `EditsSurvive`, `Converges` | minting and manual clusters; request, secret, pod and role change, STS may reject an old role | 1.8 million |
| `MCRoutingLeak` | `AdvertisementsAreOwned` violated | two deletions close together leave the RA | to the violation |
| `MCRoutingDuplicate` | `ReadyHasNetwork` violated | deleting a duplicate deletes the network of the Ready object | to the violation |
| `MCConfigCredentials` | `CredentialFailureClears` violated | a rejected credential is not tried again | to the violation |
| `MCAWSShared` | `NoInterference` violated | two clusters in one subnet: one deletes a peer that the other has adopted since | to the violation |

The four runs that end in a violation check what a document of the repository says;
section 7 quotes the lines.

`CHECK_DEADLOCK FALSE` stands where, with a bounded environment, a settled system has
nothing left to do. `MCCredentials` goes without: `ResolveCredentials` is called again
and again, by the timer or, once the operator has stopped, by an event of a watch.

### Bounds

- *Two of each.* Two routings are enough for a duplicate, a race of two deletions and
  "the last one"; a duplicate check or a count cannot tell two others from one. Two
  groups make the shift by position and the pruning happen; two zones, with a node
  in each, an endpoint where a node does not belong; two clusters, the takeover of an
  address. On Azure and GCP three VMs, so that one address changes hands while another
  node stays; one peer of somebody else, as every such peer is treated alike.
- *NCCMaxInstancesPerSpoke* (1): of the three VMs two share an address, so that at most two
  are router nodes at once; they fill two numbered spokes, and one that comes or goes
  renumbers the other. With 1 a spoke is full whenever it exists.
- *Interfaces* (2): lists of none, one and two, in either order: the only interface may
  go, and the second may move to the first place. The lists the router may begin with
  (`AtFirst`) leave out those that differ only in the names of the interfaces.
- *MaxEvents* (3 or 4): creation and deletion of both objects, or creation, edit,
  failure and deletion. The retry after a failure costs nothing, so a failure early
  and one late in a reconcile are both reached.
- *MaxLag* (2 or 3): how many writes the cache may be behind. A decision on a cache
  that misses the last two writes of another object needs 2. At the bound, a write
  waits for the watch.
- *MaxPeers* (3 to 5): ids are not used again; every run stays a few above the
  node and endpoint pairs, so that a deleted peer is replaced and a foreign one fits.
- *MaxGroups*: the longest plan.

The theorems hold for every value of these constants.

What must be reached for the properties to mean something is reached: every action of
every next-state relation fires in the passing runs, and each property is broken by the
faulty variant that `PROJECT.json` names for it.

## 5. Fairness

`Converges` and `CredentialFailureClears` are checked under `FairSpec`:

- weak fairness of the watches (an informer delivers and reconnects), of the timers
  (a scheduled `RequeueAfter` or retry becomes due) and of the worker's steps (calls
  return);
- strong fairness of taking a given routing key: the work queue is first-in
  first-out, so a key that keeps waiting is taken although others are taken between;
- weak fairness of `FRRStarts` (the Network operator does what it was patched to do),
  of `TimePasses`, and of `PeerProgresses` (EC2 carries out what it accepted);
- for Azure, GCP and the credentials, weak fairness of the operator's steps as a whole:
  the controller calls again after five minutes, or sooner on an error, and a call goes
  on; and of `CCOSync`, as CCO watches requests and secrets. An operator that has stopped
  at rejected credentials has no step, and `Revisited` is not fair: nothing has to happen
  to the objects it watches;
- none of users, drift, failed calls or restarts. Their number is bounded in a run, so
  that "then quiet" is part of every behaviour.

`Converges` is `<>[]`: reached and kept. Its exceptions are in the formula: a terminal
reason may outlast its cause (CUDNSpecInvalid for a routing; rejected credentials and
a missing Route Server for a configuration), and a deletion may wait for routings or,
when FRR was never asked for, for ever. On the clouds, a configuration whose discovery
fails while it is being deleted ends without Cleanup; on GCP nothing is promised while the
router has no interface; on a manual cluster without a role, the operator waits for a
secret that nobody writes; and credentials that were rejected may stay so, although good
ones have arrived since. On AWS the steps modelled in `AWSRouteServer` follow a
`GetCallerIdentity` that worked, so that its `Converges` is about a controller that does
not stop there.

## 6. Proofs

### BGPRoutingProofs

For any objects, names, subnets, disturbances and bounds:

- `TypeCorrect`: `Spec => []TypeOK`;
- `ReadyAdvertised`: `Spec => []ReadyIsAdvertised`;
- `ClaimsAreUnique`: `Spec => []UniqueClaims`.

Assumptions: there is a network name and users give objects names from `Nets`
(`NamesAssumption`); `Nobody` is not an object (`NobodyAssumption`); there are subnets,
the invalid ones among them, and the markers for a missing or foreign CUDN are not
subnets (`SubnetsAssumption`); bounds are natural numbers (`BoundsAssumption`).

Argument. Neither property is inductive: both are about decisions on the cache, and a
state in which the cache is older than some Ready object would break either with one
more step. `IInv` adds why that cannot be:

- `WatchInv`: cache, undelivered versions and store are one growing history (`Older`),
  so the cache only moves forward and its resource versions identify contents;
- `WorkerInv`: the worker's copy came from the cache (`FromCache`) and is behind the
  store or, at the same resource version, of the same spec (`Behind`);
- `ObservedInv`: the observed generation is never ahead of the generation;
- `SeenInv`: whatever is Ready has been seen by the cache, in the generation it is
  Ready for. An object becomes Ready only by a write that the resource version guards,
  from a copy the cache delivered;
- `ClaimInv`: past the duplicate check, no other object is Ready for the worker's name.
  There is one worker, so nobody else becomes Ready meanwhile, and by `SeenInv` the
  check saw those that already were;
- `AdvertiseInv`: a worker about to delete the RA has seen that nobody else exists,
  hence (by `SeenInv`) nobody is Ready, and nobody becomes Ready while it goes on.

`Inductive` is `IInv /\ [Next]_vars => IInv'`, conjunct by conjunct and action by
action. The theorems follow with the initial condition. The proofs depend on one
worker; raising `MaxConcurrentReconciles` would break `ClaimInv` and `AdvertiseInv`.

### BGPRoutingOwnershipProofs

For any objects, names, subnets, disturbances and bounds, from the same assumptions and
the invariant above:

- `ReadyRevisited`: `Spec => []ReadyIsRevisited`;
- `NetworksOwned`: `ASSUME NamesAreKept PROVE Spec => []NetworksAreOwned`.

`NamesAreKept` says that no object changes its network name: specs are not edited, or
each object has one name. It is needed; after a rename the CUDN of the old name has no
owner (section 7).

Argument. `RevisitInv`: while its key is not queued, the cache still has the status the
reconcile read, since every delivery of another version queues the key; and Ready always
comes with a `RequeueAfter`. So a reconcile that ends without a retry has either just
written a status that is not Ready, or read one that the store does not have any more.
`OwnInv`: within an object the name stays (`NamesInv`); every version the cache has or
will have that has the finalizer and is not deleted is of an object that still has it
(`FinalizerInv`), because the finalizer goes only after the cache has seen the deletion
(`HolderInv`); and past the deletion of the CUDN there is none (`CleanInv`). Hence a
reconcile that writes a CUDN from an old copy writes it for an object that will be
cleaned up, and removing the finalizer leaves no CUDN behind.

### BGPCloudConfigurationProofs

For any specs, plans, groups, nodes, disturbances and bounds:

- `TypeCorrect`: `Spec => []TypeOK`;
- `ConfigurationsAreOwned`: `Spec => []FRRIsOwned`;
- `ReadyApplied`: `Spec => []ReadyIsApplied`;
- `ReadyWithoutFailure`: `Spec => []ReadyHasNoFailure`;
- `ConditionsAgree`: `Spec => []CloudConditionsAgree`.

Assumptions: there are specs and plans, plans are lists of at most `MaxGroups` groups,
a spec's groups are a plan or none, the markers for a missing or foreign FRRConfiguration
are not groups, and `Covers` relates groups (`SpecsAssumption`); bounds are natural
numbers (`LimitsAssumption`).

Argument (`Invariance`, `Spec => []IInv`). `WatchInv` is the history of versions as above.
`VersionsInv` and `HoldInv` carry the finalizer: every version that may start an apply
is of an object that still has the finalizer, since it is removed only by a reconcile
that read the deletion, after all FRRConfigurations are gone. `SeenInv`: what the store
is Ready for has been seen by the cache, so (`CopyInv`) a worker's copy is never of an
older spec than the one the store is Ready for, and no reconcile of an older spec can put
its groups back. `BuildInv` follows the conditions through the phases, `ApplyInv` how
many groups have been applied; both say what holds when the reconcile ends in Ready.

### AzureRouteServerProofs

For any VMs with addresses, peerings of others, ASNs, disturbances and bounds:

- `AzureTypes`: `Spec => []TypeOK`;
- `AzureNodesForward`: `Spec => []PeeredNodesForward`;
- `AzureOthersSurvive`: `Spec => OthersSurvive`;
- `AzureImplementsPlatform`: `ASSUME Cut = {} PROVE Spec => ImplementsPlatform`, the
  refinement.

`Cut = {}` says that no peering name is longer than 80 characters. It is needed: a peering
with a name that was cut outlives Cleanup (section 7). The other theorems do without.

Assumptions: the names that are cut are of addresses (`CutAssumption`); every VM has an address and none is the name of somebody else's peering
(`NamesAssumption`); there is an ASN, and `Absent` is none (`ASNAssumption`); the bound
is a natural number (`BoundAssumption`); there are finitely many VMs
(`FiniteAssumption`), for the metric to be a number.

Argument. A call decides on one list and writes after others, so none of the four is
inductive. `AInv` adds what each step may rely on: `WantInv`, the wanted peerings of
ours are exactly those of the nodes given, and none for Cleanup; `ForwardInv`, which
nodes forward while interfaces are still to do; `WriteInv`, the writes and deletes still
to do are all that separates the peerings of ours from the wanted ones, which editing an
ASN by hand does not change; `OthersInv`, a peering of others that nobody wrote since the
first list is wanted as it is, and is neither to be written nor to be deleted. One lemma
per action shows that `AInv` is kept. For the refinement, `GivingUpImplements` covers
every failed call and restart, and four lemmas the steps at which a call begins, looks,
writes and ends.

### AWSRouteServerProofs

For any clusters, endpoints, addresses, zones, disturbances and bounds:

- `TypeCorrect`: `Spec => []TypeOK`;
- `NodesOnly`: `Spec => []OnlyNodesArePeered`;
- `CleanupReleases`: `Spec => []CleanupReleasesPeers`;
- `OwnPeersOnly`: `ASSUME Undisputed PROVE Spec => NoInterference`.

`Undisputed` says that the subnets of different clusters have no address in common. Nodes
come and go within them, in any number of clusters, each of which lists, adopts and deletes
on the shared endpoints. It is needed: `MCAWSShared` is two clusters in one subnet, and an
address that changes hands. No passing run repeats the theorem; TLC was used on two
clusters with a subnet each (3.7 million states) before it was proved.

Assumptions: there are endpoints and addresses, each in a zone (`ZoneAssumption`); the
subnet of a cluster is of such addresses (`SubnetAssumption`); the
markers for no node and for other people's tags are not clusters (`NobodyAssumption`);
bounds are natural numbers (`BoundsAssumption`).

Argument. Only a cluster's own operator puts the cluster's tag on a peer, and EC2 uses no
id twice (`UnusedInv`), so whatever EC2, people and other operators do, the peers with
the tag on an endpoint already dealt with become fewer (`Fades`). `ProgressInv`: behind
the reconcile every peer in use is of a node in its zone or is in the list of stale ones,
behind a cleanup it is in that list. `AddInv`: what is created or adopted is on the
present endpoint, for a node of its zone. For `OwnPeersOnly`, `OwnInv` adds that a
cluster's tag is on peers at addresses of its own subnet only, and that what was listed as
stale keeps its tag: only the cluster in whose subnet its address is would adopt it.

### GCPCloudRouterProofs

For any VMs, names, interfaces, peers of others, limit on the size of a spoke,
disturbances and bounds:

- `TypeCorrect`: `Spec => []TypeOK`;
- `OneSpokeEach`: `Spec => []NodesAreInOneSpoke`;
- `CleanupReleases`: `Spec => []CleanupReleasesSpokes`;
- `OthersAreKept`: `Spec => OthersSurvive`;
- `GCPImplementsPlatform`: `Spec => ImplementsPlatform`, the refinement.

Assumptions: there is a VM, names are in one order without repetition and every VM has an
address (`OrderAssumption`); the limit is positive (`SpokeAssumption`); there are
interfaces, finitely many, for the metric to be a number (`BoundAssumption`); the router
begins with some list of them (`AtFirstAssumption`); `Absent` is no spoke and no peer (`AbsentAssumption`).

Argument. The algorithm first: `ChunkRouterNodes` sorts and slices, and no induction over
lists is available, so that a sorted sequence exists is shown by counting (`CanBeSorted`:
the place of a node is the number of nodes up to it). From it, chunks are within the
limit (`ChunkSize`), every node is in exactly one (`ChunksPartition`), and no nodes make
no chunks (`NoChunks`). Then `GInv`: `CallInv`, which call it is and for which nodes;
`InterfaceInv`, every peer of ours is on an interface the router has, and a call that has
read an empty list of interfaces finds no peer of ours; `PeerInv`, between the write and the
end of the call the peers are those written; `SpokeInv`, the spokes up to the present
number hold their chunks, and those beyond are to be deleted; `OthersInv`, peers of
others that nobody wrote since the read are as read. The refinement is shown step by
step as for Azure. Where names shift with the interfaces, an address that is wanted has a
peer before and after the write; where the list was empty, `InterfaceInv` says that there is
nothing the write could release, so that the call is one that gives up.

### AWSCredentialsProofs

For any modes, roles, keys, disturbances and bounds:

- `CredentialsTypes`: `Spec => []TypeOK`;
- `FileWhole`: `Spec => []FileIsWhole`;
- `TemporariesRemoved`: `Spec => []TemporariesAreRemoved`;
- `EditsAreKept`: `Spec => EditsSurvive`.

Assumptions: the markers are not inis, requests or files (`MarksAssumption`,
`NoneAssumption`), and the bound is a natural number (`BoundAssumption`).

Argument. `StepInv` carries what a call learned to the step that relies on it: at the
rename the temporary is whole because the close said so, and at the load there is a
file. `SeenInv` says that a version identifies what the request says outside its spec,
because every write takes a new one; so a write guarded by the version read puts back
what is there.

### Only model-checked

The liveness properties (`Converges` of six runs): fairness is outside the prover's
reach. Every invariant, action property and refinement that a passing run checks has a
theorem. `NoInterference` has a theorem under `Undisputed` and, without it, the run that
violates it. Before each proof TLC checked its inductive invariant on the instances of the
runs, with more kinds of disturbance than these allow at once.

## 7. Disagreements between documents and code

With a run:

| run | the document says | the code |
|---|---|---|
| `MCRoutingLeak` | `src/README.md:636`: the RA "is deleted only when the last BGPRouting CR is removed" | counts the others in the cache (`bgprouting_controller.go:174`); two deletions close together each see the other and the RA stays |
| `MCRoutingDuplicate` | `src/README.md:636`: "delete the owned ClusterUserDefinedNetwork" | deletes the CUDN of the name, owned or not (`bgprouting_controller.go:169`) |
| `MCConfigCredentials` | `src/README.md:655`: "the reconcile requeues after 30s and it clears" | the reason is terminal (`constants.go:85`) and schedules nothing |
| `MCAWSShared` | `src/README.md:83`: clusters "do not interfere with each other's peers" | a stale peer that was adopted since it was listed is deleted (`route_server.go:57`) |

Found while modelling, part of the modelled behaviour, without a run of their own:

- After an edit of `spec.network.name` the CUDN of the old name is never deleted
  (`bgprouting_controller.go:169`); `NetworksAreOwned` is checked without renames.
- `specSatisfied` ignores what only the existing object has (`frr.go:297`) and the
  rendering omits what is off, so BFD or multihop turned off, or a label dropped from
  the node selector, stays in the FRRConfiguration while the status says Ready.
  `ReadyIsApplied` therefore asks that the groups be covered, not equal.
- Any error of `buildPlatform` or `DiscoverEndpoints` while deleting skips the cleanup
  of the cloud (`bgpcloudconfiguration_controller.go:564`), where
  `src/README.md:602` says the peers are deleted.
- A routing that the cache has not seen does not block the deletion of the
  configuration (`bgpcloudconfiguration_controller.go:546`; `src/README.md:602`).
- A failed discovery removes the inventory condition and so restarts its five
  minutes, although the comment at `bgpcloudconfiguration_controller.go:170` says the
  timer is unaffected.
- A configuration deleted before the first patch of the Network operator succeeded is
  never removed: listing FRRConfigurations fails while their API is missing
  (`frr.go:220`).
- Peers on the endpoints of a Route Server taken out of the spec are not released,
  then or on deletion (`route_server.go:257`); `CleanupReleasesPeers` is checked
  with a spec that keeps its Route Servers.
- Cleanup runs for the platform that the spec names at deletion
  (`bgpcloudconfiguration_controller.go:558`): peers made for an earlier one stay.
- Azure interfaces are read and written back whole to turn forwarding on
  (`azure/client.go:182`).
- `ClearPeers` writes the whole router as it was read, interfaces included
  (`gcp/compute.go:174`): an interface added in between is removed.
- An Azure peering name over 80 characters has its prefix cut (`azure/azure.go:73`), and
  `isOurPeering` looks for the whole prefix (`azure.go:83`). Such a peering is taken for
  somebody else's: it stays when its node goes and after Cleanup, which "removes this
  cluster's Route Server peerings and nothing else" (`azure.go:183`), and is not counted.
  The test at `azure_test.go:64` makes such a name; infrastructure names of the OpenShift
  installer are shorter. `MCAzurePeers` has no such name (`Cut = {}`).
- `DiscoverEndpoints` of GCP refuses a router without interfaces (`gcp/gcp.go:64`), the
  second read in `ReconcileNodes` does not (`gcp.go:149`). When the only interface goes in
  between, no peer is wanted and the call succeeds with no node peered; the next reconcile
  fails at discovery.
- A GCP configuration that is deleted while its router has no interface goes without
  Cleanup, because discovery fails, and its spokes stay
  (`bgpcloudconfiguration_controller.go:564`).
- GCP peers are named by the place of an interface (`compute.go:306`): when an earlier
  interface goes, peers on the others are written under other names, and their sessions
  drop, which the comment on `PeerName` says that names by address avoid when a node goes.
- After a change of role the secret read next may still name the old one
  (`aws/credentials.go:159`). If STS rejects it, the reason is terminal and the good secret
  that follows is not tried until some watch has an event: `MCConfigCredentials` again, and
  the exception in `Converges` of `AWSCredentials`.
- When GCP nodes are renumbered, the earlier spoke is written before the later one, and in
  between a node that stays a router node is in no spoke (`gcp/spokes.go:19`).
- Azure and GCP compare a stale list with what they want: a peering somebody else wrote
  after the first list is undone, the window `OthersSurvive` allows.
- A failed request for the pod's own AWS credentials counts as having none
  (`aws/credentials.go:154`): the cluster is asked for others, and a CredentialsRequest
  is made that nobody deletes.
- The gauge counts failed and deleting peers (`route_server.go:128`), against the
  comment at `route_server.go:114`.
- `cache.go` says downstream objects are cached; unstructured reads are live by default.
- `src/README.md:683` names a flag `--resync-interval` that does not exist.
- `src/docs/controller-test-plan.md` describes a watch of the RA that the controller
  does not have.

## 8. Not modelled

- *createOrUpdate* is one step that may fail or lose its reply; another writer between
  its Get and its Update is planned.
- *Lists of the clouds* are atomic: their pages are read in one step. The interfaces of
  Azure nodes are listed in one call, whatever their resource groups.
- *Other clusters* on Azure and GCP are everybody else's peers, which change at any time;
  two instances of the operator on one router are modelled for AWS only, where a peer can
  change hands.
- *DeleteAllPeers* of Azure, which nothing calls.
- *The policy* of a CredentialsRequest, and the form of the ini.
- *Errors of reads served by the cache*: these fail only before the cache is synced.
- *Messages*: with three claimants the DuplicateNetwork message
  (`bgprouting_controller.go:85`), and with several incomplete nodes the
  NodesIncomplete message (`bgpcloudconfiguration_controller.go:519`), may differ from
  one reconcile to the next because a cached list has no order, and each difference is
  a status write.
- *Drift of FRRConfigurations* keeps the managed-by label, by which they are listed.
- *Validation* by the API server, apart from subnets the CUDN API rejects; in
  particular the limits on the size of the status.
- *Error counters, logging, leader election, start-up* (`cmd/main.go`), generated copies.
- *providerID parsing* of the clouds, and how names are put together from prefixes,
  addresses and digests: pure functions of strings. What is told apart is which address and
  interface a name is for and whether it is recognised as the cluster's own.
