# vcluster private cloud controller: a TLA+ development

The controller (`src/`) runs on a host cluster and publishes, for each
`TenantCluster`, what the tenant writes in a cluster of its own: LoadBalancer
Services, Ingresses, Gateways and HTTPRoutes become host objects that hold
addresses, and PVCs become host volumes hotplugged by KubeVirt into the VMs that
back the tenant's nodes. It works in *passes*: list the guest, list the host,
decide, write to the host, prune, release guest finalizers, write statuses back.
Every list and every write is an API call, the two clusters and KubeVirt move
between any two of them, and nothing survives from one pass to the next except
what the API servers hold. That is what this development models.

## Inventory

| component | state it keeps | operations | talks to |
|---|---|---|---|
| TenantCluster controller (`tenantcluster_controller.go`) | a client per guest; the TenantCluster's finalizer and status | `Reconcile`, `disconnected`, `reconcileDelete`, guest cleanup | runs a pass; requeues for ever |
| endpoint slice of a pass (`pass.go`) | the maps of one pass: what is desired, `wantFinalizer`, `seenFinalizer`, `refusals`, `pruneFailed` | gather, `applyAddressLimit`, `ensureGuestFinalizers`, `applyAll`, `pruneAll` | guest API, host API |
| storage slice of a pass (`storage_pass.go`, `storage.go`) | `storageState`: PVCs, PVs, VolumeAttachments, host PVCs, VMs as listed | `provisionPVC`, `reconcileAttachment`, `teardownGuestPVC`, orphans, sweep, `storageTeardown` | both APIs, hotplug client; shares `pruneFailed` and `wantFinalizer` with the endpoint slice |
| hotplug client (`kubevirt/hotplug.go`) | none | `VMs` (two lists merged), `AddVolume`, `RemoveVolume` | KubeVirt, which queues requests and applies them later |
| write-back (`writeback.go`) | none | finalizers, addresses, refusals | guest API |
| mapping (`service.go`, `ingress.go`, `gateway.go`) | none, pure | guest object to host object, or a refusal | the pass calls it |
| ownership and naming (`ownership.go`) | none, pure | `ownedBy`, `HostObjectName` | the guard of every host write |
| hostname authority (`hostname.go`) | none, pure | `Allowed`, `Refusal` | the mapping; the registration's `allowedDomains` |
| CSI node plugin (`csinode`) | none of its own: the mounts of its node are its state | stage, unstage, publish, unpublish | kubelet, udev, mkfs and mount; relies on what the storage slice reports |
| API types, `cmd/main.go`, charts | configuration | | main.go starts the controller without leader election unless asked |

What is hard: a pass acts on lists that are stale by the time it acts
(especially on the VM state, read before the pass's own hotplugs); KubeVirt's
`addvolume` is a queue; a finalizer Update may be refused and the pass goes on;
any call may fail, or take effect with its answer lost, and the process may stop
anywhere; the tenant is cluster-admin and may strip finalizers; the operator may
lower a limit, withdraw a class or a domain, edit the namespace, or delete the
tenant and register it again under its name, at any time; two controller
processes may overlap in a rolling update; and on the nodes a CSI handler may
outlive the call it serves. `PROJECT.json` lists these as hazards, each at its
line.

What makes each part correct:

- *storage*: a volume is in at most one VM; a host PVC is deleted only with its
  volume out of every VM; a VolumeAttachment is held while its volume is plugged
  in; "attached" is told of what is Ready; a deleting claim or attachment is
  eventually let go, and no sooner than its host state; a tenant leaves nothing.
- *endpoints*: a limit never tears down what is published; refusals follow age;
  what a router needs survives; nothing unwanted survives a clean pass; nothing
  is released before its host object is gone; everything asked for is answered.
- *both*: nothing of somebody else's is touched.
- *tenants*: no host object without a finalizer that will see to it; a teardown
  spares the tenant's replacement; a guest is reached by the credentials named.
- *nodes*: what a pod wrote survives; a pod sees the volume and not a directory
  under it; no disk leaves from under a mount; a late disk is found by a retry.
- *names*: exactly what is granted is published, what is withdrawn goes, and the
  tenant is told of every name it may not have.

## Modules

| module | contents |
|---|---|
| `VolumeCustody` | abstract: what the storage slice promises of one volume |
| `StorageSync` | the storage slice, the storage half of a tenant's teardown, the hotplug client, and around them tenant, operator, KubeVirt and host; implements `VolumeCustody` |
| `NodePlugin` | the CSI node plugin of every node and the kubelets that call it, on top of `VolumeCustody` |
| `EndpointSync` | the endpoint slice with write-back, and around it tenant, operator and the host's load balancer |
| `NameAuthority` | hostnames: the authority, the mappings that ask it, the pass that publishes the answer, the GatewayClass mirror |
| `TenantLifecycle` | registration, client cache, passes, teardown and replacement of a TenantCluster, by one or two processes |
| `MCStorageSync`, `MCEndpointSync`, `MCTenantLifecycle` | for TLC, with what the sources say and TLC refutes |
| `MCNameAuthority` | for TLC: labels, names, registrations, texts |
| `..._proofs` | theorems about the module of that name; `StorageSync` has three, `StorageSync_proofs`, `StoragePass_proofs` and `StorageCustody_proofs`, each on top of the one before |

The modules meet in three places. `StorageSync` is shown to implement
`VolumeCustody`, and `NodePlugin` assumes nothing else of the host. `EndpointSync`
takes from `NameAuthority` that a mapping publishes or refuses, and `NameAuthority`
from `EndpointSync` that a wanted object is applied and an unwanted one pruned.
`TenantLifecycle` has a pass as two steps that leave host objects behind, and a
teardown as the steps that remove them; what they do to one object is the business
of the other two.

### StorageSync

A claim is a guest PVC's UID, from which the names of the host PVC, the guest PV
and the VM's volume are derived; a slot `<<n, c>>` is claim `c`'s place in the VM
of node `n` and the key of the VolumeAttachment. `pvc`, `pinned`, `pv` and `va`
are the guest's objects; `hostPVC`, `vm`, `spec`, `queue` and `phase` the host's,
`queue` being the unapplied `status.volumeRequests` entry of a slot and `phase`
the VMI's `volumeStatus`. `pc`, `snap`, `claims`, `slots`, `want` and `blocked`
are the pass: what it does next, what it has listed, what is left of the loop it
is in, `wantFinalizer` and `pruneFailed`. Loops run in any order, as Go's maps and
the API's lists do.

The lists are actions of their own in the code's order (`ListPVCs`, `ListPVs`,
`ListVAs`, `ListHost`, `ListVMs`, `ListVMIs`), then come the loops: finalizers
(`PinPVC`), `provisionPVC` (`NotTriggered`, `CreateHostPVC`, `CreatePV`),
`reconcileAttachment` (`ReleaseVA`, `UnplugVA`, `PinVA`, `PlugVA`, `PassOverVA`),
`teardownGuestPVC` (`AwaitAttachments`, `AwaitUnplug`, `TeardownHostPVC`,
`TeardownPV`), orphans, the sweep, the release, the write-back. `Leave...` is
`storageTeardown` with the end of `reconcileDelete`. `Abort` is a list that fails
or a process that stops: both lose the pass and nothing else.

External, and modelled from how the sources use it: the guest's users, scheduler
and attach/detach controller with its multi-attach guard, the API servers'
finalizers (pvc-protection, pv-protection), and KubeVirt. KubeVirt rejects a
second request for a slot while one is queued, applies the queue later, and a VMI
follows the VM's spec in its own time.

Abstractions: an Update is refused when the object is not as listed (the object's state
stands for its resourceVersion); after a skipped apply (`SkipApply`) the write-back may
still report an attachment, where the code then reports none, so the model writes more
than the code, and what is safe in it is safe in the code; `mapPVC`'s refusals are one PVC state;
StorageClasses are one bit, `offered`; the guest cleanup at the end of a tenant's life
is done whole or not at all; the `pruneFailed` of a pass is what the storage slice makes
of it.

### EndpointSync

An element of `Objects` stands for a guest object and the host object made of it,
whose name depends on namespace and name alone. `shape` is what the mapping makes
of the object: `good`, `family` (a LoadBalancer Service of a family the host
lacks, still good as a backend), `NodePort` (a Service that wants no address) or
`refused`. Routers are Ingresses and HTTPRoutes, which a pass treats alike once it
has listed them; `Backends` is what their paths name. `host` is
`published`, `backend` (a ClusterIP Service), `none` or `foreign`; `addr` is who
holds an address; `shown` and `told` are the guest's statuses. `stale` holds what
the tenant wrote since it was listed: the Updates of these are refused. `clock`
counts what tenant and operator do and dates objects. `off` is what `spec.sync`
leaves out, one of `Switches`; `Routes` are the routers that are HTTPRoutes and so
belong to the Gateway API. What a pass does not see for one reason or the other
(`Skipped`) differs in what becomes of it: objects of a kind that is off lose their
host objects, as nothing of them is desired; objects that a failed discovery hid
(`snap.hidden`) keep theirs, as the prune leaves that kind alone.

The actions are `Begin` (`Reconcile` reads limit and switches and asks the host for the
Gateway API, which a process that has just started must discover), the lists,
`ReadClaim` (the uncached read of each claim's host object), `Admit` (the limit's loop,
`withdrawClaim`), `PinObject`, the applies (`ApplyCreate`, `ApplyUpdate`,
`ApplyCollision`, Services first as in `applyAll`), `PruneObject` and `PruneListFails`,
`ReleaseObject`, `WriteAddress`, `WriteRefusal`, `Abort`. The limit's loop is the
recursive function `admittedBefore`.

Abstractions: routers are listed before Gateways (HTTPRoutes really come last);
no limit at all is a limit of at least the number of endpoints; two objects made
by different steps have different ages (the code breaks ties by UID); a
finalizer added in memory by an Update that failed is forgotten, where a later
status Update of the same object could persist it; the storage slice's share of
`pruneFailed`, which only delays a release, is one of the modelled failures.

### VolumeCustody, and what StorageSync implements

One volume, no passes: `disk` is the set of VMs that carry it or were asked to,
`ready` those in which it is visible, `lease` what each node's VolumeAttachment has
been granted (`asked`, `held`, `attached`, `ending`), `contract` whether the claim
and the tenant still stand behind it. Its actions say that the disk goes into one
VM out of none and for a leaseholder (`Plug`), that a guest is told of what is
there (`Tell`), that the disk leaves no attached node (`Unplug`), and that a lease
ends with the disk out (`Return`). A node whose VM may be deleted gets no promise
about what it was told (`Firm`), nor does anybody once the claim is gone.

The module is an abstraction and translates no source line. `StorageSync` instantiates
it per claim, `Custody(c)`, with `Carried` slots for `disk`, `Ready` phases for
`ready`, `LeaseOf` a VolumeAttachment's state for `lease` and `ContractOf` the claim,
its PV and the tenant for `contract`. `CustodyKept` says that every step of the
detailed specification is a step of the abstract one or a stutter, whatever the
passes list, lose or retry; it is checked and proved.

### NodePlugin

The plugin keeps no state and takes no lock, gRPC serves each call in a goroutine of its
own, and after `waitForDevice` no handler looks at its context: so each node has two
handlers, `call`, whose answer the kubelet awaits, and `late`, one whose call timed out
and which runs on. `pc` is their step, `staged` and `bound` what is mounted at the two
paths (`live`, `dead` after the disk was pulled, or for `bound` the mere directory,
`dir`), `linked` where udev has the `/dev/disk/by-id` name, `fs` what `blkid` finds on
the volume, `written` whether a pod's data is on it. `NodeStageVolume` is `FindDevice`
or `DeviceTimeout`, `CheckStaged`, then mount-utils' `FormatAndMount` as `Probe`,
`Format` and `Mount`, between any two of which anything may happen; the other three
calls are one step each: `NodePublish`'s check, mkdir and bind could interleave with a
late handler only, and a node with one is out of what is promised. `disk`, `ready` and
`lease` are `VolumeCustody`'s, with VMs that stay and a claim that lives.

External, from how the plugin is used: a kubelet makes one call per volume at a
time, repeats it until it succeeds, does not stage before the VolumeAttachment says
attached, and after a missing answer takes the volume for uncertain (`unsure`,
`halfbound`) and repeats or undoes. A plugin crash loses handlers and keeps mounts; a
reboot loses both. `mkfs` refuses a mounted device.

Two things take a node out of what is promised, and both are recorded: `stray`, a
handler outlived its call there since it booted; `torn`, its VolumeAttachment was
force-deleted while the volume was in use. With either, the model has behaviours in
which a late handler formats or mounts beside the next call, and the properties,
which are about nodes that are `InOrder`, say so by leaving them out.

### TenantLifecycle

A process works on one request at a time: `Begin` (the uncached read),
`AddFinalizer`, `Connect` (`guestClientFor` with its cache), `SyncCore` and
`SyncGateways` (a pass, as far as the existence of host objects goes), `UpdateStatus`;
or `TearCore`, `TearGateways`, `Strip`, `DropFinalizer` (`reconcileDelete`). `mine` is
the copy a process has read, `fresh` the processes whose copy still has the server's
resourceVersion, so an Update is refused for the others. `host` has the UID that each
labelled object was made for; the labels themselves have only the name, so teardown
deletes whatever bears it. Operators create, delete, move (`hostNamespace`), re-key
and rotate; processes crash.

The exceptions in the properties are the exact ones: `excused` are objects that a
changed `hostNamespace` left behind and Gateways that a failed discovery
(`hostHasGatewayAPI` answers no on any error) hid from the last teardown; `rekeyed`
are UIDs whose `kubeconfigSecretRef.key` was edited, since a cached client is rebuilt
for a changed Secret and not for a changed key; `overlap` marks that two processes
had a TenantCluster under deletion in hand at once, which nothing but one replica
prevents. There is no liveness here: that a teardown ends is `StorageSync.TenantGoes`.

### NameAuthority

A hostname is the sequence that splitting it at its dots gives, so that `TrimSuffix`
of one root dot, the empty name and the empty first label are cases of their own;
`Fold` is `ToLower`. `Allowed` is `hostname.go`'s loop, `Granted` the reference
definition: the set of names a pattern grants. `mapIngress`, `mapGateway` and
`mapHTTPRoute` are what the three mappings keep of an object's names and when they
give up on it, `Refusals` what they report. Around them one pass: gather, the
GatewayClass mirror call by call (`ListClasses`, `DeleteClass`, `GetClass`,
`CreateClass`, `ReplaceClass`, `RecreateClass`, `UpdateClass`, `AcceptClass`), apply,
prune, refusals; operator and tenant edit meanwhile, the tenant its GatewayClasses too.

Abstractions: surrounding white space, which `canonical` trims and an API server does
not admit, is not modelled; every rule kept has a path whose backend resolves; the cut
of `summarize` after five messages is not reached; both clusters have the Gateway API.
Backends, limits, finalizers and collisions are `EndpointSync`'s.

## Runs

Every call of the syncer may fail, up to `MaxFaults` per behaviour (a crash
counts as one). One fault falls at every call of every pass; more faults than the
bound are inside what is proved.

| run | instance | states | shows |
|---|---|---|---|
| `storage_core` | 1 claim, 2 nodes, one VM mortal, 1 fault, class withdrawn at will, PVC force-deleted, tenant deleted | 1,600,000 | types; `SnapshotTruth`, `OneVM`, `HeldWhileCarried`, `AttachedMeansReady`, `GoneMeansClean`, `UnplugBeforeDelete`, `ForeignUntouched`, and `CustodyKept`, the refinement |
| `storage_live` | 1 claim, 1 mortal VM, 1 fault, finalizers of PVC and VolumeAttachment stripped at will, tenant deleted; fair | 304,000 | `VAReleased`, `StrayUnplugged`, `TeardownCompletes`, `AttachCompletes`, `TenantGoes`, `ReleaseAfterTeardown` |
| `endpoint_core` | 1 Service, 1 router that names it, 1 Gateway with a squatted name, limits 0 and 1, Services synced or not, 3 edits, 1 fault (of discovery too) | 4,270,000 | types; `RefusalByAge`, `LimitNeverTearsDown`, `ReleaseAfterPrune`, `BackendsKept`, `ForeignUntouched` |
| `endpoint_live` | 1 Service, 1 HTTPRoute, limits 0 and 1, each kind synced or not, 3 edits, 1 fault; fair | 450,000 | `EndpointAnswered`, `AddressShown`, `DeletedReleased`, `NothingLeaks` |
| `node_plugin` | 2 nodes, 2 faults; fair | 265,000 | types; `PodSeesVolume`, `DataKept`, `UnmountedBeforeUnplug`, `PodStarts` |
| `lifecycle_core` | 2 processes, 2 namespaces, 2 keys, 2 TenantClusters one after the other, 1 edit, 1 fault | 3,900,000 | types; `Covered`, `ReplacementKept`, `GuestAsNamed` |
| `name_authority` | 4 registrations, 2 classes, an Ingress, a Gateway and a route of two texts, 2 edits, 1 fault; all 155 names of up to 3 labels out of 5; fair | 225,000 | types; `AuthorityExact`, `PublishedAsWritten`, `WithdrawnStops`, `TellsTruth`, `ClassFollows` |

One claim and two nodes are what a move takes; claims meet only in `pruneFailed`,
which a fault of one claim already sets. Two claims on addresses and one limit are
what a refusal takes, three edits are create, create and change (or delete), each
at any point of a pass. `OneVM`, `HeldWhileCarried` and `CustodyKept` are stated for
a tenant that leaves VolumeAttachment finalizers alone: stripping one is how a
cluster-admin overrides the guard, and only `storage_live` allows it. A pod that
moves takes two nodes, and an uncertain call followed by the recovery from it two
faults. Two processes and two TenantClusters are what an overlap and a replacement
take. The three labels of a name are a wildcard, what it covers and one label too
deep; the five labels have two spellings of one, two with a star and the empty one.

Five further runs check what a comment or the README of the sources says and find
it violated; `findings` in `PROJECT.json` quotes the lines. The last column is what is
true, and checked, beside it.

| run | property | what happens | what is true |
|---|---|---|---|
| `storage_orphan` | `EveryDeleteUnplugged` | a PVC is force-deleted while its VolumeAttachment is active; the pass hotplugs the volume and then, on the VM state it read before, deletes the host PVC as an orphan | `UnplugBeforeDelete`: except of a volume of which the pass itself listed an active VolumeAttachment |
| `storage_unoffer` | `ReleaseAfterHost` | a class is withdrawn; the pass releases the finalizer of a live PVC whose host PVC exists | `ReleaseAfterTeardown`: of a claim that is going |
| `endpoint_misread` | `LimitNeverTearsDown` | with `MaxMisreads` = 1: a published claim over a lowered limit whose read fails is withdrawn and pruned | the same with `MaxMisreads` = 0, as long as the existence reads answer |
| `endpoint_stuck` | `UnwantedReleased` | a deleted NodePort backend keeps the finalizer for ever | `DeletedReleased`: of what is more than a backend and of a kind that is synced |
| `lifecycle_leftovers` | `EverythingDeleted` | of two processes in a rolling update one publishes on a copy read before the deletion while the other tears down | `Covered`, up to such an overlap |

`EverythingDeleted` fails for two more reasons, which the instance of `lifecycle_leftovers`
has and a shorter trace hides: with one process, an edit of `spec.hostNamespace`, since
the teardown looks in the new namespace only, or a failed discovery in the last teardown,
which drops the finalizer over Gateways and routes. `Covered` excuses exactly these.

Where the code falls short of what it says and a later pass makes it good, the project
checks that a later pass does:

- A failed apply blanks the address that the guest is shown (`writeback.go:74`):
  `AddressShown`, that what the host holds is shown again.
- A refused finalizer Update does not stop the host object from being made, so that its
  guest object may vanish at once (`pass.go:186-187`): `NothingLeaks`.
- A VolumeAttachment that is made during its claim's teardown is served from a PV that is
  terminating, and let go as a zombie with the volume in the VM (`storage_pass.go:282-285`):
  `StrayUnplugged`, that the volume then leaves the VM. `HeldWhileCarried` is about
  claims that have their PV.
- A failed discovery hides HTTPRoutes from a pass, which prunes their backends
  (`tenantcluster_controller.go:168-169`) and leaves the routes. `BackendsKept` is about
  the routers that the pass listed.

And where nothing makes it good, a property says less than its comment in the code:
`RefusalByAge` is what is true of the limit, admission by age alone, so an older claim
that becomes publishable late is admitted beside newer ones that are published already,
one more than the limit, where `src/README.md:195-196` has a limit stop growth.
`DeletedReleased` leaves out what is of a kind that is switched off, which keeps its
finalizer until the kind is switched on.

## Fairness

`WF_vars(Syncer)`, and `WF_vars(Pass)` in `NameAuthority`: the controller is one
worker that requeues after every pass (`RequeueAfter`, `interval`), so the next call
of a pass, or the next pass, is always made. KubeVirt applies its queue and VMIs
follow their spec (`ApplyRequest`, `LetGo`, `Plugging`, `Ready`, weakly fair per
slot). In `NodePlugin` the handler of an awaited call runs, the kubelet repeats what
has not succeeded and udev settles, each weakly fair per node; a handler that outlived
its call is owed nothing. Nothing is assumed of users, of the operator, of VMs coming
back, of the API servers' garbage collection or of the attach/detach controller, and
faults need not happen; they are finitely many, as a host or guest that fails for ever
makes no promise. `AttachCompletes` gives up when the VM or the claim goes,
`TeardownCompletes` when the volume is attached again, `PodStarts` when the pod or the
attachment goes.

## Proofs

`StorageSync_proofs` proves, for any sets of claims and nodes, any bound on
faults, and any of the powers of tenant and operator (`StorageAssumption` is all
that is assumed):

- `TypeCorrect`: `Spec => []TypeOK`, one lemma per group of actions.
- `SnapshotTruthHolds`: `Spec => []SnapshotTruth`. The invariant is inductive on
  top of `TypeOK`, and is the reason the deletes are safe: without a VM there is no
  volume; between the two lists of `VMs()` whatever is in a spec or queued for one
  was seen; afterwards whatever a VM carries the pass saw, or asked for itself. The
  argument is that only `PlugVA` puts a volume into a VM, so every other step keeps
  a snapshot that overstates (`Shrinks`, `KeepsSnap`), and `PlugVA` serves an
  active attachment. That a queued add counts as in the spec is what carries the
  first list over to the second.
- `UnplugBeforeDeleteHolds`: `Spec => UnplugBeforeDelete`. Three actions delete a
  host PVC, each under `SeenOut`, and the snapshot is true.

`StoragePass_proofs` goes on from there, still whatever the tenant strips. Its lemmas
`...Writers` say once which actions write a variable and how, so that later proofs
have a case per writer and not one per action; `Unread` and `Loops` are the shape of a
pass: a list not read yet is empty, and each loop runs over what was listed for it.

- `ForeignUntouchedHolds`: with `Foreign`, that a squatted claim has no PV, no volume
  in a VM and was listed as foreign by any pass that has listed the host.
- `GoneMeansCleanHolds`, from `LeaveInv`: only a volume with a host PVC has a phase
  (`PhaseBacked`); a teardown has listed every host PVC of ours (`LeaveLists`), and what
  of it is no longer in its loops is gone and out, unless the teardown is held up
  (`LeaveLoops`). The lists stay true because only a pass makes host PVCs and plugs
  volumes in, and a deleting tenant has none.
- `ReleaseAfterTeardownHolds`, from `TeardownInv`: the pass knows every PV
  (`PVListed`) and every host PVC of a deleting claim (`HostListed`), so that a claim
  its teardown is past and did not put into `want` is `Torn`.

`StorageCustody_proofs` proves what the storage slice is for, under one hypothesis,
`"VA" \notin TenantForces`: nobody strips our finalizer off a VolumeAttachment. A
cluster-admin who does overrides the guard, the guest then attaches elsewhere with the
volume still plugged in, and none of the following is true. The invariant has four parts,
each checked by TLC on the instance of `storage_core` before it was proved:

- `GuestOrder` and `PassOrder`: a PVC only moves on from where it was listed; a slot
  that the attach loop has not come to yet, and whose volume is in a VM, was seen there;
  a claim has one VolumeAttachment.
- `CustodyInv`: an active VolumeAttachment as listed still holds the finalizer
  (`ActiveHeld`), an ending one stays so (`EndingsStay`), and what a VM carries is held by
  one, or its claim is over (`HeldOrOver`). That is the order of pin, plug and release:
  `PlugVA` wants the pin, and `ReleaseVA` wants the volume out of a snapshot that errs
  only towards attached. With `ListedCarried`, that a volume in a VM while a pass has a
  VolumeAttachment of its claim is in the VM which that one names, it gives `OneVMHolds`
  and `HeldWhileCarriedHolds`.
- `ReadyInv`: which steps can take a volume out from behind a VolumeAttachment that
  stays. The orphan and sweep loops take only what has no PV (`HostStale`, `HostFresh`,
  `VABacked`, `Unlisted`), a move only what is served elsewhere, and no removal is
  queued for a volume that is Ready behind a VolumeAttachment to be served (`Settled`).
  Hence `AttachedMeansReadyHolds`.
- `CustodyStep`: with these, every step of `StorageSync` is for each claim a step of
  `VolumeCustody` or leaves it alone. `CreateVA` is `Ask`, `DeleteVA` is `Withdraw` or
  `End`, `PinVA` is `Hold`, `PlugVA` is `Plug`, `Ready` is `Appear`, `WriteVAStatus` is
  `Tell` or `Retract`, `ReleaseVA` is `Return`, what KubeVirt lets go of and a VM that goes
  are `Unplug`, and what ends a claim or a tenant is `Lapse` or `Depart`.
  `CustodyKeptHolds` follows, and with `CustodyInit` the refinement whole,
  `CustodyImplemented`: `Spec => Custody(c)!Spec` for every claim `c`.

So whatever is proved of `VolumeCustody` holds of `StorageSync`. `NodePlugin` asks no
more of the host than that (`HostIsCustody`), so its theorems rest on the passes that
really run.

`EndpointSync_proofs` does the same for `EndpointSync`, for any sets of objects,
any backends, shapes and limits and any bounds (`EndpointAssumption`, which has the
objects finitely many):

- `TypeCorrect`, again one lemma per group of actions.
- `PassInvariant`, the strengthening, checked by TLC on the instance of `endpoint_core`
  before it was proved. `HiddenTruth`: what a pass may not see for a failed discovery it
  has not listed, so it neither wants nor releases it. `PlanTruth`: what is desired or
  published is wanted; once the plan is made, what a router needs is wanted, and the
  wanted that is no longer desired collided with a foreign host object. `PruneTruth`:
  what is left to prune is owned, undesired and not hidden, and is all of that unless a
  list or a delete failed; what is left to release is unwanted, and nothing once one
  failed. Each part is what one stage hands the next, which is why none of the
  properties is inductive without it.
- From it `PassCleanHolds` (a pass whose lists and deletes succeed leaves nothing it
  does not want, but for what a failed discovery hid), `ReleaseAfterPruneHolds`,
  `BackendsKeptHolds` and `ForeignUntouchedHolds`. Only three steps change the host
  (`HostSteps`), so each theorem is about these.
- `LimitNeverTearsDownHolds`, under `MaxMisreads = 0`, adds `LimitTruth`: a
  published claim was found when the limit was applied, and is published on. The
  assumption is needed: `endpoint_misread` shows what one failed read does.
- `RefusalByAgeHolds`: whichever claims exist already, the loop refuses exactly the new
  ones that have as many older ones as the limit has room for. `LoopUnrolls` shows that the
  recursive function `admittedBefore` satisfies its own equation, `LoopCounts` that it
  counts one a turn up to the limit and never back below it. The library's induction
  theorems cannot be used, so both go by the least number at which the fact would fail
  (`LeastOne`, from the well-foundedness of `<`).

`VolumeCustody_proofs`: `CustodyPromise`, that whoever implements the contract has the
disk in one VM at most, in none without a lease while the guest names the volume, and
ready in front of every node that was told it is attached. The three are inductive only
together with each other.

`NodePlugin_proofs`, for any nodes and any number of faults:

- `TypeCorrect`, and `PluginInvariant`, the strengthening, checked by TLC on the
  instance of `node_plugin` first. `Promised` is the host's half, as above; `Formatted`
  that what is mounted, or about to be, has a filesystem; `InStep` how a node that is in
  order keeps its calls, the kubelet's view, its mounts and its VolumeAttachment
  together. The argument turns on one fact (`OneUser`): a node in order that uses the
  volume is attached, so it has the one disk, so no other node formats it and nobody
  unplugs it.
- From it `PodSeesVolumeHolds`, `DataKeptHolds` (only `Format` loses data, and it finds
  a disk blank that nobody had since) and `UnmountedBeforeUnplugHolds`.

`TenantLifecycle_proofs`, for any processes, namespaces, keys and bounds
(`LifecycleAssumption`):

- `TypeCorrect`.
- `CoveredHolds` and `ReplacementKeptHolds`, from `CoverInv`, checked by TLC on the
  instance of `lifecycle_core` first: a copy with the server's resourceVersion is the
  server's object (`Current`), only one that holds the finalizer is under deletion
  (`Pinned`), a teardown that was held up drops nothing (`NotHeld`); and, while no two
  deletions overlapped, what is on the host is in the namespace the TenantCluster names
  or excused (`Answered`), a process past the finalizer works for a TenantCluster that is
  there (`InHand`), one that tears down does so alone (`Alone`), and what it has been
  through is gone (`Emptied`).
- `GuestAsNamedHolds`, from `KeyInv`: until its key is edited, a TenantCluster, every
  copy of it and every client cached for it have the key it was created with.

`NameAuthority_proofs`, for any labels, names, registrations, classes and texts
(`NameAssumption`):

- `TypeCorrect`.
- `AuthorityExactHolds`: `Allowed` and `Granted` agree on every name of every length.
  The lemma `Exact` compares the loop's cases with the set; the equality of
  `Tail`s is where a wildcard's one label is decided.
- `PublishedAsWrittenHolds`: what the mappings keep is a subset of what was written and,
  by `Exact`, granted.

Every safety invariant and every action property of every passing run is a theorem.
Model-checked only are the liveness properties (`VAReleased`, `StrayUnplugged`,
`TeardownCompletes`, `AttachCompletes`, `TenantGoes`, `EndpointAnswered`,
`AddressShown`, `DeletedReleased`, `NothingLeaks`, `PodStarts`, `WithdrawnStops`,
`TellsTruth`, `ClassFollows`), which need fairness and ENABLED, which the prover does
not handle.

## Not modelled, and the plan

What can still be proved is the part of the liveness properties that is not temporal: that
a pass always has a next step, and the measures that the loops of a pass decrease.

Left out, and why:

- The mirrored StorageClasses and the node plugin DaemonSet
  (`applyGuestStorageClasses`, `applyGuestPlugin`): create-or-update of fixed objects that
  nothing in a pass waits for. `StorageSync` keeps of them whether a class is offered.
- `sanitizeName`, hashing and truncation: that two guest objects never share a host name
  rests on a hash, which a model could only assume. What happens when a name is taken is
  modelled, as a collision.
- `reconcilePorts`, address families and route filters as algorithms: their outcomes are
  `EndpointSync`'s shapes.
- Which object a host's rejection is told to (`hostOwner`), and guests without the Gateway
  API, which is a guest with no Gateways and HTTPRoutes.
- `spec.sync.storage`: `StorageSync` has it on. Off, a pass leaves the storage slice out
  whole, and no claim or attachment makes progress or is torn down until it is on again.
- Two controllers inside one storage or endpoint pass: `TenantLifecycle` has two, at the
  grain of whole objects.
- Generated code, flags and manager wiring, charts, wording, events, and counts in the
  TenantCluster's status.
