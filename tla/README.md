# A TLA+ specification of ocp-efa-operator

ocp-efa-operator deploys, on OpenShift or Kubernetes, what pods need to use EFA
network devices and GPUDirect RDMA copy: kernel modules (through KMM), node
feature rules and device plugins. This directory holds TLA+ models of its
controllers and device plugins, TLC configurations that check them, and proofs
checked by TLAPS. Source paths below are relative to the repository root.

## 1. Inventory

| Component | Source | State it keeps | Operations | Model |
|---|---|---|---|---|
| EfaDriver controller | `controllers/efadriver_controller.go` | `backOffDuration` per request; finalizer and `status.condition` of each EfaDriver; the objects it deploys | `Reconcile`, `CreateCluster`, `DeleteCluster`, `GetNodeStatus`, a create and a delete function per object, `SetupWithManager` | `DriverReconciler`, `EfaDriverController` |
| GdrdrvDriver controller | `controllers/gdrdrv_controller.go` | the same, with one Module and one ConfigMap per CUDA driver version | the same, without NodeFeatureRule | `DriverReconciler`, `GdrdrvDriverController` |
| EFA device plugin | `cmd/ocp-efa-device-plugin/dp.go` | its server and socket, the signal channel, two fsnotify watchers | `dpLoop`, `Serve`, `Stop`, `ListAndWatch`, `Allocate`, sysfs parsing | `EfaDevicePlugin` (without `Allocate`) |
| GDRDRV device plugin | `cmd/ocp-gdrdrv-device-plugin/dp.go` | the same, and the device file `/dev/gdrdrv` | the same, `createGdrDrvLoop`, `createGdrDrv`, `deleteGdrDrv` | `GdrdrvDevicePlugin` (without `Allocate`) |
| API types | `api/v1alpha1` | fields of the custom resources | generated deep copies | the fields that decide something |
| Operator process | `main.go` | none | start-up wiring | its restarts |
| Manifests, bundle, images, tests | `config`, `bundle`, `Makefile`, `test` | none | none | not modelled |

**How they interact.** Controllers meet users, node feature discovery (NFD),
KMM, the garbage collector and each other only in the API server. They read
drivers (EfaDrivers or GdrdrvDrivers) and deployed objects from informer caches,
which lag behind; a change of a driver, or of an object it owns, puts its name
in the work queue. Writes carry the resourceVersion of the copy they were made
from and are rejected when it is old. `GetNodeStatus` reads node labels that NFD
writes because of the NodeFeatureRule the controller deployed a moment before,
or that tell the version of the CUDA driver. A device plugin meets the kubelet
in a directory of sockets: the plugin serves and registers one; a starting
kubelet wipes the directory and creates its own socket again, which is the
plugin's only sign to register again. Processes of the GDRDRV plugin on one node
meet in that socket and in `/dev/gdrdrv`.

**What is hard.**

* Reconcile decides from a cached driver that may be deleted, or deleted and
  created again under the same name, before its next call arrives.
* Most failures of `CreateCluster` and `DeleteCluster` are recorded in the
  status and then dropped: the retry hangs on the watch event of that write.
* A write may be applied and its answer lost; the operator may restart between
  any two writes and then has nothing but the stored finalizer and conditions.
* `DeleteDevicePlugin`, `DeleteDevicePluginScc` and `DeleteNFR` trust the cache,
  `DeleteKmm` and `DeleteConfigMap` do not.
* At most one driver is to be active, which each reconciliation decides from
  an unordered, outdated list.
* The loop over CUDA versions may fail after any Module, and the versions on the
  nodes may be other ones when the driver is deleted.
* The kubelet may restart, and devices may come and go, at any point of `Serve`
  and `ListAndWatch`.
* `/dev/gdrdrv` outlives the process that made it when that process is killed,
  and is made from a major number that is good as long as the module is loaded.

**What correct means.** For the controllers: nothing is deployed for a
driver that does not hold the finalizer, and a driver does not go before its
kernel modules; no wake-up is lost; deletions finish; Modules cover the
kernels of the nodes; one driver is active. For the device plugins: no restart
of the kubelet and no change of the devices is missed; the device file has one
owner and the right number; whatever happens, the kubelet ends up with the
devices there are. `PROJECT.json` lists each hazard at its line with the property
that covers it.

## 2. Modules

| Module | Content |
|---|---|
| `DriverContract` | the abstract life of a custom resource and its objects |
| `DriverReconciler` | `Reconcile`, which both controllers have word for word but for type names, the ways to create and delete an object, caches, queue, API server, users; the properties both controllers share and the refinement mapping to `DriverContract` |
| `EfaDriverController`, `MCEfaDriverController` | extends it by `CreateCluster` and `DeleteCluster` of an EfaDriver and by NFD's counting |
| `GdrdrvDriverController`, `MCGdrdrvDriverController` | extends it by those of a GdrdrvDriver, with a Module for each version |
| `EfaDevicePlugin`, `MCEfaDevicePlugin` | one process, the kubelet and the devices of one node, every call of `Serve` |
| `GdrdrvDevicePlugin`, `MCGdrdrvDevicePlugin` | several processes, the device file and the kernel module of one node, with coarser steps of `Serve` |
| `DriverContract_proofs` | what the contract gives |
| `DriverReconciler_proofs` | types, ownership and guarded builds of every controller of the form `ReconcilerSpec` |
| `DriverReconciler_refinement` | every such controller implements the contract |
| `DriverReconciler_wakeups` | no such controller loses a wake-up or brings an Ignored driver back; lemmas on what it has ensured when it rests |
| `EfaDriverController_proofs`, `GdrdrvDriverController_proofs` | the two controllers are of that form; they rest only when they are done and all kernels, or versions, are covered |
| `EfaDevicePlugin_proofs`, `GdrdrvDevicePlugin_proofs` | types, registration and reports; types, device file and reports |

No module declares a RECURSIVE operator.

## 3. The controllers

One step is one API call of a reconciliation together with the code up to the
next call; `pc` names the call that comes next. Between two steps the rest of
the cluster may do anything. Actions have the names of the functions:

| Model (`DriverReconciler`) | Code (`controllers/efadriver_controller.go`) |
|---|---|
| `TakeNothing`, `Take`, `NextStep` | `Reconcile` up to its first write: the List, the scan for the requested driver and for an active one before it, the early returns |
| `Ignore`, `AddFinalizer`, `FirstStatus`, `MarkDeleting`, `ResetError`, `Branch` | the writes of `Reconcile` before `CreateCluster` or `DeleteCluster` |
| `Ensure` | Get from the cache, Create if not found; each may fail (`ReadFails` is a Get that does) |
| `Remove`, `RemoveCached` | Delete or DeleteAllOf; the same after a Get from the cache |
| `RemoveFinalizer`, `RecordOutcome`, `Return*` | the end of `Reconcile`: the condition is written only when it differs; the error of this write replaces that of the outcome |
| `GetRequeueAfter` | one more second per requeue; the code knows no limit, the model stops counting at `MaxBackOff` |
| `SyncDriver`, `SyncChild` | watch events (For and Owns of `SetupWithManager`): the cache follows and the owner is enqueued |
| `Restart` | the process: queue, timers and back-offs are lost, caches are listed again |

State: `cr` is what the API server stores of a driver (uid 0 if none),
`child[n][k]` the owner uid of the object of kind `k` that n's name determines,
`mapped` what a Module has kernel mappings for, `node` the labels of nodes.
`crCache` and `childCache` are the informers' copies and `pending` the events
under way. `efa` is the worker's copy of the driver and `fresh` whether it has
the stored resourceVersion. A failed write covers three outcomes: rejected
because of an old copy, failed, applied with a lost answer. A deletion of
several objects that fails may have deleted any of them.

`EfaDriverController` has the steps `CreateNFR` ... `CreateDevicePlugin` and
`DeleteDevicePlugin` ... `DeleteNFR` in the order of `CreateCluster` and
`DeleteCluster`; its `GetNodeStatus` skips nodes without kernel label and
requeues when a node is not counted yet. In `GdrdrvDriverController`,
`GetNodeStatus` collects pairs of version and kernel, and
`kernelVers` holds what the loop has still to build for: `CreateKmmDockerfile(v)`
takes any version that is left, as Go's map iteration does, and `CreateKmm(v)`
takes its pairs off. Where this loop is, `pc` names the Module to create.
`DeleteKmm` and `DeleteConfigMap` are DeleteAllOf by label.

External parts (marked so in the map) are the API server's finalizers and
conflicts, watches, the rate limiter, the garbage collector and NFD, each as
far as the code depends on it. The rate limiter and `RequeueAfter` share
`delayed`: time is abstracted to "later".

## 4. The device plugins

In `EfaDevicePlugin`, `pc` follows `dpLoop` through `Serve`, `lw` the handler of
the kubelet's ListAndWatch stream. `created` counts the Create events of
`kubelet.sock` the watcher holds, `sigChan` is the channel of size one, `changes`
the device events the handler has not seen and `lost` says that the watched
directory is gone. `socket` is the file of the plugin in the kubelet's directory:
of the running server, of an older process, or none. `view` is what the kubelet
advertises.

A call of `Serve` that cannot succeed (the kubelet is down, the socket was
wiped) ends as its time-out ends it: `Serve` fails, the process exits, the
container is restarted. A call that could succeed may time out as well
(`MaxTimeouts`). Abstractions: the kubelet connects to the socket as part of
`Register`, and notices a broken stream at once.

`GdrdrvDevicePlugin` has the same loop for a set of pods that share the socket,
the kubelet's one connection for the resource, and the device file. `major` is
the number the kernel gave to the loaded module, `read[p]` the one p read from
`/proc/devices`, `file` the number `/dev/gdrdrv` has, `createdDevFile[p]` the
variable of that name, `maker` the process that really made the file. Two
processes meet when a DaemonSet is deleted and created again: the pods of the
new one do not wait for those of the old one (`Delete`). `unclean` records that
a process was killed, or that the module was unloaded under a process that goes
on with its number; no code of the repository runs in the first case or notices
the second.
`Serve` is two steps (up to the listening server, and its dialling and
registering), a restart of the kubelet is one; `EfaDevicePlugin` has the finer
interleavings of the same code. `Listen` takes the socket away from whoever has
it, and `Stop` removes it whoever has it, as `DeleteSocket` does.

## 5. Runs

| Run | Question | Instance |
|---|---|---|
| `EfaLifecycle` | Do types, `FinalizerGuards`, `NoModuleLeftBehind`, `BuildsOnlyGuarded` hold, is `DriverContract` implemented, and does the Module cover all kernels (`KernelsCovered`), when a driver is deleted and created again under its name? | two nodes, two kernels, each node with kernel labels or without, counted late, one of them relabelled; the driver cache lags; any call fails or loses its answer; a restart |
| `EfaLiveness` | Does the controller ever come to rest over a driver that is not Ready or lacks an object it must have (`RestsOnlyWhenDone`)? Do deletions finish (`DeletionCompletes`), does the cluster converge (`Converges`)? | fairness; the caches of driver and DaemonSet lag, a failing call or lost answer, an object deleted by a user, a restart; the node is counted late |
| `EfaTwoDrivers` | Does an ignored driver stay ignored (`IgnoredIsFinal`), with objects guarded? | two names, lagging driver cache, a fault |
| `GdrLifecycle` | Does a Module of any version outlive its driver (`NoModuleLeftBehind`)? Does the controller rest before every version has a Module with all its kernels (`RestsOnlyCovered`)? | two nodes, two versions, two kernels in all combinations; a failing call, a deleted object, a node relabelled at any time, a restart, the cache of one Module lags |
| `DpReports` | Is any kubelet restart (`RegisteredWhenQuiet`) or device change (`ReportIsCurrent`) missed, and does the kubelet end up with the node's devices (`Advertised`)? | fairness; two kubelet stops, two signals, two device changes, a time-out |
| `GdrDevicePlugin` | Does the device file always have one owner, who removes it (`FileHasOneOwner`)? Has it the number of the loaded module (`FileIsFresh`)? Are reports current (`ReportIsCurrent`), and is the device advertised in the end (`Advertised`)? | fairness; two processes, two major numbers, two loads, three faults of any kind: signals, kills, deletions, kubelet restarts, hot unloads, failing calls |

Five runs on the controllers and one on a plugin show where the code does not
do what the repository says of it; the findings quote both sides.

| Run | What TLC finds |
|---|---|
| `EfaTwoActive` | The scan for an active driver stops at the requested one. A driver listed after it is not seen, and lists from the cache come in no fixed order: two drivers are deployed. |
| `EfaAllIgnored` | Two drivers created together each see the other one, not ignored yet in the cache: both are Ignored, for good. |
| `EfaIgnoredDeletion` | A driver that holds the finalizer when it is Ignored cannot be deleted: `Reconcile` returns for Ignored drivers before it looks at the deletion. |
| `EfaDaemonSetLost` | `CreateDevicePlugin` tests the error of Create the other way round: a failure counts as success, and the driver is Ready without its DaemonSet. |
| `GdrVersionsLate` | `GetNodeStatus` of the GdrdrvDriver controller never counts a node as waiting, and nodes enqueue nothing: a version labelled after it looked gets no Module. |
| `DpNoDirectory` | `ListAndWatch` returns at once when `/dev/infiniband` is not there yet; nothing starts it again. |

As `Reconcile` and the Create of the DaemonSet are the same code in both
controllers, the first four hold for GdrdrvDrivers as well.

`CheckedCalls` leaves the DaemonSet's Create out of the failing calls in the
runs of `RestsOnlyWhenDone`, `RestsOnlyCovered`, `Converges` and their like:
`EfaDaemonSetLost` shows what happens there. For similar reasons `DirAlways` is
TRUE in `DpReports`, and `DeletionCompletes` is checked for one name.

What an EfaDriver must have is `Due`: NodeFeatureRule, dockerfile, DaemonSet, on
OpenShift the SecurityContextConstraints, and the Module if a labelled node has an
EFA device.
`RestsOnlyWhenDone`, `Converges`, `KernelsCovered` and `RestsOnlyCovered` ask for
Modules only while no node has changed its labels: nothing looks at the nodes
again once a driver is Ready, and a Module that is there is never updated.
So a cluster whose only EFA node is labelled after the EfaDriver is Ready stays
without a Module for good, although the operator is to "automatically detect EFA
devices" (`README.md`:8): these properties leave this case out, and
`GdrVersionsLate` shows its like for CUDA versions. A node that is labelled but
not counted yet is in the runs: the controller does wait for it.

Some combinations are left to the proofs, which have none of these bounds. In
the run of `KeepsContract` only the driver's cached copy lags, so that the deletions
of DaemonSet, SecurityContextConstraints and NodeFeatureRule are never skipped
there. In `GdrLifecycle` no driver is created again under its name. In `EfaTwoDrivers`
the operator does not restart.

`Advertised` of the GDRDRV plugin leaves out hand-overs, in which a deleted
process still runs next to one that stays. There it is violated: the new process
accepts the file of the old one (Mknod answers EEXIST), the old one removes the
file when it ends, and nobody makes it again. The repository says nothing of two
processes, so that this is a condition of the property and no finding.
`FileIsFresh` has the condition `~unclean` for a like reason: the file a killed
process leaves is accepted whatever its number.

**Bounds.** `MaxBorn = 2` lets a driver be deleted and created again, which is
the case in which copies and owners of two drivers with one name can be
confused; the proofs cover more. `MaxFaults`, `MaxCrashes`, `MaxChildDeletes` and
`MaxNodeChanges` of one put one fault at every point of every reconciliation; as
the code keeps no count of failures, a second one meets a state the first one
can produce. Two versions and two nodes are what it takes for a loop that fails
half way and for a version with two kernels. `LateEvents` names the copies whose
watch events may be overtaken: the driver in `EfaLifecycle` and `EfaTwoDrivers`,
in `EfaLiveness` also the DaemonSet, which is deleted through the cache, in
`GdrLifecycle` a Module of the loop. Events not listed are delivered before
anything else happens. `MaxBackOff` only saturates the seconds of the back-off,
of which the code asks whether there are any. In `GdrDevicePlugin` two loads
with two numbers let a file be out of date, and three faults let, say, a
kill, a signal and a failing call meet. Deadlock is not checked:
with all bounds used up and no driver, a cluster at rest has nothing to do, as
has a terminated plugin.

**Fairness.** One worker goroutine runs whenever it is enabled (weak fairness of
`Reconcile`); the work queue is first in, first out, so a queued request is
taken in the end (strong fairness per name: a request may leave the head
while another one runs). Watches, timers, the garbage collector and the counting
of NFD are processes of their own. Users, faults and restarts are not fair and
are bounded: liveness is what holds once they stop. In the plugins, the goroutine
of `dpLoop` and the handler are fair, a stopped kubelet is started again by the
node and an exited container by the kubelet (`restartPolicy: Always` of a
DaemonSet), unless its pod is deleted. That signals are served is not assumed:
`select` picks any ready channel, and each is ready only a bounded number of
times.

## 6. Proofs

For every set of names, nodes, kernels, versions, devices and pods, every choice
of failing calls and late events and every bound:

| Module | Theorem | Statement |
|---|---|---|
| `DriverReconciler_proofs` | `ReconcilerGuards` | `ReconcilerSpec => []FinalizerGuards` |
| | `ReconcilerLeavesNoModule` | `ReconcilerSpec => []NoModuleLeftBehind` |
| | `ReconcilerBuildsGuarded` | `ReconcilerSpec => BuildsOnlyGuarded` |
| `DriverReconciler_refinement` | `ReconcilerKeepsContract` | `ReconcilerSpec => KeepsContract`, the refinement of `DriverContract` |
| `DriverReconciler_wakeups` | `ReconcilerRestsSettled` | `ReconcilerSpec => []RestsOnlyWith({})` |
| | `ReconcilerIgnoresForGood` | `ReconcilerSpec => IgnoredIsFinal` |
| `EfaDriverController_proofs` | `TypeCorrect` | `Spec => []TypeOK` |
| | `FinalizerAlwaysGuards`, `ModuleNeverLeftBehind`, `BuildsAreGuarded`, `ContractKept`, `IgnoredForGood` | the statements of `ReconcilerSpec` on ownership and Ignored drivers, for `Spec` |
| | `RestsCertain` | `Spec => []RestsOnlyWith(Certain)`, whichever calls fail |
| | `RestsDone` | if the DaemonSet's Create does not fail, `Spec => []RestsOnlyWhenDone` |
| | `KernelsAlwaysCovered` | `Spec => []KernelsCovered` |
| `GdrdrvDriverController_proofs` | `NoVersionLeftBehind` | `Spec => []NoModuleLeftBehind`, for any number of versions |
| | `GdrdrvContractKept`, `GdrdrvIgnoredForGood` | `Spec => KeepsContract /\ BuildsOnlyGuarded /\ []FinalizerGuards`, `Spec => IgnoredIsFinal` |
| | `GdrdrvRestsCertain` | `Spec => []RestsOnlyWith(Certain)`, whichever calls fail |
| | `VersionsAlwaysCovered` | while no node has changed its labels, `Covers(n)` at every rest over an active driver n |
| | `RestsCovered` | if the DaemonSet's Create does not fail, `Spec => []RestsOnlyCovered` |
| `DriverContract_proofs` | `NothingPinnedOrphaned` | no kind of `Pinned` is ever left without owner |
| `EfaDevicePlugin_proofs` | `TypeCorrect` | `Spec => []TypeOK` |
| | `RegisteredWhileHandled` | `Spec => [](lw # "none" => RegisteredWhenQuiet)` |
| | `RegistrationKept` | with `DirAlways`, `Spec => []RegisteredWhenQuiet` |
| | `ReportsAreCurrentUntilLost` | `Spec => [](~lost => ReportIsCurrent)` |
| | `ReportsAreCurrent` | with `DirAlways`, `Spec => []ReportIsCurrent` |
| `GdrdrvDevicePlugin_proofs` | `GdrdrvPluginTypeCorrect` | `Spec => []TypeOK` |
| | `OneOwner` | `Spec => []FileHasOneOwner` |
| | `FileStaysFresh` | `Spec => []FileIsFresh` |
| | `GdrdrvReportsAreCurrent` | `Spec => []ReportIsCurrent` |

They use only the assumptions the modules name: `NoReq` is no name, `NoKernel`
no kernel, kinds of objects do not have the names of steps, each version has a
dockerfile and a Module of its own, bounds are naturals, pods do not have the
names of a stale socket. Three conditions are written where they are needed.
`DirAlways`: `DpNoDirectory` shows what happens without it, and
`RegisteredWhileHandled` and `ReportsAreCurrentUntilLost` say how much is left.
That the Create of the DaemonSet does not fail (`"CreateDevicePlugin" \notin
FaultyCalls`): `EfaDaemonSetLost` shows why; `RestsCertain` and
`GdrdrvRestsCertain` are without it, and if that Create may fail their `Certain`
leaves the DaemonSet out. `used.nodeChanges = 0`, where Modules and their kernels
are concerned, is written into `Due`, `KernelsCovered`, `RestsOnlyCovered` and
`VersionsAlwaysCovered`: section 5 says, and `GdrVersionsLate` shows, what happens
to nodes that get other labels later. So `Certain` has the Module of an EfaDriver as long
as no node has changed its kernel labels; the Modules of a GdrdrvDriver are the matter
of `VersionsAlwaysCovered`.

*One proof for both controllers.* `ReconcilerSpec` is what the proofs need of a
controller: `Reconcile` as it is; a `CreateCluster` whose steps each ensure some
object, look around or fail to, in any order and for whatever they find; a
`DeleteCluster` whose steps each remove some objects or none, where a
step goes past `DeleteKmm` and past `DeleteConfigMap` only if it removes all
Modules and all dockerfiles (`InOrder`); and the rest of the cluster. Each
controller then has to show only that its own steps are of these forms, and
inherits the theorems: its `Spec` implies `ReconcilerSpec`, over the same
variables.

*The ownership invariant.* `FinalizerGuards` is not inductive: `CreateCluster`
creates objects for the driver as the worker remembers it, and the worker
remembers it from the cache. The invariant `IInv` therefore says what an outdated
copy of a driver may still be trusted for. If the driver it was taken from still
exists, finalizer and deletion timestamp stay once set, and the condition
Deleting comes after the timestamp (`Older`). A copy with the finalizer and no
timestamp is a copy of a driver that still exists (`Alive`): between that copy
and the driver's removal lies the write of RemoveFinalizer, by this very worker,
from a copy that has the timestamp; and `Knows` says that the worker's copy never
knows more of a deletion than the cache does later. `HandInv` ties the worker's
place in the code to its copy: it builds only with a copy of the kind `Alive`
speaks of, tears down only with the timestamp, and passes `DeleteKmm` and
`DeleteConfigMap` only when those objects are gone. One lemma per action, or per
form of action (`WrittenInv`, `UpdateErrInv`, `EnsureInv`, `RemoveInv`, ...),
shows that `IInv` is kept.

That one worker writes is essential to this argument: it is what
`MaxConcurrentReconciles` (1 by default) and leader election provide.

*The refinement.* Every step is of one of a few kinds (`ReconcileKind`,
`EnvironmentKind`): it leaves drivers and objects alone, it writes the
reconciled driver, builds, loses objects, or is a user's. `IInv` gives for
each kind the step of the contract: a write that applies was made from the stored
driver, so it advances it or, at the end of `DeleteCluster`, releases it when
Modules and dockerfiles are gone; a build has the owner and the finalizer that
`Alive` promises; a user deletes at once only drivers without finalizer, which
own nothing.

*Wake-ups.* That the controller never rests over unfinished work is again proved
once, for `ReconcilerSpec`. A driver is `Awake` when it is queued, backed off, or a
watch event for it or for one of its objects is under way. `Placed` says that each
active driver but the one the worker holds is awake or settled, and the invariant
`WakeInv` adds what has to be known when the worker puts a driver down:
`CachesFollow`, that a cached object without an event under way is up to date, and
`WorkerInv`, that the driver in hand is awake if the worker's copy is outdated, that
the copy is not Ignored, and that an outcome is not mistaken for recorded because of
a condition an earlier reconciliation left (the copy has no condition Error past
`ResetError` and `MarkDeleting`). Each write leaves an event under way (`Alerts`), so
a reconciliation ends with its driver awake (`EndsAwake`) or with nothing to write
(`EndsReady`). This is why an error that `RecordOutcome` swallows is retried: the
Status().Update that overwrites it is the wake-up. `IgnoredIsFinal` follows as well:
the worker's copy is never Ignored, and a write from an older copy is rejected.

*Objects at rest.* In what order objects are made is the controller's own.
`EnsureEnsures` says what Get and Create give: the object is there, or its event
is under way, or its driver is queued (`Ensured`); `EnsuredStays` that this lasts for
the reconciliation, whatever users delete meanwhile; and `PlacedWithStep` that a driver
put down as Ready with an object ensured has that object or is awake. A controller
shows with `Progress` that it is past the steps of its objects when the outcome is
Ready. `ModuleInv` of the EfaDriver controller follows the kernels from
`GetNodeStatus` into the Module and, like the invariant `Steady` of the other objects,
says that a driver put down as Ready has it; no other step may change the nodes'
kernels, which is where `used.nodeChanges = 0` comes in. For GdrdrvDrivers, `LoopInv` is the invariant of the
loop over a map: what is left to build for consists of whole versions, every other
version is ensured, and a Module is only reached after its dockerfile; `MappingInv`
says that a Module that is there has all kernels of its version, however often the
loop was broken off and started again. The parts of these invariants were checked by
TLC on the instances of the runs before they were proved.

*The EFA device plugin.* `KubeletInv` weakens `RegisteredWhenQuiet` by the one way
out, a handler that has returned for want of its directory. It is inductive with the
types: a connection of `Serve` does not outlive the kubelet it was made to, and the
watch on the directory precedes the first `Serve`. `ReportInv` adds to
`ReportIsCurrent` that a report about to be sent is outdated only when an event
waits in the watcher, or the directory is lost. The `ReportInv` of the GDRDRV plugin
is its like: `/dev` is always there, and whichever process makes or removes the file,
the handler of the connected one gets an event.

*The device file.* `Owned` adds to `FileHasOneOwner` that the owner is past
Mknod, where a failure ends it without a look at the file. `Current` says that,
as long as nothing unclean happened, every process past the wait has read the
number of the loaded module and every file has an owner: a file can then be
accepted only while its maker still runs, with the number that is still good.

*Only model-checked:* liveness (`DeletionCompletes`, `Converges` and the two
`Advertised`), which is out of the prover's reach, as are ENABLED and induction over
data. Every invariant and every action property of the passing runs is proved, under
the conditions above.

## 7. What is not modelled

* `Allocate` and the device ids of both plugins and the parsing of sysfs and
  `/proc/devices`: functions without state.
* Changes of a driver's spec, objects of other makers under the same names, and
  the two controllers meeting under one name: SecurityContextConstraints are
  named after driver and service account only.
* A Delete takes effect at once: foreground deletion and KMM's own finalizers
  on Modules are left out, as is what KMM does with a Module. Kernel versions are
  values: that the regular expressions in a Module's mappings match a prefix is
  left out.
* Two operators at once, when leader election is off or a lease changes hands.
* A List of drivers that fails. `Reconcile` tests the length of the list before the
  error and would drop the request, but a List from the informer cache fails only
  before the cache is filled, for which the workers wait.
* Errors of fsnotify and of Unlink, panics, changes of permissions, and other
  programs that make or remove `/dev/gdrdrv`.
* The lag of the node cache: `GetNodeStatus` reads the labels there are; a label the
  cache does not show yet is a label that comes later.
* Labels of NFD other than kernel version, device count and CUDA version.
* API registration, generated deep copies, manifests, the bundle and images: no
  behaviour of their own.
