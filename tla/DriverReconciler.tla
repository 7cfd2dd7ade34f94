-------------------------- MODULE DriverReconciler --------------------------
(***************************************************************************)
(* What the EfaDriver and the GdrdrvDriver controller of ocp-efa-operator  *)
(* have in common - Reconcile, which the two of them have word for word,   *)
(* and the ways to create and to delete an object - and the part of        *)
(* Kubernetes they talk to.                                                *)
(*                                                                         *)
(* One worker runs Reconcile for one request at a time.  It reads drivers  *)
(* and the objects it deploys from informer caches, which lag behind the   *)
(* API server, and writes to the API server, which may reject a write made *)
(* from an old copy, fail, or apply a write whose answer is lost.  Between *)
(* two API calls of a reconciliation users, the garbage collector, the     *)
(* labelling of nodes and the watches move.                                *)
(*                                                                         *)
(* A step of the model is one API call together with the code up to the    *)
(* next one.  `pc' names the call the running reconciliation makes next.   *)
(* The steps of CreateCluster and DeleteCluster and the labels of a node   *)
(* are left to the modules that extend this one.                           *)
(***************************************************************************)
EXTENDS Naturals, FiniteSets

CONSTANTS
    Names,            \* names a driver may be created under
    NoReq,            \* "no request is being reconciled"
    Kinds,            \* the objects deployed for a driver
    Modules,          \* those of them that are KMM Modules
    Dockerfiles,      \* those of them that are dockerfile ConfigMaps
    Builds,           \* what a Module has a kernel mapping for
    Nodes,            \* cluster nodes
    Labels,           \* what the labels of a node may say
    OpenShift,        \* spec.openShift of the drivers
    FaultyCalls,      \* the calls that may fail, named as in pc
    LateEvents,       \* bound: the copies, "cr" or a kind, whose watch events may come late
    MaxBorn,          \* bound: drivers ever created
    MaxFaults,        \* bound: API calls that fail or lose their answer
    MaxChildDeletes,  \* bound: deployed objects deleted by a user
    MaxCrashes,       \* bound: restarts of the operator
    MaxNodeChanges,   \* bound: changes of a node's labels that are counted
    MaxBackOff        \* bound: seconds at which the modelled back-off saturates

CreateSteps == {"CreateCluster", "CreateKmmDockerfile", "GetNodeStatus", "CreateKmm",
                "CraeteDevicePluginScc", "CreateDevicePlugin"}
DeleteSteps == {"DeleteDevicePlugin", "DeleteDevicePluginScc", "DeleteKmm",
                "DeleteConfigMap", "DeleteNFR", "RemoveFinalizer"}
StatusSteps == {"Error", "DeviceDiscovery", "Ready"}
StartSteps  == {"Ignored", "AddFinalizer", "FirstStatus", "MarkDeleting", "ResetError"}

\* Where CreateCluster has a loop, the Module to create next stands for the step.
PCs == {"idle"} \cup StartSteps \cup CreateSteps \cup Modules \cup DeleteSteps \cup StatusSteps

ASSUME NamesAssumption  == NoReq \notin Names
ASSUME KindsAssumption  ==
    /\ Modules \subseteq Kinds /\ Dockerfiles \subseteq Kinds
    /\ Kinds \cap ({"idle", "cr"} \cup StartSteps \cup CreateSteps \cup DeleteSteps \cup StatusSteps) = {}
ASSUME SpecAssumption   == OpenShift \in BOOLEAN
ASSUME BoundsAssumption ==
    /\ MaxBorn \in Nat /\ MaxFaults \in Nat /\ MaxChildDeletes \in Nat
    /\ MaxCrashes \in Nat /\ MaxNodeChanges \in Nat /\ MaxBackOff \in Nat

VARIABLES
    \* kept by the API server
    cr,          \* cr[n]: the driver named n
    child,       \* child[n][k]: uid of the driver that owns n's object k, 0 if there is none
    mapped,      \* mapped[n][k]: what n's Module k has a kernel mapping for
    node,        \* node[m]: labels of a node
    \* kept by the informers of the operator
    crCache,     \* cached copy of cr
    childCache,  \* cached copy of child
    pending,     \* pending[n]: the copies a watch event is under way for, n's objects and "cr"
    \* kept by the controller
    queue,       \* requests ready to be reconciled
    delayed,     \* requests waiting for a back-off to expire
    backoff,     \* r.backOffDuration, in seconds
    \* the running reconciliation
    pc,          \* the function or write that runs next, "idle" between requests
    req,         \* its request
    efa,         \* its copy of the driver
    fresh,       \* whether efa has the stored resourceVersion
    kernelVers,  \* what GetNodeStatus returned and CreateKmm has still to build for
    \* history, for the bounds
    used

store   == <<cr, child, mapped, node>>
caches  == <<crCache, childCache, pending>>
control == <<queue, delayed, backoff>>
worker  == <<pc, req, efa, fresh, kernelVers>>
vars    == <<store, caches, control, worker, used>>

Conditions == {"", "Creating", "Ready", "Error", "Deleting", "DeviceDiscovery", "Ignored"}

\* uid is 0 when there is no such driver; fin is the operator's finalizer,
\* del says that deletionTimestamp is set.
Driver == [uid : Nat, cond : Conditions, fin : BOOLEAN, del : BOOLEAN]
NoCR   == [uid |-> 0, cond |-> "", fin |-> FALSE, del |-> FALSE]
Exists(d) == d.uid # 0

Counters == {"born", "faults", "childDeletes", "crashes", "nodeChanges"}

\* While a reconciliation runs it has a request and a copy of an existing driver.
TypeOK ==
    /\ cr \in [Names -> Driver]
    /\ child \in [Names -> [Kinds -> Nat]]
    /\ mapped \in [Names -> [Kinds -> SUBSET Builds]]
    /\ node \in [Nodes -> Labels]
    /\ crCache \in [Names -> Driver]
    /\ childCache \in [Names -> [Kinds -> Nat]]
    /\ pending \in [Names -> SUBSET (Kinds \cup {"cr"})]
    /\ queue \in SUBSET Names
    /\ delayed \in SUBSET Names
    /\ backoff \in [Names -> Nat]
    /\ pc \in PCs
    /\ req \in Names \cup {NoReq}
    /\ efa \in Driver
    /\ pc # "idle" => req \in Names /\ Exists(efa)
    /\ fresh \in BOOLEAN
    /\ kernelVers \in SUBSET Builds
    /\ used \in [Counters -> Nat]

\* The operator starts on a cluster with no driver, whose nodes have some labels.
StartOn(labels) ==
    /\ cr = [n \in Names |-> NoCR]
    /\ child = [n \in Names |-> [k \in Kinds |-> 0]]
    /\ mapped = [n \in Names |-> [k \in Kinds |-> {}]]
    /\ node \in [Nodes -> labels]
    /\ crCache = cr
    /\ childCache = child
    /\ pending = [n \in Names |-> {}]
    /\ queue = {}
    /\ delayed = {}
    /\ backoff = [n \in Names |-> 0]
    /\ pc = "idle"
    /\ req = NoReq
    /\ efa = NoCR
    /\ fresh = FALSE
    /\ kernelVers = {}
    /\ used = [c \in Counters |-> 0]

-----------------------------------------------------------------------------
(***************************************************************************)
(* API calls and returns of a reconciliation                               *)
(***************************************************************************)

\* Only the copies in LateEvents lag behind while other things happen.
Prompt == \A n \in Names : pending[n] \subseteq LateEvents

At(step) == pc = step /\ Prompt

Spend(c, max) == used[c] < max /\ used' = [used EXCEPT ![c] = @ + 1]
Fault         == pc \in FaultyCalls /\ Spend("faults", MaxFaults)

\* A stored object changes: the watch is to deliver it to the cache.
Notify(n, object) == pending' = [pending EXCEPT ![n] = @ \cup {object}]

Goto(step) == pc' = step /\ UNCHANGED <<req, control>>

Idle == /\ pc' = "idle" /\ req' = NoReq /\ efa' = NoCR /\ fresh' = FALSE /\ kernelVers' = {}
        /\ UNCHANGED queue

\* return ctrl.Result{}, nil before the end of Reconcile
ReturnEarly == Idle /\ UNCHANGED <<delayed, backoff>>

\* delete(r.backOffDuration, req.String()); return ctrl.Result{}, nil
ReturnDone == Idle /\ UNCHANGED delayed /\ backoff' = [backoff EXCEPT ![req] = 0]

\* One more second each time.  The code has no limit: the model only stops
\* telling durations of MaxBackOff seconds and more apart.
GetRequeueAfter(d) == IF d < MaxBackOff THEN d + 1 ELSE MaxBackOff

\* return ctrl.Result{Requeue, RequeueAfter: r.GetRequeueAfter(ctx, req)}, nil
ReturnRequeue ==
    /\ Idle
    /\ delayed' = delayed \cup {req}
    /\ backoff' = [backoff EXCEPT ![req] = GetRequeueAfter(@)]

\* Slip: an error ends the request without a retry.
ReturnErrDropped == Idle /\ UNCHANGED <<delayed, backoff>>

\* return ctrl.Result{}, err: the rate limiter re-adds the request
ReturnErr == Idle /\ delayed' = delayed \cup {req} /\ UNCHANGED backoff

\* An Update or Status().Update of efa that turns the stored driver into d.
\* The API server applies it only when efa has the stored resourceVersion.
Written(d) ==
    /\ fresh
    /\ cr' = [cr EXCEPT ![req] = d]
    /\ Notify(req, "cr")
    /\ UNCHANGED <<child, mapped, node, crCache, childCache>>

UpdateOk(d) == Written(d) /\ efa' = d /\ UNCHANGED <<fresh, kernelVers, used>>

\* The write is rejected, fails, or is applied and its answer lost: each
\* write of Reconcile returns the error.
UpdateErr(d) ==
    /\ \/ ~fresh /\ UNCHANGED <<store, caches, used>>
       \/ Fault /\ fresh /\ UNCHANGED <<store, caches>>
       \/ Fault /\ Written(d)
    /\ ReturnErr

SetCondition(c) == [efa EXCEPT !.cond = c]

\* A Status().Update after which Reconcile goes on with `next'.
SetStatus(c, next) ==
    \/ UpdateErr(SetCondition(c))
    \/ UpdateOk(SetCondition(c)) /\ Goto(next)

\* Slip: a deletion under way is taken for a driver to be created.
BranchFlattened(d) == IF d.del /\ d.cond # "Deleting" THEN "MarkDeleting"
                      ELSE IF d.cond = "Error" THEN "ResetError" ELSE "CreateCluster"

\* Where Reconcile goes once the driver is neither ignored nor unguarded.
Branch(d) == IF d.del
             THEN IF d.cond # "Deleting" THEN "MarkDeleting" ELSE "DeleteDevicePlugin"
             ELSE IF d.cond = "Error" THEN "ResetError" ELSE "CreateCluster"

-----------------------------------------------------------------------------
(***************************************************************************)
(* Reconcile up to CreateCluster and DeleteCluster                         *)
(***************************************************************************)

Listed == {n \in Names : Exists(crCache[n])}

\* Whether a driver the scan reaches before n's own entry is active.
Deployed(before) == \E m \in before : crCache[m].cond # "Ignored"

\* Slip: the finalizer is not added.
NextStepUnguarded(n, before) ==
    IF Deployed(before) THEN "Ignored" ELSE Branch(crCache[n])

\* List comes back in no particular order, so that any of the other drivers
\* may stand before the requested one; the scan ends at the requested one.
NextStep(n, before) ==
    IF Deployed(before) THEN "Ignored"
    ELSE IF ~crCache[n].fin THEN "AddFinalizer"
    ELSE Branch(crCache[n])

\* A request for a driver that is not listed, or that is ignored.
TakeNothing(n) ==
    /\ At("idle") /\ n \in queue
    /\ n \notin Listed \/ crCache[n].cond = "Ignored"
    /\ queue' = queue \ {n}
    /\ UNCHANGED <<store, caches, delayed, backoff, worker, used>>

\* Slip: an ignored driver is reconciled like any other one.
TakeIgnored(n) ==
    /\ At("idle") /\ n \in queue /\ n \in Listed
    /\ queue' = queue \ {n}
    /\ req' = n
    /\ efa' = crCache[n]
    /\ fresh' = ("cr" \notin pending[n])
    /\ \E before \in SUBSET (Listed \ {n}) : pc' = NextStep(n, before)
    /\ UNCHANGED <<store, caches, delayed, backoff, kernelVers, used>>

\* Slip: a request for a driver that is not listed goes on with an empty one.
TakeUnlisted(n) ==
    /\ At("idle") /\ n \in queue
    /\ crCache[n].cond # "Ignored"
    /\ queue' = queue \ {n}
    /\ req' = n
    /\ efa' = crCache[n]
    /\ fresh' = ("cr" \notin pending[n])
    /\ \E before \in SUBSET (Listed \ {n}) : pc' = NextStep(n, before)
    /\ UNCHANGED <<store, caches, delayed, backoff, kernelVers, used>>

Take(n) ==
    /\ At("idle") /\ n \in queue
    /\ n \in Listed /\ crCache[n].cond # "Ignored"
    /\ queue' = queue \ {n}
    /\ req' = n
    /\ efa' = crCache[n]
    /\ fresh' = ("cr" \notin pending[n])
    /\ \E before \in SUBSET (Listed \ {n}) : pc' = NextStep(n, before)
    /\ UNCHANGED <<store, caches, delayed, backoff, kernelVers, used>>

\* Give way to an active driver.
Ignore ==
    /\ At("Ignored")
    /\ \/ UpdateErr(SetCondition("Ignored"))
       \/ Written(SetCondition("Ignored")) /\ ReturnEarly /\ UNCHANGED used

AddFinalizer ==
    /\ At("AddFinalizer")
    /\ LET d == [efa EXCEPT !.fin = TRUE] IN
       \/ UpdateErr(d)
       \/ UpdateOk(d) /\ Goto(IF ~d.del /\ d.cond = "" THEN "FirstStatus" ELSE Branch(d))

FirstStatus == At("FirstStatus") /\ SetStatus("Creating", "CreateCluster")

ResetError == At("ResetError") /\ SetStatus("Creating", "CreateCluster")

MarkDeleting == At("MarkDeleting") /\ SetStatus("Deleting", "DeleteDevicePlugin")

-----------------------------------------------------------------------------
(***************************************************************************)
(* Objects                                                                 *)
(*                                                                         *)
(* Each object is looked up in the cache and created when it is not there. *)
(***************************************************************************)

Missing(k) == child[req][k] = 0

\* A Create of object k that reaches the API server.
Built(k, kernels) ==
    /\ Missing(k)
    /\ child' = [child EXCEPT ![req][k] = efa.uid]
    /\ mapped' = [mapped EXCEPT ![req][k] = kernels]
    /\ Notify(req, k)
    /\ UNCHANGED <<cr, node, crCache, childCache>>

\* n's objects in `gone' are deleted.
Cleared(n, gone) ==
    /\ child' = [child EXCEPT ![n] = [k \in Kinds |-> IF k \in gone THEN 0 ELSE child[n][k]]]
    /\ mapped' = [mapped EXCEPT ![n] = [k \in Kinds |-> IF k \in gone THEN {} ELSE mapped[n][k]]]
    /\ pending' = [pending EXCEPT ![n] = @ \cup gone]
    /\ UNCHANGED <<cr, node, crCache, childCache>>

Untouched == UNCHANGED <<store, caches>>

\* A Get or List of CreateCluster fails, for another reason than NotFound.
ReadFails == Fault /\ Untouched /\ Goto("Error")

\* Get and Create of object k, for `kernels' if it is a Module.  `exists' and
\* `failed' are where the code goes when Create answers AlreadyExists and any
\* other error.
Ensure(k, kernels, next, exists, failed) ==
    /\ UNCHANGED <<efa, fresh>>
    /\ kernelVers' = kernelVers \ kernels
    /\ \/ ReadFails
       \/ childCache[req][k] # 0 /\ Untouched /\ Goto(next) /\ UNCHANGED used
       \/ /\ childCache[req][k] = 0
          /\ \/ Built(k, kernels) /\ Goto(next) /\ UNCHANGED used
             \/ ~Missing(k) /\ Untouched /\ Goto(exists) /\ UNCHANGED used
             \/ (Built(k, kernels) \/ Untouched) /\ Goto(failed) /\ Fault

\* A function of CreateCluster or DeleteCluster returns without an API call.
Skip(next) == Goto(next) /\ Untouched /\ UNCHANGED <<efa, fresh, kernelVers, used>>

Present(S) == {k \in S : ~Missing(k)}

\* Slip: the error of a deletion is dropped.
RemoveUnchecked(S, next) ==
    /\ UNCHANGED <<efa, fresh, kernelVers>>
    /\ Goto(next)
    /\ \/ Cleared(req, Present(S)) /\ UNCHANGED used
       \/ \E gone \in SUBSET Present(S) : Cleared(req, gone) /\ Fault

\* Delete or DeleteAllOf; NotFound is a success.  A call that fails may have
\* deleted some of the objects.
Remove(S, next) ==
    /\ UNCHANGED <<efa, fresh, kernelVers>>
    /\ \/ Cleared(req, Present(S)) /\ Goto(next) /\ UNCHANGED used
       \/ \E gone \in SUBSET Present(S) : Cleared(req, gone) /\ Goto("Error") /\ Fault

\* Get from the cache first: an object that is not cached is not deleted.  Like
\* the Delete, the Get may fail.
RemoveCached(k, next) == Remove(IF childCache[req][k] = 0 THEN {} ELSE {k}, next)

-----------------------------------------------------------------------------
(***************************************************************************)
(* The end of Reconcile                                                    *)
(***************************************************************************)

\* The last finalizer of a driver that is being deleted: the API server
\* removes the driver with it.
RemoveFinalizer ==
    /\ At("RemoveFinalizer")
    /\ \/ UpdateErr(NoCR)
       \/ Written(NoCR) /\ ReturnDone /\ UNCHANGED used

Return == IF pc = "DeviceDiscovery" THEN ReturnRequeue ELSE ReturnDone

\* The outcome of CreateCluster or DeleteCluster becomes the condition.  The
\* Status().Update overwrites err: a failed CreateCluster whose outcome is
\* recorded ends the request without an error.
RecordOutcome ==
    /\ pc \in StatusSteps /\ Prompt
    /\ \/ efa.cond = pc /\ Return /\ UNCHANGED <<store, caches, used>>
       \/ efa.cond # pc /\ UpdateErr(SetCondition(pc))
       \/ efa.cond # pc /\ Written(SetCondition(pc)) /\ Return /\ UNCHANGED used

\* Reconcile but for the steps of CreateCluster and DeleteCluster.
OutsideCluster ==
    \/ \E n \in Names : TakeNothing(n) \/ Take(n)
    \/ Ignore \/ AddFinalizer \/ FirstStatus \/ MarkDeleting \/ ResetError
    \/ RemoveFinalizer \/ RecordOutcome

-----------------------------------------------------------------------------
(***************************************************************************)
(* The rest of the cluster                                                 *)
(***************************************************************************)

\* The stored driver changes behind the back of the caches and the worker.
Changed(n, d) ==
    /\ Prompt
    /\ cr' = [cr EXCEPT ![n] = d]
    /\ Notify(n, "cr")
    /\ fresh' = IF n = req THEN FALSE ELSE fresh
    /\ UNCHANGED <<child, mapped, node, crCache, childCache, control, pc, req, efa, kernelVers>>

UserCreates(n) ==
    /\ ~Exists(cr[n])
    /\ Spend("born", MaxBorn)
    /\ Changed(n, [NoCR EXCEPT !.uid = used.born + 1])

\* A driver with a finalizer stays until the finalizer is removed.
UserDeletes(n) ==
    /\ Exists(cr[n]) /\ ~cr[n].del
    /\ Changed(n, IF cr[n].fin THEN [cr[n] EXCEPT !.del = TRUE] ELSE NoCR)
    /\ UNCHANGED used

Vanish(n, k) == Prompt /\ Cleared(n, {k}) /\ UNCHANGED <<control, worker>>

UserDeletesChild(n, k) ==
    child[n][k] # 0 /\ Spend("childDeletes", MaxChildDeletes) /\ Vanish(n, k)

\* The garbage collector deletes objects whose owner is gone.
CollectGarbage(n, k) ==
    child[n][k] # 0 /\ child[n][k] # cr[n].uid /\ Vanish(n, k) /\ UNCHANGED used

\* A watch event reaches a cache and its handler enqueues the driver, or the
\* owner of the object.
Deliver(n, object) ==
    /\ object \in pending[n]
    /\ pending' = [pending EXCEPT ![n] = @ \ {object}]
    /\ queue' = queue \cup {n}
    /\ UNCHANGED <<store, delayed, backoff, worker, used>>

SyncDriver(n) ==
    Deliver(n, "cr") /\ crCache' = [crCache EXCEPT ![n] = cr[n]] /\ UNCHANGED childCache

SyncChild(n, k) ==
    Deliver(n, k) /\ childCache' = [childCache EXCEPT ![n][k] = child[n][k]] /\ UNCHANGED crCache

TimerFires(n) ==
    /\ n \in delayed /\ Prompt
    /\ delayed' = delayed \ {n}
    /\ queue' = queue \cup {n}
    /\ UNCHANGED <<store, caches, backoff, worker, used>>

SetNode(m, labels) ==
    Prompt /\ node' = [node EXCEPT ![m] = labels] /\ UNCHANGED <<cr, child, mapped, caches, control, worker>>

\* The operator restarts: queue, timers and back-offs are lost, the caches are
\* listed again before the worker starts, and every object listed is enqueued.
Restart ==
    /\ Prompt /\ Spend("crashes", MaxCrashes)
    /\ crCache' = cr /\ childCache' = child /\ pending' = [n \in Names |-> {}]
    /\ queue' = {n \in Names : Exists(cr[n]) \/ \E k \in Kinds : child[n][k] # 0}
    /\ delayed' = {} /\ backoff' = [n \in Names |-> 0]
    /\ pc' = "idle" /\ req' = NoReq /\ efa' = NoCR /\ fresh' = FALSE /\ kernelVers' = {}
    /\ UNCHANGED store

User ==
    \/ \E n \in Names : UserCreates(n) \/ UserDeletes(n)
    \/ \E n \in Names, k \in Kinds : UserDeletesChild(n, k)

Watch ==
    \/ \E n \in Names : SyncDriver(n) \/ TimerFires(n)
    \/ \E n \in Names, k \in Kinds : SyncChild(n, k)

(***************************************************************************)
(* The worker goroutine serves its queue in order, so that no queued       *)
(* request is passed over forever; every watch, every timer and the        *)
(* garbage collector keep running.  Users owe nothing.                     *)
(***************************************************************************)
SharedFairness ==
    /\ \A n \in Names : SF_vars(TakeNothing(n) \/ Take(n))
    /\ \A n \in Names : WF_vars(SyncDriver(n)) /\ WF_vars(TimerFires(n))
    /\ \A n \in Names, k \in Kinds : WF_vars(SyncChild(n, k)) /\ WF_vars(CollectGarbage(n, k))

-----------------------------------------------------------------------------
(***************************************************************************)
(* Properties                                                              *)
(***************************************************************************)

\* Every object deployed for a driver that still exists is guarded by the
\* finalizer of that driver: whatever the caches, the retries and the restarts
\* do, a driver cannot be removed behind the back of DeleteCluster while
\* objects it owns are in the cluster.  (Reconcile adds the finalizer before
\* CreateCluster and removes it after DeleteCluster.)
FinalizerGuards ==
    \A n \in Names, k \in Kinds :
        child[n][k] # 0 /\ child[n][k] = cr[n].uid => cr[n].fin

\* The KMM Modules and the dockerfile ConfigMaps, which DeleteKmm and
\* DeleteConfigMap delete without asking the cache, never survive their
\* driver: no kernel module of a deleted driver stays deployed.
NoModuleLeftBehind ==
    \A n \in Names, k \in Modules \cup Dockerfiles : child[n][k] \in {0, cr[n].uid}

\* Reconcile starts building only for a driver that holds the finalizer and is
\* not being torn down: no object is created for a driver whose stored
\* condition is Deleting, nor for one that is gone, although the create path
\* runs on a cached, possibly outdated, copy of the driver.
BuildsOnlyGuarded ==
    [][\A n \in Names, k \in Kinds :
           child[n][k] = 0 /\ child'[n][k] # 0 =>
               cr[n].fin /\ cr[n].cond # "Deleting" /\ child'[n][k] = cr[n].uid]_vars

\* Nothing that would make the controller look at driver n again is under way.
AtRest(n) == n \notin queue \cup delayed /\ n # req /\ pending[n] = {}

\* Whether a driver takes part: it exists and has not been set aside.
Active(n) == Exists(cr[n]) /\ cr[n].cond # "Ignored"

\* The condition of a driver that is set up.
Settled(n) == cr[n].cond = "Ready" /\ ~cr[n].del /\ backoff[n] = 0

\* The controller does not come to rest over an active driver before it is set
\* up with its objects of the kinds R.
RestsOnlyWith(R) ==
    \A n \in Names :
        Active(n) /\ AtRest(n) => Settled(n) /\ \A k \in R : child[n][k] # 0

\* Driver n is set up with its objects of the kinds R, or is gone with all its
\* objects.
Concluded(n, R) ==
    IF Exists(cr[n])
    THEN Settled(n) /\ \A k \in R : child[n][k] = cr[n].uid
    ELSE \A k \in Kinds : child[n][k] = 0

\* A driver, once Ignored, stays Ignored until it is removed: no write made
\* from an older copy of it brings it back.
IgnoredIsFinal ==
    [][\A n \in Names :
           cr[n].cond = "Ignored" /\ cr'[n].uid = cr[n].uid => cr'[n].cond = "Ignored"]_vars

\* A deleted driver eventually goes away.  (The finalizer is removed in spite
\* of failing calls, lost answers and restarts, as long as these end.)
DeletionCompletes ==
    \A n \in Names : (Exists(cr[n]) /\ cr[n].del) ~> ~(Exists(cr[n]) /\ cr[n].del)

-----------------------------------------------------------------------------
(***************************************************************************)
(* Refinement of DriverContract                                            *)
(***************************************************************************)

Phase(d) == IF ~Exists(d) THEN "absent" ELSE IF ~d.fin THEN "open"
            ELSE IF d.del THEN "doomed" ELSE "guarded"

Contract == INSTANCE DriverContract WITH
    Pinned  <- Modules \cup Dockerfiles,
    phase   <- [n \in Names |-> Phase(cr[n])],
    owned   <- [n \in Names |-> {k \in Kinds : child[n][k] # 0 /\ child[n][k] = cr[n].uid}],
    orphans <- [n \in Names |-> {k \in Kinds : child[n][k] # 0 /\ child[n][k] # cr[n].uid}]

\* The controller, with its caches, conflicting writes, lost answers and restarts,
\* keeps the ownership protocol of DriverContract: objects are built under the
\* finalizer only, and a driver is released after its Modules and its dockerfiles.
KeepsContract == Contract!Spec
=============================================================================
