--------------------- MODULE EfaDriverController_proofs ---------------------
(***************************************************************************)
(* The EfaDriver controller is one of the controllers the proofs of        *)
(* DriverReconciler are about: its steps are steps of ReconcilerSpec.      *)
(* It rests only when its work is done and all kernels are covered.        *)
(***************************************************************************)
EXTENDS EfaDriverController, DriverReconciler_wakeups

\* The objects an EfaDriver deploys.
LEMMA EfaObjects ==
    /\ {"nfr", "cm", "kmm", "scc", "ds"} = Kinds
    /\ Modules = {"kmm"} /\ Dockerfiles = {"cm"} /\ Builds = Kernels
  BY ObjectsAssumption DEF EfaKinds

\* What is left to build for is left as it is.
LEMMA SkipLooks ==
    ASSUME TypeOK, pc \in BuildingSteps, NEW next \in AfterCreate, Skip(next)
    PROVE  CreateStep
<1>1. LookAround(next, kernelVers) /\ kernelVers \in SUBSET Builds
  BY DEF Skip, Goto, LookAround, Untouched, control, store, caches, TypeOK
<1> QED
  BY <1>1 DEF CreateStep

\* The kernels GetNodeStatus returns are kernels nodes may run.
LEMMA EfaKernelsType == TypeOK => EfaKernels \in SUBSET Builds
<1> SUFFICES ASSUME TypeOK, NEW m \in Discovered \cap EfaNodes PROVE node[m].kernel \in Kernels
  BY EfaObjects DEF EfaKernels
<1>1. m \in Nodes /\ node[m].kernel # NoKernel
  BY DEF Discovered
<1>2. node[m] \in [kernel : Kernels \cup {NoKernel}, counted : BOOLEAN]
  BY <1>1, NodesAssumption DEF TypeOK, EfaLabels
<1> QED
  BY <1>1, <1>2

LEMMA EfaCreates ==
    ASSUME TypeOK,
           \/ CreateNFR \/ CreateKmmDockerfile \/ GetNodeStatus \/ CreateKmm
           \/ CraeteDevicePluginScc \/ CreateDevicePlugin
    PROVE  CreateStep
<1> USE EfaObjects DEF At
<1>1. CreateSteps \cup {"Error", "DeviceDiscovery", "Ready"} \subseteq AfterCreate
      /\ CreateSteps \subseteq BuildingSteps
  BY DEF AfterCreate, BuildingSteps, StatusSteps
<1>2. {"CreateCluster", "CreateKmmDockerfile", "GetNodeStatus", "CreateKmm",
       "CraeteDevicePluginScc", "CreateDevicePlugin"} \subseteq CreateSteps
  BY DEF CreateSteps
<1>3. {} \in SUBSET Builds /\ kernelVers \in SUBSET Builds
  BY DEF TypeOK
<1>4. CASE CreateNFR \/ CreateKmmDockerfile \/ CreateDevicePlugin
  BY <1>1, <1>2, <1>3, <1>4 DEF CreateNFR, CreateKmmDockerfile, CreateDevicePlugin, CreateStep
<1>5. CASE CreateKmm \/ CraeteDevicePluginScc
  <2>1. pc \in BuildingSteps
    BY <1>1, <1>2, <1>5 DEF CreateKmm, CraeteDevicePluginScc
  <2>2. CASE Skip("CraeteDevicePluginScc") \/ Skip("CreateDevicePlugin")
    BY <1>1, <1>2, <2>1, <2>2, SkipLooks
  <2>3. CASE \/ Ensure("kmm", kernelVers, "CraeteDevicePluginScc", "CraeteDevicePluginScc", "Error")
             \/ Ensure("scc", {}, "CreateDevicePlugin", "CreateDevicePlugin", "Error")
    BY <1>1, <1>2, <1>3, <2>1, <2>3 DEF CreateStep
  <2> QED
    BY <1>5, <2>2, <2>3 DEF CreateKmm, CraeteDevicePluginScc
<1>6. CASE GetNodeStatus
  <2>1. EfaKernels \in SUBSET Builds
    BY EfaKernelsType
  <2>2. FailedLook \/ \E next \in AfterCreate, found \in SUBSET Builds : LookAround(next, found)
    BY <1>1, <1>2, <1>3, <1>6, <2>1 DEF GetNodeStatus, LookAround, FailedLook
  <2> QED
    BY <1>1, <1>2, <1>6, <2>2 DEF GetNodeStatus, CreateStep
<1> QED
  BY <1>4, <1>5, <1>6

\* DeleteKmm and DeleteConfigMap are on the way to the last steps.
LEMMA EfaDeletes ==
    ASSUME \/ DeleteDevicePlugin \/ DeleteDevicePluginScc \/ DeleteKmm
           \/ DeleteConfigMap \/ DeleteNFR
    PROVE  DeleteStep
<1> USE EfaObjects DEF At, DeleteSteps, RemoveCached
<1>1. CASE DeleteDevicePlugin
  <2>1. \A S : InOrder(S, "DeleteDevicePluginScc")
    BY DEF InOrder, LateTears, LastTears
  <2> QED
    BY <1>1, <2>1 DEF DeleteDevicePlugin, DeleteStep
<1>2. CASE DeleteDevicePluginScc
  <2>1. \A S : InOrder(S, "DeleteKmm")
    BY DEF InOrder, LateTears, LastTears
  <2> QED
    BY <1>2, <2>1 DEF DeleteDevicePluginScc, DeleteStep
<1>3. CASE DeleteKmm
  <2>1. InOrder({"kmm"}, "DeleteConfigMap")
    BY DEF InOrder, LateTears, LastTears
  <2> QED
    BY <1>3, <2>1 DEF DeleteKmm, DeleteStep
<1>4. CASE DeleteConfigMap
  <2>1. InOrder({"cm"}, "DeleteNFR")
    BY <1>4 DEF InOrder, LateTears, LastTears, DeleteConfigMap
  <2> QED
    BY <1>4, <2>1 DEF DeleteConfigMap, DeleteStep
<1>5. CASE DeleteNFR
  <2>1. \A S : InOrder(S, "RemoveFinalizer")
    BY <1>5 DEF InOrder, LateTears, LastTears, DeleteNFR
  <2> QED
    BY <1>5, <2>1 DEF DeleteNFR, DeleteStep
<1> QED
  BY <1>1, <1>2, <1>3, <1>4, <1>5

\* Node feature discovery and kernel upgrades change the labels of one node.
LEMMA EfaNodeSteps ==
    ASSUME TypeOK, NEW m \in Nodes,
           CountDevices(m) \/ DropCount(m) \/ \E v \in Kernels : KernelChanges(m, v)
    PROVE  NodeStep
<1>1. node[m] \in EfaLabels
  BY NodesAssumption DEF TypeOK
<1>2. /\ [node[m] EXCEPT !.counted = TRUE] \in Labels
      /\ [node[m] EXCEPT !.counted = FALSE] \in Labels
      /\ \A v \in Kernels : [node[m] EXCEPT !.kernel = v] \in Labels
  BY <1>1, NodesAssumption DEF EfaLabels
<1> QED
  BY <1>2 DEF CountDevices, DropCount, KernelChanges, NodeStep

LEMMA EfaNext ==
    ASSUME TypeOK, Next
    PROVE  ReconcilerNext
<1>1. CASE Reconcile
  BY <1>1, EfaCreates, EfaDeletes DEF Reconcile, ReconcilerNext
<1>2. CASE Cluster
  BY <1>2, EfaNodeSteps DEF Cluster, Collects, ReconcilerNext
<1> QED
  BY <1>1, <1>2 DEF Next, ReconcilerNext

LEMMA EfaStep == TypeOK /\ [Next]_vars => [ReconcilerNext]_vars
  BY EfaNext DEF vars

LEMMA EfaInit == Init => StartOn(Labels)
  BY DEF Init, StartOn

\* Types are kept, whether or not the step is known to be one of ReconcilerSpec.
LEMMA EfaTypes == Spec => []TypeOK
<1>1. TypeOK /\ [Next]_vars => TypeOK'
  BY EfaStep, NextType
<1> QED
  BY <1>1, EfaInit, InitType, PTL DEF Spec

LEMMA EfaReconciler == Spec => ReconcilerSpec
  BY EfaTypes, EfaInit, EfaStep, PTL DEF Spec, ReconcilerSpec

-----------------------------------------------------------------------------

\* The variables of the controller keep their types.
THEOREM TypeCorrect == Spec => []TypeOK
  BY EfaTypes

\* An EfaDriver is never without its finalizer while objects it owns are deployed.
THEOREM FinalizerAlwaysGuards == Spec => []FinalizerGuards
  BY EfaReconciler, ReconcilerGuards, PTL

\* The Module and the dockerfile ConfigMap of an EfaDriver are gone before it is.
THEOREM ModuleNeverLeftBehind == Spec => []NoModuleLeftBehind
  BY EfaReconciler, ReconcilerLeavesNoModule, PTL

\* Objects are built under the finalizer, and never for an EfaDriver that is
\* being torn down, whatever copy of it the worker builds from.
THEOREM BuildsAreGuarded == Spec => BuildsOnlyGuarded
  BY EfaReconciler, ReconcilerBuildsGuarded, PTL

\* The controller, its caches, its retries and restarts implement the ownership
\* protocol of DriverContract.
THEOREM ContractKept == Spec => KeepsContract
  BY EfaReconciler, ReconcilerKeepsContract, PTL

\* An EfaDriver that has been Ignored is not brought back by a stale write.
THEOREM IgnoredForGood == Spec => IgnoredIsFinal
  BY EfaReconciler, ReconcilerIgnoresForGood, PTL

-----------------------------------------------------------------------------
(***************************************************************************)
(* The controller rests only when its work is done                         *)
(*                                                                         *)
(* CreateCluster ensures its objects one after the other.                  *)
(***************************************************************************)

AfterScc == {"CreateDevicePlugin", "Ready"}
AfterKmm == {"CraeteDevicePluginScc"} \cup AfterScc
AfterCm  == {"GetNodeStatus", "CreateKmm"} \cup AfterKmm
AfterNfr == {"CreateKmmDockerfile"} \cup AfterCm

Progress ==
    /\ pc \in AfterNfr => Ensured("nfr")
    /\ pc \in AfterCm => Ensured("cm")
    /\ pc \in AfterScc /\ OpenShift => Ensured("scc")
    /\ pc = "Ready" /\ "CreateDevicePlugin" \notin FaultyCalls => Ensured("ds")

\* The objects a driver has when CreateCluster succeeds, whatever it finds on the
\* nodes: since CreateDevicePlugin drops the errors of Create, the DaemonSet only
\* if that Create never fails.
Steady == Required \ (IF "CreateDevicePlugin" \in FaultyCalls THEN {"kmm", "ds"} ELSE {"kmm"})

EfaInv == WakeInv /\ Progress /\ \A k \in Steady : PlacedWith(k)

\* Where the steps of CreateCluster lead.
Created(step, next) == pc = step /\ pc' \in {next, "Error"}

LEMMA CreatePath ==
    /\ CreateNFR => Created("CreateCluster", "CreateKmmDockerfile")
    /\ CreateKmmDockerfile => Created("CreateKmmDockerfile", "GetNodeStatus")
    /\ GetNodeStatus =>
          Created("GetNodeStatus", "CreateKmm") \/ Created("GetNodeStatus", "DeviceDiscovery")
    /\ CreateKmm => Created("CreateKmm", "CraeteDevicePluginScc")
    /\ CraeteDevicePluginScc => Created("CraeteDevicePluginScc", "CreateDevicePlugin")
    /\ CreateDevicePlugin => Created("CreateDevicePlugin", "Ready")
  BY DEF CreateNFR, CreateKmmDockerfile, GetNodeStatus, CreateKmm, CraeteDevicePluginScc,
         CreateDevicePlugin, At, Ensure, ReadFails, Skip, Goto, Created

LEMMA AfterSets ==
    /\ AfterNfr \cap (StartSteps \cup DeleteSteps \cup {"idle", "CreateCluster", "Error"}) = {}
    /\ AfterScc \subseteq AfterKmm /\ AfterKmm \subseteq AfterCm /\ AfterCm \subseteq AfterNfr
    /\ "Ready" \in AfterScc
  BY DEF AfterNfr, AfterCm, AfterKmm, AfterScc, StartSteps, DeleteSteps

Creating ==
    \/ CreateNFR \/ CreateKmmDockerfile \/ GetNodeStatus \/ CreateKmm
    \/ CraeteDevicePluginScc \/ CreateDevicePlugin

\* CreateCluster is entered at its first step, and only its own steps lead on.
LEMMA NotCreating ==
    ASSUME WakeInv, Next, ~Creating
    PROVE  pc' \in AfterNfr => pc' = pc /\ kernelVers' = kernelVers
<1>1. CASE OutsideCluster
  BY <1>1, OutsideClusterGoes, AfterSets DEF DeleteSteps
<1>2. CASE \/ DeleteDevicePlugin \/ DeleteDevicePluginScc \/ DeleteKmm
           \/ DeleteConfigMap \/ DeleteNFR
  <2>1. pc' \in DeleteSteps \cup {"Error"}
    BY <1>2, EfaDeletes DEF DeleteStep, Remove, Skip, Goto
  <2> QED
    BY <2>1, AfterSets
<1>3. CASE User \/ Watch \/ Cluster
  <2>1. UNCHANGED <<pc, kernelVers>>
    BY <1>3 DEF User, Watch, Cluster, UserCreates, UserDeletes, UserDeletesChild, Changed, Vanish,
                SyncDriver, SyncChild, TimerFires, Deliver, CollectGarbage, CountDevices, DropCount,
                KernelChanges, SetNode, worker
  <2> QED
    BY <2>1
<1>4. CASE Restart
  BY <1>4, AfterSets DEF Restart
<1> QED
  BY <1>1, <1>2, <1>3, <1>4 DEF Next, Reconcile, Creating

\* An object that was ensured when the worker passed it stays so on the way.
LEMMA Onward ==
    ASSUME WakeInv, ReconcilerNext, pc \in AfterNfr, pc' \in AfterNfr, NEW k \in Kinds, Ensured(k)
    PROVE  Ensured(k)'
<1>1. pc # "idle" /\ pc' # "idle"
  BY AfterSets
<1> QED
  BY <1>1, EnsuredStays

LEMMA ProgressStep ==
    ASSUME EfaInv, Next
    PROVE  Progress'
<1>1. WakeInv /\ TypeOK /\ ReconcilerNext /\ Progress
  BY EfaNext DEF EfaInv, WakeInv, IInv
<1>2. "nfr" \in Kinds /\ "cm" \in Kinds /\ "scc" \in Kinds /\ "ds" \in Kinds /\ {} \in SUBSET Builds
  BY EfaObjects
<1>3. Creating => pc # "idle"
  BY CreatePath DEF Creating, Created
<1>4. ASSUME pc' \in AfterNfr PROVE Ensured("nfr")'
  <2>1. CASE CreateNFR
    <3>1. Ensured("nfr")' \/ pc' = "Error"
      BY <1>1, <1>2, <1>3, <2>1, EnsureEnsures DEF CreateNFR, Creating
    <3> QED
      BY <1>4, <3>1, AfterSets
  <2>2. CASE ~CreateNFR
    <3>1. pc \in AfterNfr
      BY <1>1, <1>4, <2>2, NotCreating, CreatePath
         DEF Creating, Created, AfterNfr, AfterCm, AfterKmm, AfterScc
    <3> QED
      BY <1>1, <1>2, <1>4, <3>1, Onward DEF Progress
  <2> QED
    BY <2>1, <2>2
<1>5. ASSUME pc' \in AfterCm PROVE Ensured("cm")'
  <2>1. CASE CreateKmmDockerfile
    <3>1. Ensured("cm")' \/ pc' = "Error"
      BY <1>1, <1>2, <1>3, <2>1, EnsureEnsures DEF CreateKmmDockerfile, Creating
    <3> QED
      BY <1>5, <3>1, AfterSets
  <2>2. CASE ~CreateKmmDockerfile
    <3>1. pc \in AfterCm
      BY <1>1, <1>5, <2>2, NotCreating, CreatePath, AfterSets
         DEF Creating, Created, AfterCm, AfterKmm, AfterScc
    <3> QED
      BY <1>1, <1>2, <1>5, <3>1, Onward, AfterSets DEF Progress
  <2> QED
    BY <2>1, <2>2
<1>6. ASSUME pc' \in AfterScc, OpenShift PROVE Ensured("scc")'
  <2>1. CASE CraeteDevicePluginScc
    <3>1. Ensured("scc")' \/ pc' = "Error"
      BY <1>1, <1>2, <1>3, <1>6, <2>1, EnsureEnsures DEF CraeteDevicePluginScc, Creating
    <3> QED
      BY <1>6, <3>1, AfterSets
  <2>2. CASE ~CraeteDevicePluginScc
    <3>1. pc \in AfterScc
      BY <1>1, <1>6, <2>2, NotCreating, CreatePath, AfterSets DEF Creating, Created, AfterScc
    <3> QED
      BY <1>1, <1>2, <1>6, <3>1, Onward, AfterSets DEF Progress
  <2> QED
    BY <2>1, <2>2
<1>7. ASSUME pc' = "Ready", "CreateDevicePlugin" \notin FaultyCalls PROVE Ensured("ds")'
  <2>1. CASE CreateDevicePlugin
    <3>1. Ensured("ds")' \/ pc \in FaultyCalls
      BY <1>1, <1>2, <1>3, <2>1, EnsureEnsures DEF CreateDevicePlugin, Creating
    <3> QED
      BY <1>7, <2>1, <3>1 DEF CreateDevicePlugin, At
  <2>2. CASE ~CreateDevicePlugin
    <3>1. pc = "Ready"
      BY <1>1, <1>7, <2>2, NotCreating, CreatePath, AfterSets DEF Creating, Created
    <3> QED
      BY <1>1, <1>2, <1>7, <3>1, Onward, AfterSets DEF Progress
  <2> QED
    BY <2>1, <2>2
<1> QED
  BY <1>4, <1>5, <1>6, <1>7 DEF Progress

LEMMA EfaInvNext == EfaInv /\ [Next]_vars => EfaInv'
<1> SUFFICES ASSUME EfaInv, [Next]_vars PROVE EfaInv'
  OBVIOUS
<1>1. WakeInv'
  BY EfaStep, WakeNext DEF EfaInv, WakeInv, IInv
<1>2. CASE UNCHANGED vars
  <2>1. Progress' /\ \A k \in Steady : PlacedWith(k)'
    BY <1>2 DEF EfaInv, Progress, Ensured, PlacedWith, Active, Awake, vars, store, caches, control,
                worker
  <2> QED
    BY <1>1, <2>1 DEF EfaInv
<1>3. CASE Next
  <2>1. WakeInv /\ ReconcilerNext
    BY <1>3, EfaNext DEF EfaInv, WakeInv, IInv
  <2>2. ASSUME NEW k \in Steady PROVE PlacedWith(k)'
    <3>1. k \in Kinds /\ PlacedWith(k)
      BY DEF EfaInv, Steady, Required
    <3>2. pc = "Ready" => Ensured(k)
      BY AfterSets, EfaObjects DEF EfaInv, Progress, Steady, Required
    <3> QED
      BY <2>1, <3>1, <3>2, PlacedWithStep
  <2> QED
    BY <1>1, <1>3, <2>2, ProgressStep DEF EfaInv
<1> QED
  BY <1>2, <1>3

LEMMA EfaInvInit == Init => EfaInv
<1> SUFFICES ASSUME Init PROVE EfaInv
  OBVIOUS
<1>1. WakeInv /\ pc = "idle"
  BY EfaInit, WakeInit DEF Init, StartOn
<1>2. \A n \in Names : ~Active(n)
  BY EfaInit, NoCRUid DEF Init, StartOn, Active, Exists
<1> QED
  BY <1>1, <1>2, AfterSets DEF EfaInv, Progress, PlacedWith

LEMMA EfaInvariance == Spec => []EfaInv
  BY EfaInvInit, EfaInvNext, PTL DEF Spec

-----------------------------------------------------------------------------
(***************************************************************************)
(* The Module builds for the kernels of the nodes                          *)
(***************************************************************************)

\* As long as no node has changed its kernel, the Module is created for the
\* kernels GetNodeStatus has just found, which are those of all nodes that have
\* an EFA device.
ModuleInv ==
    used.nodeChanges = 0 =>
        /\ pc = "CreateKmm" => kernelVers = EfaKernels
        /\ EfaKernels # {} /\ pc \in AfterKmm => Ensured("kmm")
        /\ EfaKernels # {} => PlacedWith("kmm")
        /\ \A n \in Names : child[n]["kmm"] # 0 => EfaKernels \subseteq mapped[n]["kmm"]

\* Counting the devices of a node does not change its kernel.
LEMMA KernelsStay ==
    ASSUME TypeOK, Next, used'.nodeChanges = 0
    PROVE  used.nodeChanges = 0 /\ EfaKernels' = EfaKernels
<1>1. used.nodeChanges \in Nat /\ node \in [Nodes -> EfaLabels]
  BY NodesAssumption DEF TypeOK, Counters
<1>2. ASSUME \A m \in Nodes : node'[m].kernel = node[m].kernel
      PROVE  EfaKernels' = EfaKernels
  <2>1. Discovered' = Discovered
    BY <1>2 DEF Discovered
  <2>2. Discovered \subseteq Nodes
    BY DEF Discovered
  <2> QED
    BY <1>2, <2>1, <2>2 DEF EfaKernels
<1>3. CASE \E m \in Nodes : CountDevices(m) \/ DropCount(m)
  <2>1. PICK m \in Nodes, c \in BOOLEAN : SetNode(m, [node[m] EXCEPT !.counted = c]) /\ UNCHANGED used
    BY <1>3 DEF CountDevices, DropCount
  <2>2. [node[m] EXCEPT !.counted = c].kernel = node[m].kernel
    BY <1>1 DEF EfaLabels
  <2>3. \A x \in Nodes : node'[x].kernel = node[x].kernel
    BY <1>1, <2>1, <2>2 DEF SetNode
  <2> QED
    BY <1>2, <2>1, <2>3
<1>4. ASSUME NEW m \in Nodes, NEW v \in Kernels, KernelChanges(m, v) PROVE FALSE
  <2>1. used'.nodeChanges = used.nodeChanges + 1
    BY <1>4 DEF KernelChanges, Spend, TypeOK, Counters
  <2> QED
    BY <1>1, <2>1
<1>5. CASE Reconcile \/ User \/ Watch \/ Collects \/ Restart
  BY <1>2, <1>5, NodesKept, EfaCreates, EfaDeletes DEF Reconcile
<1> QED
  BY <1>3, <1>4, <1>5 DEF Next, Cluster, Collects

\* A Module is as it was, or has been created for the kernels found.
LEMMA ModuleMaps ==
    ASSUME TypeOK, Next, NEW n \in Names
    PROVE  SameObject(n, "kmm") \/ (pc = "CreateKmm" /\ mapped'[n]["kmm"] = kernelVers)
<1>1. "kmm" \in Kinds /\ {"nfr", "cm", "scc", "ds"} \subseteq Kinds \ {"kmm"} /\ {} \in SUBSET Builds
      /\ kernelVers \in SUBSET Builds
  BY EfaObjects DEF TypeOK
<1>2. ASSUME UNCHANGED store PROVE SameObject(n, "kmm")
  BY <1>2 DEF store, SameObject
<1>3. Creating => pc # "idle"
  BY CreatePath DEF Creating, Created
<1>4. CASE CreateNFR \/ CreateKmmDockerfile \/ CreateDevicePlugin
  BY <1>1, <1>3, <1>4, EnsureMaps DEF CreateNFR, CreateKmmDockerfile, CreateDevicePlugin, Creating
<1>5. CASE CraeteDevicePluginScc
  BY <1>1, <1>2, <1>3, <1>5, EnsureMaps DEF CraeteDevicePluginScc, Creating, Skip, Untouched
<1>6. CASE GetNodeStatus
  BY <1>2, <1>6 DEF GetNodeStatus, ReadFails, Untouched
<1>7. CASE CreateKmm
  BY <1>1, <1>2, <1>3, <1>7, EnsureMaps DEF CreateKmm, At, Creating, Skip, Untouched
<1>8. CASE ~Creating
  <2>1. \/ OutsideCluster \/ DeleteStep \/ User \/ Watch \/ Collects \/ NodeStep \/ Restart
    BY <1>8, EfaDeletes, EfaNodeSteps DEF Creating, Next, Reconcile, Cluster, Collects
  <2> QED
    BY <1>1, <2>1, OtherMaps
<1> QED
  BY <1>4, <1>5, <1>6, <1>7, <1>8 DEF Creating

LEMMA ModuleStep ==
    ASSUME EfaInv, ModuleInv, Next
    PROVE  ModuleInv'
<1>1. WakeInv /\ TypeOK /\ ReconcilerNext /\ "kmm" \in Kinds
  BY EfaNext, EfaObjects DEF EfaInv, WakeInv, IInv
<1> SUFFICES ASSUME used'.nodeChanges = 0
             PROVE  /\ pc' = "CreateKmm" => kernelVers' = EfaKernels'
                    /\ EfaKernels' # {} /\ pc' \in AfterKmm => Ensured("kmm")'
                    /\ EfaKernels' # {} => PlacedWith("kmm")'
                    /\ \A n \in Names :
                          child'[n]["kmm"] # 0 => EfaKernels' \subseteq mapped'[n]["kmm"]
  BY DEF ModuleInv
<1>2. EfaKernels' = EfaKernels /\ used.nodeChanges = 0
  BY <1>1, KernelsStay
<1>3. pc' = "CreateKmm" => kernelVers' = EfaKernels'
  <2>1. CASE GetNodeStatus
    BY <1>2, <2>1 DEF GetNodeStatus, ReadFails, Goto
  <2>2. CASE ~GetNodeStatus
    BY <1>1, <1>2, <2>2, NotCreating, CreatePath DEF ModuleInv, Creating, Created, AfterNfr, AfterCm
  <2> QED
    BY <2>1, <2>2
<1>4. ASSUME EfaKernels' # {}, pc' \in AfterKmm PROVE Ensured("kmm")'
  <2>1. CASE CreateKmm
    <3>1. pc = "CreateKmm" /\ pc' # "Error" /\ kernelVers # {} /\ kernelVers \in SUBSET Builds
      BY <1>1, <1>2, <1>4, <2>1, AfterSets DEF ModuleInv, CreateKmm, At, TypeOK
    <3> QED
      BY <1>1, <2>1, <3>1, EnsureEnsures DEF CreateKmm
  <2>2. CASE ~CreateKmm
    <3>1. pc \in AfterKmm
      BY <1>1, <1>4, <2>2, NotCreating, CreatePath, AfterSets
         DEF Creating, Created, AfterKmm, AfterScc
    <3> QED
      BY <1>1, <1>2, <1>4, <3>1, Onward, AfterSets DEF ModuleInv
  <2> QED
    BY <2>1, <2>2
<1>5. ASSUME EfaKernels' # {} PROVE PlacedWith("kmm")'
  BY <1>1, <1>2, <1>5, PlacedWithStep, AfterSets DEF ModuleInv
<1>6. ASSUME NEW n \in Names, child'[n]["kmm"] # 0
      PROVE  EfaKernels' \subseteq mapped'[n]["kmm"]
  BY <1>1, <1>2, <1>6, ModuleMaps DEF ModuleInv, SameObject
<1> QED
  BY <1>3, <1>4, <1>5, <1>6

LEMMA ModuleInvariance == Spec => [](EfaInv /\ ModuleInv)
<1>1. Init => ModuleInv
  <2> SUFFICES ASSUME Init PROVE ModuleInv
    OBVIOUS
  <2>1. pc = "idle" /\ \A n \in Names : ~Active(n) /\ child[n]["kmm"] = 0
    BY EfaInit, EfaObjects, NoCRUid DEF Init, StartOn, Active, Exists
  <2> QED
    BY <2>1, AfterSets DEF ModuleInv, PlacedWith
<1>2. EfaInv /\ ModuleInv /\ [Next]_vars => ModuleInv'
  <2>1. ASSUME EfaInv, ModuleInv, UNCHANGED vars PROVE ModuleInv'
    <3>1. EfaKernels' = EfaKernels
      BY <2>1 DEF EfaKernels, Discovered, vars, store
    <3>2. Ensured("kmm")' = Ensured("kmm") /\ PlacedWith("kmm")' = PlacedWith("kmm")
      BY <2>1 DEF Ensured, PlacedWith, Active, Awake, vars, store, caches, control, worker
    <3> QED
      BY <2>1, <3>1, <3>2 DEF ModuleInv, vars, store, worker
  <2> QED
    BY <2>1, ModuleStep
<1> QED
  BY <1>1, <1>2, EfaInvInit, EfaInvNext, PTL DEF Spec

-----------------------------------------------------------------------------

\* As long as no node has changed its kernel labels, the controller rests over an
\* active EfaDriver only when its Module builds for every labelled node with an
\* EFA device.
THEOREM KernelsAlwaysCovered == Spec => []KernelsCovered
<1>1. EfaInv /\ ModuleInv => KernelsCovered
  BY DEF EfaInv, ModuleInv, PlacedWith, KernelsCovered, AtRest, Awake
<1> QED
  BY <1>1, ModuleInvariance, PTL

\* What an EfaDriver must have, but for the DaemonSet if its Create may fail.
Certain == IF "CreateDevicePlugin" \in FaultyCalls THEN Due \ {"ds"} ELSE Due

\* No wake-up is lost, no matter which calls fail: the controller rests over an
\* active EfaDriver only when it is Ready, its back-off is reset and it has its
\* NodeFeatureRule, its dockerfile, on OpenShift its SecurityContextConstraints,
\* and its Module if a labelled node has an EFA device and no node has changed its
\* kernel labels; its DaemonSet too, if the one Create whose errors are dropped
\* does not fail.
THEOREM RestsCertain == Spec => []RestsOnlyWith(Certain)
<1>1. EfaInv /\ ModuleInv => RestsOnlyWith(Certain)
  <2> SUFFICES ASSUME EfaInv, ModuleInv PROVE RestsOnlyWith(Certain)
    OBVIOUS
  <2>1. Certain \in SUBSET Kinds
    BY DEF Certain, Due, Required
  <2>2. ASSUME NEW k \in Certain PROVE PlacedWith(k)
    <3>1. CASE k = "kmm"
      BY <3>1 DEF Certain, Due, ModuleInv
    <3>2. CASE k # "kmm"
      BY <3>2 DEF Certain, Due, Steady, EfaInv
    <3> QED
      BY <3>1, <3>2
  <2> QED
    BY <2>1, <2>2, RestsPlaced DEF EfaInv
<1> QED
  BY <1>1, ModuleInvariance, PTL

\* When the Create of the DaemonSet does not fail, the controller never comes to
\* rest over an active EfaDriver that is not Ready or lacks an object it must
\* have, the Module included as long as no node has changed its kernel labels.
THEOREM RestsDone ==
    ASSUME "CreateDevicePlugin" \notin FaultyCalls
    PROVE  Spec => []RestsOnlyWhenDone
<1>1. RestsOnlyWith(Certain) => RestsOnlyWhenDone
  BY DEF RestsOnlyWhenDone, Certain
<1> QED
  BY <1>1, RestsCertain, PTL
=============================================================================
