-------------------- MODULE GdrdrvDriverController_proofs --------------------
(***************************************************************************)
(* The GdrdrvDriver controller, with a Module for each of any number of    *)
(* CUDA driver versions, is one of the controllers the proofs of           *)
(* DriverReconciler are about, and rests only when every version is        *)
(* covered.                                                                *)
(***************************************************************************)
EXTENDS GdrdrvDriverController, DriverReconciler_wakeups

\* The objects a GdrdrvDriver deploys.
LEMMA GdrObjects ==
    /\ "scc" \in Kinds /\ "ds" \in Kinds /\ Modules \subseteq Kinds /\ Dockerfiles \subseteq Kinds
    /\ \A v \in Versions : DockerfileOf[v] \in Dockerfiles /\ ModuleOf[v] \in Modules
  BY ObjectsAssumption DEF Injection, IsInjective

\* What is left to build for is left as it is.
LEMMA SkipLooks ==
    ASSUME TypeOK, pc \in BuildingSteps, NEW next \in AfterCreate, Skip(next)
    PROVE  CreateStep
<1>1. LookAround(next, kernelVers) /\ kernelVers \in SUBSET Builds
  BY DEF Skip, Goto, LookAround, Untouched, control, store, caches, TypeOK
<1> QED
  BY <1>1 DEF CreateStep

\* GetNodeStatus finds versions and kernels nodes may have.
LEMMA CudaDrvVersType == TypeOK => CudaDrvVers \in SUBSET Builds
<1> SUFFICES ASSUME TypeOK, NEW m \in Equipped
             PROVE  <<node[m].cuda, node[m].kernel>> \in Versions \X Kernels
  BY ObjectsAssumption DEF CudaDrvVers
<1>1. m \in Nodes /\ node[m].kernel # NoKernel /\ node[m].cuda # NoVersion
  BY DEF Equipped, Discovered
<1>2. node[m] \in [kernel : Kernels \cup {NoKernel}, cuda : Versions \cup {NoVersion}]
  BY <1>1, NodesAssumption DEF TypeOK, GdrLabels
<1> QED
  BY <1>1, <1>2

LEMMA GdrCreates ==
    ASSUME TypeOK,
           \/ GetNodeStatus \/ CraeteDevicePluginScc \/ CreateDevicePlugin
           \/ \E v \in Versions : CreateKmmDockerfile(v) \/ CreateKmm(v)
    PROVE  CreateStep
<1> USE GdrObjects DEF At
<1>1. /\ CreateSteps \cup Modules \cup {"Error", "Ready"} \subseteq AfterCreate
      /\ CreateSteps \cup Modules \subseteq BuildingSteps
  BY DEF AfterCreate, BuildingSteps, StatusSteps
<1>2. {"CreateCluster", "CreateKmmDockerfile", "CraeteDevicePluginScc", "CreateDevicePlugin"}
          \subseteq CreateSteps
  BY DEF CreateSteps
<1>3. {} \in SUBSET Builds /\ kernelVers \in SUBSET Builds
  BY DEF TypeOK
<1>4. \A left : Loop(left) \in AfterCreate
  BY <1>1, <1>2 DEF Loop
<1>5. CASE GetNodeStatus
  <2>1. CudaDrvVers \in SUBSET Builds
    BY CudaDrvVersType
  <2>2. FailedLook \/ LookAround(Loop(CudaDrvVers), CudaDrvVers)
    BY <1>5 DEF GetNodeStatus, LookAround, FailedLook
  <2> QED
    BY <1>1, <1>2, <1>4, <1>5, <2>1, <2>2 DEF GetNodeStatus, CreateStep
<1>6. CASE CraeteDevicePluginScc \/ CreateDevicePlugin
  <2>1. pc \in BuildingSteps
    BY <1>1, <1>2, <1>6 DEF CraeteDevicePluginScc, CreateDevicePlugin
  <2>2. CASE Skip("CreateDevicePlugin")
    BY <1>1, <1>2, <2>1, <2>2, SkipLooks
  <2>3. CASE \/ Ensure("scc", {}, "CreateDevicePlugin", "CreateDevicePlugin", "Error")
             \/ Ensure("ds", {}, "Ready", "Error", "Ready")
    BY <1>1, <1>2, <1>3, <2>1, <2>3 DEF CreateStep
  <2> QED
    BY <1>6, <2>2, <2>3 DEF CraeteDevicePluginScc, CreateDevicePlugin
<1>7. ASSUME NEW v \in Versions, CreateKmmDockerfile(v)
      PROVE  CreateStep
  <2>1. pc \in BuildingSteps /\ Ensure(DockerfileOf[v], {}, ModuleOf[v], ModuleOf[v], "Error")
    BY <1>1, <1>2, <1>7 DEF CreateKmmDockerfile
  <2>2. DockerfileOf[v] \in Kinds /\ ModuleOf[v] \in AfterCreate /\ "Error" \in AfterCreate
    BY <1>1
  <2> QED
    BY <1>3, <2>1, <2>2 DEF CreateStep
<1>8. ASSUME NEW v \in Versions, CreateKmm(v)
      PROVE  CreateStep
  <2> DEFINE next == Loop(kernelVers \ Of(v))
  <2>1. pc \in BuildingSteps /\ Ensure(ModuleOf[v], Of(v), next, next, "Error")
    BY <1>1, <1>8 DEF CreateKmm
  <2>2. ModuleOf[v] \in Kinds /\ next \in AfterCreate /\ "Error" \in AfterCreate
        /\ Of(v) \in SUBSET Builds
    BY <1>1, <1>3, <1>4 DEF Of
  <2> HIDE DEF next
  <2> QED
    BY <2>1, <2>2 DEF CreateStep
<1> QED
  BY <1>5, <1>6, <1>7, <1>8

\* DeleteAllOf takes all Modules, and all dockerfiles, of the driver.
LEMMA GdrDeletes ==
    ASSUME DeleteDevicePlugin \/ DeleteDevicePluginScc \/ DeleteKmm \/ DeleteConfigMap
    PROVE  DeleteStep
<1> USE GdrObjects DEF At, DeleteSteps, RemoveCached
<1>1. CASE DeleteDevicePlugin
  <2>1. \A S : InOrder(S, "DeleteDevicePluginScc")
    BY DEF InOrder, LateTears, LastTears
  <2> QED
    BY <1>1, <2>1 DEF DeleteDevicePlugin, DeleteStep
<1>2. CASE DeleteDevicePluginScc
  <2>1. \A S : InOrder(S, "DeleteKmm")
    BY DEF InOrder, LateTears, LastTears
  <2> QED
    BY <1>2, <2>1 DEF DeleteDevicePluginScc, DeleteStep
<1>3. CASE DeleteKmm
  <2>1. InOrder(Modules, "DeleteConfigMap")
    BY DEF InOrder, LateTears, LastTears
  <2> QED
    BY <1>3, <2>1 DEF DeleteKmm, DeleteStep
<1>4. CASE DeleteConfigMap
  <2>1. InOrder(Dockerfiles, "RemoveFinalizer")
    BY <1>4 DEF InOrder, LateTears, LastTears, DeleteConfigMap
  <2> QED
    BY <1>4, <2>1 DEF DeleteConfigMap, DeleteStep
<1> QED
  BY <1>1, <1>2, <1>3, <1>4

LEMMA GdrNext ==
    ASSUME TypeOK, Next
    PROVE  ReconcilerNext
<1>1. CASE Reconcile
  BY <1>1, GdrCreates, GdrDeletes DEF Reconcile, ReconcilerNext
<1>2. CASE Cluster
  BY <1>2 DEF Cluster, Collects, Relabelled, NodeStep, ReconcilerNext
<1> QED
  BY <1>1, <1>2 DEF Next, ReconcilerNext

LEMMA GdrStep == TypeOK /\ [Next]_vars => [ReconcilerNext]_vars
  BY GdrNext DEF vars

LEMMA GdrTypes == Spec => []TypeOK
<1>1. TypeOK /\ [Next]_vars => TypeOK'
  BY GdrStep, NextType
<1>2. Init => TypeOK
  BY InitType DEF Init
<1> QED
  BY <1>1, <1>2, PTL DEF Spec

LEMMA GdrReconciler == Spec => ReconcilerSpec
<1>1. Init => StartOn(Labels)
  BY DEF Init
<1> QED
  BY <1>1, GdrTypes, GdrStep, PTL DEF Spec, ReconcilerSpec

-----------------------------------------------------------------------------

\* No GdrdrvDriver goes before all its Modules and dockerfiles, those for CUDA
\* driver versions that have left the nodes included.
THEOREM NoVersionLeftBehind == Spec => []NoModuleLeftBehind
  BY GdrReconciler, ReconcilerLeavesNoModule, PTL

\* The same ownership protocol: objects under the finalizer, and none built for a
\* GdrdrvDriver that is gone or being torn down.
THEOREM GdrdrvContractKept ==
    Spec => KeepsContract /\ BuildsOnlyGuarded /\ []FinalizerGuards
  BY GdrReconciler, ReconcilerKeepsContract, ReconcilerBuildsGuarded, ReconcilerGuards, PTL

\* A GdrdrvDriver that has been Ignored is not brought back by a stale write.
THEOREM GdrdrvIgnoredForGood == Spec => IgnoredIsFinal
  BY GdrReconciler, ReconcilerIgnoresForGood, PTL

-----------------------------------------------------------------------------
(***************************************************************************)
(* The controller rests only when every version is covered                 *)
(***************************************************************************)

AfterScc  == {"CreateDevicePlugin", "Ready"}
AfterLoop == {"CraeteDevicePluginScc"} \cup AfterScc
InLoop    == {"CreateKmmDockerfile"} \cup Modules

Progress ==
    /\ pc \in AfterScc /\ OpenShift => Ensured("scc")
    /\ pc = "Ready" /\ "CreateDevicePlugin" \notin FaultyCalls => Ensured("ds")

VersionEnsured(v) == Ensured(DockerfileOf[v]) /\ Ensured(ModuleOf[v])

\* As long as no node has changed its labels, the loop over the versions has
\* left all versions it is past with dockerfile and Module, and has all pairs of
\* the other ones still to build for.
LoopInv ==
    /\ pc \in InLoop =>
          /\ kernelVers \subseteq CudaDrvVers
          /\ \A p \in kernelVers, q \in CudaDrvVers : p[1] = q[1] => q \in kernelVers
    /\ pc \in InLoop \cup AfterLoop =>
          \A p \in CudaDrvVers : (pc \in InLoop /\ p \in kernelVers) \/ VersionEnsured(p[1])
    /\ \A v \in Versions :
          pc = ModuleOf[v] => Ensured(DockerfileOf[v]) /\ \E p \in kernelVers : p[1] = v

\* Every Module has a mapping for every kernel its version is found with.
MappingInv ==
    \A n \in Names, p \in CudaDrvVers :
        child[n][ModuleOf[p[1]]] # 0 => p \in mapped[n][ModuleOf[p[1]]]

VersionsPlaced ==
    \A p \in CudaDrvVers : PlacedWith(DockerfileOf[p[1]]) /\ PlacedWith(ModuleOf[p[1]])

VersionInv == used.nodeChanges = 0 => LoopInv /\ MappingInv /\ VersionsPlaced

\* CreateDevicePlugin drops the errors of Create: the DaemonSet is certain only if
\* that Create never fails.
Certain == Required \ (IF "CreateDevicePlugin" \in FaultyCalls THEN {"ds"} ELSE {})

GdrInv == WakeInv /\ Progress /\ (\A k \in Certain : PlacedWith(k)) /\ VersionInv

\* Versions, and the names of their objects, are apart.
LEMMA VersionNames ==
    /\ \A v, w \in Versions : ModuleOf[v] = ModuleOf[w] => v = w
    /\ \A v, w \in Versions : DockerfileOf[v] # ModuleOf[w]
    /\ "scc" \notin Modules /\ "ds" \notin Modules
<1>1. ModuleOf \in [Versions -> Modules] /\ DockerfileOf \in [Versions -> Dockerfiles]
  BY ObjectsAssumption DEF Injection, IsInjective
<1>2. \A v, w \in Versions : ModuleOf[v] = ModuleOf[w] => v = w
  BY <1>1, ObjectsAssumption DEF Injection, IsInjective
<1> QED
  BY <1>1, <1>2, ObjectsAssumption

LEMMA LoopSets ==
    /\ InLoop \cap (AfterLoop \cup {"idle", "CreateCluster", "Error"} \cup StartSteps \cup DeleteSteps) = {}
    /\ AfterLoop \cap ({"idle", "CreateCluster", "Error"} \cup StartSteps \cup DeleteSteps) = {}
    /\ AfterScc \subseteq AfterLoop /\ "Ready" \in AfterScc /\ "CreateKmmDockerfile" \notin Modules
    /\ "CraeteDevicePluginScc" \notin AfterScc /\ Modules \subseteq InLoop
  BY StepNames, KindsAssumption
     DEF InLoop, AfterLoop, AfterScc, StartSteps, DeleteSteps, CreateSteps, StatusSteps

LEMMA PairTypes == TypeOK => \A p \in CudaDrvVers : p[1] \in Versions
  BY CudaDrvVersType, ObjectsAssumption

Creating ==
    \/ GetNodeStatus \/ CraeteDevicePluginScc \/ CreateDevicePlugin
    \/ \E v \in Versions : CreateKmmDockerfile(v) \/ CreateKmm(v)

\* Where the steps of CreateCluster lead.
LEMMA CreatePath ==
    /\ GetNodeStatus => pc = "CreateCluster" /\ pc' \in {Loop(CudaDrvVers), "Error"}
    /\ \A v \in Versions : CreateKmmDockerfile(v) =>
          pc = "CreateKmmDockerfile" /\ pc' \in {ModuleOf[v], "Error"}
    /\ \A v \in Versions : CreateKmm(v) =>
          pc = ModuleOf[v] /\ pc' \in {Loop(kernelVers \ Of(v)), "Error"}
    /\ CraeteDevicePluginScc => pc = "CraeteDevicePluginScc" /\ pc' \in {"CreateDevicePlugin", "Error"}
    /\ CreateDevicePlugin => pc = "CreateDevicePlugin" /\ pc' \in {"Ready", "Error"}
  BY DEF GetNodeStatus, CreateKmmDockerfile, CreateKmm, CraeteDevicePluginScc, CreateDevicePlugin,
         At, Ensure, ReadFails, Skip, Goto

LEMMA CreatingStep ==
    ASSUME TypeOK, Creating
    PROVE  pc # "idle" /\ req \in Names
  BY CreatePath, GdrObjects, LoopSets DEF Creating, TypeOK

\* CreateCluster is entered at its first step, and only its own steps lead on.
LEMMA NotCreating ==
    ASSUME WakeInv, Next, ~Creating
    PROVE  pc' \in InLoop \cup AfterLoop => pc' = pc /\ kernelVers' = kernelVers
<1>1. CASE OutsideCluster
  BY <1>1, OutsideClusterGoes, LoopSets DEF DeleteSteps
<1>2. CASE DeleteDevicePlugin \/ DeleteDevicePluginScc \/ DeleteKmm \/ DeleteConfigMap
  <2>1. pc' \in DeleteSteps \cup {"Error"}
    BY <1>2, GdrDeletes DEF DeleteStep, Remove, Skip, Goto
  <2> QED
    BY <2>1, LoopSets
<1>3. CASE User \/ Watch \/ Cluster
  <2>1. UNCHANGED <<pc, kernelVers>>
    BY <1>3 DEF User, Watch, Cluster, UserCreates, UserDeletes, UserDeletesChild, Changed, Vanish,
                SyncDriver, SyncChild, TimerFires, Deliver, CollectGarbage, Relabelled, SetNode, worker
  <2> QED
    BY <2>1
<1>4. CASE Restart
  BY <1>4, LoopSets DEF Restart
<1> QED
  BY <1>1, <1>2, <1>3, <1>4 DEF Next, Reconcile, Creating

\* An object that was ensured when the worker passed it stays so on the way.
LEMMA Onward ==
    ASSUME WakeInv, ReconcilerNext, pc \in InLoop \cup AfterLoop, pc' \in InLoop \cup AfterLoop,
           NEW k \in Kinds, Ensured(k)
    PROVE  Ensured(k)'
<1>1. pc # "idle" /\ pc' # "idle"
  BY LoopSets
<1> QED
  BY <1>1, EnsuredStays

LEMMA ProgressStep ==
    ASSUME WakeInv, Progress, Next
    PROVE  Progress'
<1>1. TypeOK /\ ReconcilerNext /\ "scc" \in Kinds /\ "ds" \in Kinds /\ {} \in SUBSET Builds
  BY GdrNext, GdrObjects DEF WakeInv, IInv
<1>2. \A left : Loop(left) \notin AfterScc
  BY LoopSets DEF Loop, AfterScc
<1>3. \A v \in Versions : ModuleOf[v] \notin AfterScc
  BY GdrObjects, LoopSets
<1>4. "Error" \notin AfterScc
  BY LoopSets
<1>5. ASSUME pc' \in AfterScc, OpenShift PROVE Ensured("scc")'
  <2>1. CASE CraeteDevicePluginScc
    <3>1. Ensured("scc")' \/ pc' = "Error"
      BY <1>1, <1>5, <2>1, CreatingStep, EnsureEnsures DEF CraeteDevicePluginScc, Creating
    <3> QED
      BY <1>4, <1>5, <3>1
  <2>2. CASE ~CraeteDevicePluginScc
    <3>1. pc \in AfterScc
      BY <1>2, <1>3, <1>4, <1>5, <2>2, NotCreating, CreatePath, LoopSets DEF Creating, AfterScc
    <3> QED
      BY <1>1, <1>5, <3>1, Onward, LoopSets DEF Progress
  <2> QED
    BY <2>1, <2>2
<1>6. ASSUME pc' = "Ready", "CreateDevicePlugin" \notin FaultyCalls PROVE Ensured("ds")'
  <2>1. CASE CreateDevicePlugin
    <3>1. Ensured("ds")' \/ pc \in FaultyCalls
      BY <1>1, <2>1, CreatingStep, EnsureEnsures DEF CreateDevicePlugin, Creating
    <3> QED
      BY <1>6, <2>1, <3>1 DEF CreateDevicePlugin, At
  <2>2. CASE ~CreateDevicePlugin
    <3>1. pc = "Ready"
      BY <1>2, <1>3, <1>4, <1>6, <2>2, NotCreating, CreatePath, LoopSets DEF Creating
    <3> QED
      BY <1>1, <1>6, <3>1, Onward, LoopSets DEF Progress
  <2> QED
    BY <2>1, <2>2
<1> QED
  BY <1>5, <1>6 DEF Progress

\* A change of the labels of a node is counted.
LEMMA VersionsStay ==
    ASSUME TypeOK, Next, used'.nodeChanges = 0
    PROVE  used.nodeChanges = 0 /\ UNCHANGED node /\ CudaDrvVers' = CudaDrvVers
<1>1. used.nodeChanges \in Nat
  BY DEF TypeOK, Counters
<1>2. ASSUME NEW m \in Nodes, NEW labels \in Labels, Relabelled(m, labels) PROVE FALSE
  <2>1. used'.nodeChanges = used.nodeChanges + 1
    BY <1>2 DEF Relabelled, Spend, TypeOK, Counters
  <2> QED
    BY <1>1, <2>1
<1>3. CASE Reconcile \/ User \/ Watch \/ Collects \/ Restart
  <2>1. UNCHANGED node /\ used'.nodeChanges = used.nodeChanges
    BY <1>3, NodesKept, GdrCreates, GdrDeletes DEF Reconcile
  <2> QED
    BY <2>1 DEF CudaDrvVers, Equipped, Discovered
<1> QED
  BY <1>2, <1>3 DEF Next, Cluster, Collects

\* What the loop leaves to build for, and what ensuring its objects achieves.
LEMMA LoopMoves ==
    ASSUME WakeInv
    PROVE  /\ GetNodeStatus /\ pc' # "Error" => kernelVers' = CudaDrvVers
           /\ \A v \in Versions : CreateKmmDockerfile(v) /\ pc' # "Error" =>
                 /\ kernelVers' = kernelVers /\ (\E p \in kernelVers : p[1] = v)
                 /\ Ensured(DockerfileOf[v])'
           /\ \A v \in Versions : CreateKmm(v) /\ pc' # "Error" =>
                 kernelVers' = kernelVers \ Of(v) /\ Ensured(ModuleOf[v])'
<1>1. TypeOK /\ {} \in SUBSET Builds /\ kernelVers \in SUBSET Builds
  BY DEF WakeInv, IInv, TypeOK
<1>2. GetNodeStatus /\ pc' # "Error" => kernelVers' = CudaDrvVers
  BY DEF GetNodeStatus, ReadFails, Goto
<1>3. ASSUME NEW v \in Versions, CreateKmmDockerfile(v), pc' # "Error"
      PROVE  /\ kernelVers' = kernelVers /\ (\E p \in kernelVers : p[1] = v)
             /\ Ensured(DockerfileOf[v])'
  <2>1. pc # "idle" /\ DockerfileOf[v] \in Kinds
    BY <1>1, <1>3, CreatingStep, GdrObjects DEF Creating
  <2>2. Ensure(DockerfileOf[v], {}, ModuleOf[v], ModuleOf[v], "Error")
    BY <1>3 DEF CreateKmmDockerfile
  <2>3. Ensured(DockerfileOf[v])'
    BY <1>1, <1>3, <2>1, <2>2, EnsureEnsures
  <2> QED
    BY <1>3, <2>2, <2>3 DEF CreateKmmDockerfile, Ensure
<1>4. ASSUME NEW v \in Versions, CreateKmm(v), pc' # "Error"
      PROVE  kernelVers' = kernelVers \ Of(v) /\ Ensured(ModuleOf[v])'
  <2> DEFINE next == Loop(kernelVers \ Of(v))
  <2>1. pc # "idle" /\ ModuleOf[v] \in Kinds /\ Of(v) \in SUBSET Builds
    BY <1>1, <1>4, CreatingStep, GdrObjects DEF Creating, Of
  <2>2. Ensure(ModuleOf[v], Of(v), next, next, "Error")
    BY <1>4 DEF CreateKmm
  <2> HIDE DEF next
  <2>3. Ensured(ModuleOf[v])'
    BY <1>1, <1>4, <2>1, <2>2, EnsureEnsures
  <2> QED
    BY <2>2, <2>3 DEF Ensure
<1> QED
  BY <1>2, <1>3, <1>4

\* What is left to build for is a part of what was found, version by version.
LEMMA LeftWhole ==
    ASSUME WakeInv, LoopInv, Next, CudaDrvVers' = CudaDrvVers, pc' \in InLoop
    PROVE  /\ kernelVers' \subseteq CudaDrvVers
           /\ \A p \in kernelVers', q \in CudaDrvVers : p[1] = q[1] => q \in kernelVers'
<1>1. pc' # "Error" /\ pc' \notin AfterLoop
  BY LoopSets
<1>2. CASE GetNodeStatus
  BY <1>1, <1>2, LoopMoves
<1>3. CASE \E v \in Versions : CreateKmmDockerfile(v)
  <2>1. pc \in InLoop /\ kernelVers' = kernelVers
    BY <1>1, <1>3, LoopMoves, CreatePath, LoopSets DEF InLoop
  <2> QED
    BY <2>1 DEF LoopInv
<1>4. ASSUME NEW v \in Versions, CreateKmm(v)
      PROVE  /\ kernelVers' \subseteq CudaDrvVers
             /\ \A p \in kernelVers', q \in CudaDrvVers : p[1] = q[1] => q \in kernelVers'
  <2>1. pc \in InLoop /\ kernelVers' = kernelVers \ Of(v)
    BY <1>1, <1>4, LoopMoves, CreatePath, LoopSets, GdrObjects
  <2> QED
    BY <2>1 DEF LoopInv, Of
<1>5. CASE CraeteDevicePluginScc \/ CreateDevicePlugin
  BY <1>1, <1>5, CreatePath DEF AfterLoop, AfterScc
<1>6. CASE ~Creating
  BY <1>6, NotCreating DEF LoopInv
<1> QED
  BY <1>2, <1>3, <1>4, <1>5, <1>6 DEF Creating

\* A version that is not left to build for has been ensured.
LEMMA PassedEnsured ==
    ASSUME WakeInv, LoopInv, Next, CudaDrvVers' = CudaDrvVers,
           pc' \in InLoop \cup AfterLoop, NEW p \in CudaDrvVers
    PROVE  (pc' \in InLoop /\ p \in kernelVers') \/ VersionEnsured(p[1])'
<1>1. TypeOK /\ ReconcilerNext /\ p[1] \in Versions /\ pc' # "Error"
  BY GdrNext, PairTypes, LoopSets DEF WakeInv, IInv
<1>2. DockerfileOf[p[1]] \in Kinds /\ ModuleOf[p[1]] \in Kinds
  BY <1>1, GdrObjects
<1>3. pc \in InLoop \cup AfterLoop /\ VersionEnsured(p[1]) => VersionEnsured(p[1])'
  BY <1>1, <1>2, Onward DEF VersionEnsured
<1>4. CASE GetNodeStatus
  BY <1>1, <1>4, LoopMoves, CreatePath DEF Loop, InLoop
<1>5. CASE \E v \in Versions : CreateKmmDockerfile(v)
  <2>1. pc \in InLoop /\ pc' \in InLoop /\ kernelVers' = kernelVers
    BY <1>1, <1>5, LoopMoves, CreatePath, LoopSets, GdrObjects DEF InLoop
  <2> QED
    BY <1>3, <2>1 DEF LoopInv
<1>6. ASSUME NEW v \in Versions, CreateKmm(v)
      PROVE  (pc' \in InLoop /\ p \in kernelVers') \/ VersionEnsured(p[1])'
  <2>1. /\ pc = ModuleOf[v] /\ pc \in InLoop /\ pc' = Loop(kernelVers \ Of(v))
        /\ kernelVers' = kernelVers \ Of(v) /\ Ensured(ModuleOf[v])'
    BY <1>1, <1>6, LoopMoves, CreatePath, LoopSets, GdrObjects
  <2>2. CASE p \in kernelVers \ Of(v)
    BY <2>1, <2>2 DEF Loop, InLoop
  <2>3. CASE p \in Of(v)
    <3>1. p[1] = v /\ Ensured(DockerfileOf[v])
      BY <2>1, <2>3 DEF Of, LoopInv
    <3>2. Ensured(DockerfileOf[v])'
      BY <1>1, <1>2, <2>1, <3>1, Onward
    <3> QED
      BY <2>1, <3>1, <3>2 DEF VersionEnsured
  <2>4. CASE p \notin kernelVers
    BY <1>3, <2>1, <2>4 DEF LoopInv
  <2> QED
    BY <2>2, <2>3, <2>4
<1>7. CASE CraeteDevicePluginScc \/ CreateDevicePlugin
  <2>1. pc \in AfterLoop /\ pc \notin InLoop
    BY <1>7, CreatePath, LoopSets DEF AfterLoop, AfterScc
  <2> QED
    BY <1>3, <2>1 DEF LoopInv
<1>8. CASE ~Creating
  BY <1>3, <1>8, NotCreating DEF LoopInv
<1> QED
  BY <1>4, <1>5, <1>6, <1>7, <1>8 DEF Creating

\* The Module for a version is created after the dockerfile for that version.
LEMMA DockerfileFirst ==
    ASSUME WakeInv, LoopInv, Next, NEW v \in Versions, pc' = ModuleOf[v]
    PROVE  Ensured(DockerfileOf[v])' /\ \E p \in kernelVers' : p[1] = v
<1>1. /\ TypeOK /\ ReconcilerNext /\ DockerfileOf[v] \in Kinds
      /\ pc' \in InLoop /\ pc' \in Modules /\ pc' # "Error"
  BY GdrNext, GdrObjects, LoopSets DEF WakeInv, IInv
<1>2. pc' \notin {"CreateKmmDockerfile"} \cup AfterLoop
  BY <1>1, LoopSets
<1>3. CASE \E w \in Versions : CreateKmmDockerfile(w)
  <2>1. PICK w \in Versions : CreateKmmDockerfile(w)
    BY <1>3
  <2>2. w = v
    BY <1>1, <2>1, CreatePath, VersionNames
  <2> QED
    BY <1>1, <2>1, <2>2, LoopMoves
<1>4. CASE ~\E w \in Versions : CreateKmmDockerfile(w)
  <2>1. ~Creating
    BY <1>1, <1>2, <1>4, CreatePath DEF Creating, Loop, AfterLoop, AfterScc
  <2>2. pc = ModuleOf[v] /\ kernelVers' = kernelVers
    BY <1>1, <2>1, NotCreating
  <2>3. Ensured(DockerfileOf[v]) /\ \E p \in kernelVers : p[1] = v
    BY <2>2 DEF LoopInv
  <2> QED
    BY <1>1, <2>2, <2>3, Onward
<1> QED
  BY <1>3, <1>4

LEMMA LoopStep ==
    ASSUME WakeInv, LoopInv, Next, CudaDrvVers' = CudaDrvVers
    PROVE  LoopInv'
  BY LeftWhole, PassedEnsured, DockerfileFirst DEF LoopInv

\* A Module is as it was, or has been created for what is left of its version.
LEMMA VersionMaps ==
    ASSUME TypeOK, Next, NEW n \in Names, NEW v \in Versions
    PROVE  \/ SameObject(n, ModuleOf[v])
           \/ CreateKmm(v) /\ mapped'[n][ModuleOf[v]] = Of(v)
<1>1. /\ ModuleOf[v] \in Kinds /\ {} \in SUBSET Builds /\ kernelVers \in SUBSET Builds
      /\ "scc" \in Kinds /\ "ds" \in Kinds /\ ModuleOf[v] \notin {"scc", "ds"}
  BY GdrObjects, VersionNames DEF TypeOK
<1>2. ASSUME UNCHANGED store PROVE SameObject(n, ModuleOf[v])
  BY <1>2 DEF store, SameObject
<1>3. Creating => pc # "idle"
  BY CreatingStep
<1>4. CASE GetNodeStatus
  BY <1>2, <1>4 DEF GetNodeStatus, ReadFails, Untouched
<1>5. ASSUME NEW w \in Versions, CreateKmmDockerfile(w) PROVE SameObject(n, ModuleOf[v])
  <2>1. DockerfileOf[w] \in Kinds /\ DockerfileOf[w] # ModuleOf[v]
    BY GdrObjects, VersionNames
  <2> QED
    BY <1>1, <1>3, <1>5, <2>1, EnsureMaps DEF CreateKmmDockerfile, Creating
<1>6. ASSUME NEW w \in Versions, CreateKmm(w)
      PROVE  \/ SameObject(n, ModuleOf[v])
             \/ CreateKmm(v) /\ mapped'[n][ModuleOf[v]] = Of(v)
  <2> DEFINE next == Loop(kernelVers \ Of(w))
  <2>1. ModuleOf[w] \in Kinds /\ Of(w) \in SUBSET Builds /\ pc # "idle"
    BY <1>1, <1>3, <1>6, GdrObjects DEF Of, Creating
  <2>2. Ensure(ModuleOf[w], Of(w), next, next, "Error")
    BY <1>6 DEF CreateKmm
  <2> HIDE DEF next
  <2>3. \/ SameObject(n, ModuleOf[v])
        \/ ModuleOf[v] = ModuleOf[w] /\ mapped'[n][ModuleOf[v]] = Of(w)
    BY <1>1, <2>1, <2>2, EnsureMaps
  <2> QED
    BY <1>6, <2>3, VersionNames
<1>7. CASE CraeteDevicePluginScc \/ CreateDevicePlugin
  <2>1. CASE UNCHANGED store
    BY <1>2, <2>1
  <2>2. CASE \/ Ensure("scc", {}, "CreateDevicePlugin", "CreateDevicePlugin", "Error")
             \/ Ensure("ds", {}, "Ready", "Error", "Ready")
    BY <1>1, <1>3, <1>7, <2>2, EnsureMaps DEF Creating
  <2> QED
    BY <1>7, <2>1, <2>2 DEF CraeteDevicePluginScc, CreateDevicePlugin, Skip, Untouched
<1>8. CASE ~Creating
  <2>1. \/ OutsideCluster \/ DeleteStep \/ User \/ Watch \/ Collects \/ NodeStep \/ Restart
    BY <1>8, GdrDeletes
       DEF Creating, Next, Reconcile, Cluster, Collects, Relabelled, NodeStep
  <2> QED
    BY <1>1, <2>1, OtherMaps
<1> QED
  BY <1>4, <1>5, <1>6, <1>7, <1>8 DEF Creating

LEMMA MappingStep ==
    ASSUME WakeInv, LoopInv, MappingInv, Next, CudaDrvVers' = CudaDrvVers
    PROVE  MappingInv'
<1> SUFFICES ASSUME NEW n \in Names, NEW p \in CudaDrvVers, child'[n][ModuleOf[p[1]]] # 0
             PROVE  p \in mapped'[n][ModuleOf[p[1]]]
  BY DEF MappingInv
<1>1. TypeOK /\ p[1] \in Versions
  BY PairTypes DEF WakeInv, IInv
<1>2. CASE SameObject(n, ModuleOf[p[1]])
  BY <1>2 DEF SameObject, MappingInv
<1>3. CASE CreateKmm(p[1]) /\ mapped'[n][ModuleOf[p[1]]] = Of(p[1])
  <2>1. pc = ModuleOf[p[1]] /\ pc \in InLoop
    BY <1>1, <1>3, CreatePath, LoopSets, GdrObjects
  <2>2. \E q \in kernelVers : q[1] = p[1]
    BY <1>1, <2>1 DEF LoopInv
  <2>3. p \in kernelVers
    BY <2>1, <2>2 DEF LoopInv
  <2> QED
    BY <1>3, <2>3 DEF Of
<1> QED
  BY <1>1, <1>2, <1>3, VersionMaps

\* When the outcome is Ready, the worker has passed all versions.
LEMMA VersionsPlacedStep ==
    ASSUME WakeInv, LoopInv, VersionsPlaced, Next, CudaDrvVers' = CudaDrvVers
    PROVE  VersionsPlaced'
<1>1. TypeOK /\ ReconcilerNext
  BY GdrNext DEF WakeInv, IInv
<1>2. ASSUME NEW p \in CudaDrvVers
      PROVE  PlacedWith(DockerfileOf[p[1]])' /\ PlacedWith(ModuleOf[p[1]])'
  <2>1. DockerfileOf[p[1]] \in Kinds /\ ModuleOf[p[1]] \in Kinds
    BY <1>1, PairTypes, GdrObjects
  <2>2. pc = "Ready" => VersionEnsured(p[1])
    BY LoopSets DEF LoopInv
  <2> QED
    BY <1>1, <2>1, <2>2, PlacedWithStep DEF VersionsPlaced, VersionEnsured
<1> QED
  BY <1>2 DEF VersionsPlaced

LEMMA VersionStep ==
    ASSUME WakeInv, VersionInv, Next
    PROVE  VersionInv'
<1> SUFFICES ASSUME used'.nodeChanges = 0
             PROVE  LoopInv' /\ MappingInv' /\ VersionsPlaced'
  BY DEF VersionInv
<1>1. used.nodeChanges = 0 /\ CudaDrvVers' = CudaDrvVers
  BY VersionsStay DEF WakeInv, IInv
<1> QED
  BY <1>1, LoopStep, MappingStep, VersionsPlacedStep DEF VersionInv

LEMMA GdrInvNext == GdrInv /\ [Next]_vars => GdrInv'
<1> SUFFICES ASSUME GdrInv, [Next]_vars PROVE GdrInv'
  OBVIOUS
<1>1. WakeInv'
  BY GdrStep, WakeNext DEF GdrInv, WakeInv, IInv
<1>2. CASE UNCHANGED vars
  <2>1. /\ CudaDrvVers' = CudaDrvVers
        /\ \A k : Ensured(k)' = Ensured(k) /\ PlacedWith(k)' = PlacedWith(k)
    BY <1>2 DEF CudaDrvVers, Equipped, Discovered, Ensured, PlacedWith, Active, Awake, vars, store,
                caches, control, worker
  <2>2. Progress' /\ \A k \in Certain : PlacedWith(k)'
    BY <1>2, <2>1 DEF GdrInv, Progress, vars, worker
  <2>3. LoopInv' = LoopInv /\ MappingInv' = MappingInv
    BY <1>2, <2>1 DEF LoopInv, MappingInv, VersionEnsured, vars, worker, store
  <2>4. VersionsPlaced' = VersionsPlaced
    BY <2>1 DEF VersionsPlaced
  <2>5. VersionInv'
    BY <1>2, <2>3, <2>4 DEF GdrInv, VersionInv, vars
  <2> QED
    BY <1>1, <2>2, <2>5 DEF GdrInv
<1>3. CASE Next
  <2>1. WakeInv /\ ReconcilerNext /\ Progress /\ VersionInv
    BY <1>3, GdrNext DEF GdrInv, WakeInv, IInv
  <2>2. ASSUME NEW k \in Certain PROVE PlacedWith(k)'
    <3>1. k \in Kinds /\ PlacedWith(k)
      BY GdrObjects DEF GdrInv, Certain, Required
    <3>2. pc = "Ready" => Ensured(k)
      BY LoopSets DEF GdrInv, Progress, Certain, Required
    <3> QED
      BY <2>1, <3>1, <3>2, PlacedWithStep
  <2> QED
    BY <1>1, <1>3, <2>1, <2>2, ProgressStep, VersionStep DEF GdrInv
<1> QED
  BY <1>2, <1>3

LEMMA GdrInvInit == Init => GdrInv
<1> SUFFICES ASSUME Init PROVE GdrInv
  OBVIOUS
<1>1. WakeInv /\ pc = "idle" /\ TypeOK
  BY WakeInit, InitType DEF Init, StartOn
<1>2. \A n \in Names : ~Active(n) /\ \A k \in Kinds : child[n][k] = 0
  BY NoCRUid DEF Init, StartOn, Active, Exists
<1>3. "idle" \notin InLoop \cup AfterLoop \cup AfterScc \cup Modules /\ pc # "Ready"
  BY <1>1, LoopSets
<1>4. \A k : PlacedWith(k)
  BY <1>2 DEF PlacedWith
<1>5. LoopInv
  BY <1>1, <1>3, GdrObjects DEF LoopInv
<1>6. MappingInv
  BY <1>1, <1>2, PairTypes, GdrObjects DEF MappingInv
<1> QED
  BY <1>1, <1>3, <1>4, <1>5, <1>6 DEF GdrInv, Progress, VersionInv, VersionsPlaced

LEMMA GdrInvariance == Spec => []GdrInv
  BY GdrInvInit, GdrInvNext, PTL DEF Spec

\* What a driver at rest has been placed with covers the nodes.
LEMMA PlacedCovers ==
    ASSUME WakeInv, MappingInv, VersionsPlaced, NEW n \in Names, Active(n), AtRest(n)
    PROVE  Covers(n)
<1> SUFFICES ASSUME NEW m \in Equipped
             PROVE  LET v == node[m].cuda
                    IN  /\ child[n][DockerfileOf[v]] # 0 /\ child[n][ModuleOf[v]] # 0
                        /\ <<v, node[m].kernel>> \in mapped[n][ModuleOf[v]]
  BY DEF Covers
<1> DEFINE p == <<node[m].cuda, node[m].kernel>>
<1>1. p \in CudaDrvVers /\ p[1] = node[m].cuda
  BY DEF CudaDrvVers
<1>2. child[n][DockerfileOf[p[1]]] # 0 /\ child[n][ModuleOf[p[1]]] # 0
  BY <1>1 DEF VersionsPlaced, PlacedWith, AtRest, Awake
<1> QED
  BY <1>1, <1>2 DEF MappingInv

\* No matter which call fails, where the loop over the versions takes up again and
\* when the operator restarts, the controller rests over an active GdrdrvDriver only
\* when it is Ready and has its SecurityContextConstraints on OpenShift; its DaemonSet
\* too, if the one Create whose errors are dropped does not fail.
THEOREM GdrdrvRestsCertain == Spec => []RestsOnlyWith(Certain)
<1>1. GdrInv => RestsOnlyWith(Certain)
  <2>1. Certain \in SUBSET Kinds
    BY GdrObjects DEF Certain, Required
  <2> QED
    BY <2>1, RestsPlaced DEF GdrInv
<1> QED
  BY <1>1, GdrInvariance, PTL

\* As long as no node has changed its labels, it rests only when the driver covers
\* all nodes, whichever calls fail.
THEOREM VersionsAlwaysCovered ==
    Spec => [](used.nodeChanges = 0 => \A n \in Names : Active(n) /\ AtRest(n) => Covers(n))
<1>1. GdrInv => (used.nodeChanges = 0 => \A n \in Names : Active(n) /\ AtRest(n) => Covers(n))
  BY PlacedCovers DEF GdrInv, VersionInv
<1> QED
  BY <1>1, GdrInvariance, PTL

\* Both, when the Create of the DaemonSet does not fail.
THEOREM RestsCovered ==
    ASSUME "CreateDevicePlugin" \notin FaultyCalls
    PROVE  Spec => []RestsOnlyCovered
<1>1. RestsOnlyWith(Certain) = RestsOnlyWith(Required)
  BY DEF Certain
<1>2. RestsOnlyWith(Certain)
      /\ (used.nodeChanges = 0 => \A n \in Names : Active(n) /\ AtRest(n) => Covers(n))
      => RestsOnlyCovered
  BY <1>1 DEF RestsOnlyCovered
<1> QED
  BY <1>2, GdrdrvRestsCertain, VersionsAlwaysCovered, PTL
=============================================================================
