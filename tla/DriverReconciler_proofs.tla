---------------------- MODULE DriverReconciler_proofs ----------------------
(***************************************************************************)
(* Proofs about every controller built on DriverReconciler, for every set  *)
(* of names, objects and nodes and every bound.                            *)
(*                                                                         *)
(* What the proofs need of a CreateCluster and a DeleteCluster is stated   *)
(* as the specification ReconcilerSpec, which leaves open in which order   *)
(* CreateCluster ensures its objects and what it finds on the nodes, and   *)
(* asks of DeleteCluster only that it does not pass DeleteKmm and          *)
(* DeleteConfigMap by.  A controller implements ReconcilerSpec, state for  *)
(* state, and inherits the theorems of this module.                        *)
(***************************************************************************)
EXTENDS DriverReconciler, TLAPS

-----------------------------------------------------------------------------
(***************************************************************************)
(* Every controller built on DriverReconciler                              *)
(***************************************************************************)

BuildingSteps == CreateSteps \cup Modules
AfterCreate   == BuildingSteps \cup StatusSteps
LateTears     == {"DeleteConfigMap", "DeleteNFR", "RemoveFinalizer"}
LastTears     == {"DeleteNFR", "RemoveFinalizer"}

\* A function of CreateCluster that calls the API server for no object.
LookAround(next, found) ==
    /\ pc' = next
    /\ kernelVers' = found
    /\ UNCHANGED <<store, caches, control, req, efa, fresh, used>>

\* One whose Get or List fails.
FailedLook == ReadFails /\ UNCHANGED <<efa, fresh, kernelVers>>

CreateStep ==
    /\ pc \in BuildingSteps
    /\ \/ \E k \in Kinds, kernels \in SUBSET Builds :
             \E next, exists, failed \in AfterCreate : Ensure(k, kernels, next, exists, failed)
       \/ \E next \in AfterCreate, found \in SUBSET Builds : LookAround(next, found)
       \/ FailedLook

\* DeleteCluster goes past DeleteKmm and DeleteConfigMap only through them.
InOrder(S, next) ==
    /\ next \in LateTears => pc \in LateTears \/ Modules \subseteq S
    /\ next \in LastTears => pc \in LastTears \/ Dockerfiles \subseteq S

DeleteStep ==
    /\ pc \in DeleteSteps
    /\ \E next \in DeleteSteps :
          \/ \E S \in SUBSET Kinds : InOrder(S, next) /\ Remove(S, next)
          \/ InOrder({}, next) /\ Skip(next)

NodeStep ==
    \E m \in Nodes, labels \in Labels :
        SetNode(m, labels) /\ (UNCHANGED used \/ Spend("nodeChanges", MaxNodeChanges))

Collects == \E n \in Names, k \in Kinds : CollectGarbage(n, k)

ReconcilerNext ==
    \/ OutsideCluster \/ CreateStep \/ DeleteStep
    \/ User \/ Watch \/ Collects \/ NodeStep \/ Restart

ReconcilerSpec == StartOn(Labels) /\ [][ReconcilerNext]_vars

\* The steps of Reconcile have names of their own.
LEMMA StepNames ==
    /\ "cr" \notin Kinds
    /\ \A k \in Modules :
          k \in PCs /\ k # "idle" /\ k \notin StartSteps /\ k \notin DeleteSteps /\ k \notin StatusSteps
  BY KindsAssumption DEF PCs

-----------------------------------------------------------------------------
(***************************************************************************)
(* Type correctness                                                        *)
(***************************************************************************)

\* The worker's variables keep their types when the reconciliation ends.
LEMMA IdleType ==
    ASSUME TypeOK, Idle
    PROVE  /\ pc' \in PCs /\ pc' = "idle" /\ req' \in Names \cup {NoReq}
           /\ efa' \in Driver /\ fresh' \in BOOLEAN /\ kernelVers' \in SUBSET Builds
           /\ queue' \in SUBSET Names
  BY DEF TypeOK, Idle, PCs, Driver, NoCR, Conditions

\* Every way for Reconcile to return keeps the types of worker and work queue.
LEMMA ReturnType ==
    ASSUME TypeOK, req \in Names, ReturnEarly \/ ReturnDone \/ ReturnRequeue \/ ReturnErr
    PROVE  /\ delayed' \in SUBSET Names /\ backoff' \in [Names -> Nat]
           /\ Idle
  BY BoundsAssumption DEF TypeOK, ReturnEarly, ReturnDone, ReturnRequeue, ReturnErr, GetRequeueAfter

\* A write of a driver keeps the types of store and caches.
LEMMA WrittenType ==
    ASSUME TypeOK, req \in Names, NEW d \in Driver, Written(d)
    PROVE  /\ cr' \in [Names -> Driver] /\ pending' \in [Names -> SUBSET (Kinds \cup {"cr"})]
           /\ UNCHANGED <<child, mapped, node, crCache, childCache>>
  BY DEF TypeOK, Written, Notify

\* So does a change of the deployed objects.
LEMMA ObjectsType ==
    ASSUME TypeOK, req \in Names,
           \/ \E k \in Kinds, kernels \in SUBSET Builds : Built(k, kernels)
           \/ \E n \in Names, gone \in SUBSET Kinds : Cleared(n, gone)
           \/ Untouched
    PROVE  /\ child' \in [Names -> [Kinds -> Nat]]
           /\ mapped' \in [Names -> [Kinds -> SUBSET Builds]]
           /\ pending' \in [Names -> SUBSET (Kinds \cup {"cr"})]
           /\ UNCHANGED <<cr, node, crCache, childCache>>
<1>1. efa.uid \in Nat
  BY DEF TypeOK, Driver
<1>2. ASSUME NEW k \in Kinds, NEW kernels \in SUBSET Builds, Built(k, kernels)
      PROVE  /\ child' \in [Names -> [Kinds -> Nat]]
             /\ mapped' \in [Names -> [Kinds -> SUBSET Builds]]
             /\ pending' \in [Names -> SUBSET (Kinds \cup {"cr"})]
             /\ UNCHANGED <<cr, node, crCache, childCache>>
  BY <1>1, <1>2 DEF TypeOK, Built, Notify
<1>3. ASSUME NEW n \in Names, NEW gone \in SUBSET Kinds, Cleared(n, gone)
      PROVE  /\ child' \in [Names -> [Kinds -> Nat]]
             /\ mapped' \in [Names -> [Kinds -> SUBSET Builds]]
             /\ pending' \in [Names -> SUBSET (Kinds \cup {"cr"})]
             /\ UNCHANGED <<cr, node, crCache, childCache>>
  BY <1>3 DEF TypeOK, Cleared
<1>4. CASE Untouched
  BY <1>4 DEF Untouched, TypeOK, store, caches
<1> QED
  BY <1>2, <1>3, <1>4

LEMMA SpendType ==
    ASSUME TypeOK, NEW c \in Counters, NEW max \in Nat, Spend(c, max)
    PROVE  used' \in [Counters -> Nat]
  BY DEF TypeOK, Spend

\* A failed write.
LEMMA UpdateErrType ==
    ASSUME TypeOK, pc # "idle", NEW d \in Driver, UpdateErr(d)
    PROVE  TypeOK'
<1>1. req \in Names
  BY DEF TypeOK
<1>2. /\ Idle /\ delayed' \in SUBSET Names /\ backoff' \in [Names -> Nat]
  BY <1>1, ReturnType DEF UpdateErr
<1>3. /\ cr' \in [Names -> Driver] /\ pending' \in [Names -> SUBSET (Kinds \cup {"cr"})]
      /\ UNCHANGED <<child, mapped, node, crCache, childCache>>
  BY <1>1, WrittenType DEF UpdateErr, TypeOK, store, caches
<1>4. used' \in [Counters -> Nat]
  BY SpendType, BoundsAssumption DEF UpdateErr, Fault, TypeOK, Counters
<1> QED
  BY <1>2, <1>3, <1>4, IdleType DEF TypeOK

\* A write after which Reconcile goes on.
LEMMA UpdateOkType ==
    ASSUME TypeOK, pc # "idle", NEW d \in Driver, Exists(d), UpdateOk(d), NEW step \in PCs, Goto(step)
    PROVE  TypeOK'
<1>1. req \in Names
  BY DEF TypeOK
<1>2. /\ cr' \in [Names -> Driver] /\ pending' \in [Names -> SUBSET (Kinds \cup {"cr"})]
      /\ UNCHANGED <<child, mapped, node, crCache, childCache>>
  BY <1>1, WrittenType DEF UpdateOk
<1> QED
  BY <1>1, <1>2 DEF TypeOK, UpdateOk, Goto, control

\* A write that ends the reconciliation.
LEMMA WrittenReturnType ==
    ASSUME TypeOK, pc # "idle", NEW d \in Driver, Written(d),
           ReturnEarly \/ ReturnDone \/ ReturnRequeue, UNCHANGED used
    PROVE  TypeOK'
<1>1. req \in Names
  BY DEF TypeOK
<1>2. /\ cr' \in [Names -> Driver] /\ pending' \in [Names -> SUBSET (Kinds \cup {"cr"})]
      /\ UNCHANGED <<child, mapped, node, crCache, childCache>>
  BY <1>1, WrittenType
<1>3. /\ Idle /\ delayed' \in SUBSET Names /\ backoff' \in [Names -> Nat]
  BY <1>1, ReturnType
<1> QED
  BY <1>2, <1>3, IdleType DEF TypeOK

\* A step of CreateCluster or DeleteCluster that calls the API server for
\* objects, or returns without a call.
LEMMA ObjectStepType ==
    ASSUME TypeOK, pc # "idle", NEW step \in PCs, Goto(step), kernelVers' \in SUBSET Builds,
           \/ \E k \in Kinds, kernels \in SUBSET Builds : Built(k, kernels)
           \/ \E n \in Names, gone \in SUBSET Kinds : Cleared(n, gone)
           \/ Untouched,
           Fault \/ UNCHANGED used, UNCHANGED <<efa, fresh>>
    PROVE  TypeOK'
<1>1. req \in Names
  BY DEF TypeOK
<1>2. /\ child' \in [Names -> [Kinds -> Nat]]
      /\ mapped' \in [Names -> [Kinds -> SUBSET Builds]]
      /\ pending' \in [Names -> SUBSET (Kinds \cup {"cr"})]
      /\ UNCHANGED <<cr, node, crCache, childCache>>
  BY <1>1, ObjectsType
<1>3. used' \in [Counters -> Nat]
  BY SpendType, BoundsAssumption DEF Fault, TypeOK, Counters
<1> QED
  BY <1>1, <1>2, <1>3 DEF TypeOK, Goto, control

LEMMA CreateStepType ==
    ASSUME TypeOK, CreateStep
    PROVE  TypeOK'
<1>1. pc # "idle" /\ req \in Names
  BY StepNames DEF CreateStep, BuildingSteps, CreateSteps, TypeOK
<1>2. AfterCreate \subseteq PCs /\ "Error" \in PCs
  BY DEF AfterCreate, BuildingSteps, PCs, StatusSteps
<1>3. ASSUME NEW k \in Kinds, NEW kernels \in SUBSET Builds, NEW next \in AfterCreate,
             NEW exists \in AfterCreate, NEW failed \in AfterCreate,
             Ensure(k, kernels, next, exists, failed)
      PROVE  TypeOK'
  <2>1. kernelVers' \in SUBSET Builds
    BY <1>3 DEF Ensure, TypeOK
  <2> QED
    BY <1>1, <1>2, <1>3, <2>1, ObjectStepType DEF Ensure, ReadFails
<1>4. ASSUME NEW next \in AfterCreate, NEW found \in SUBSET Builds, LookAround(next, found)
      PROVE  TypeOK'
  BY <1>1, <1>2, <1>4 DEF LookAround, TypeOK, store, caches, control
<1>5. CASE FailedLook
  <2>1. kernelVers' \in SUBSET Builds
    BY <1>5 DEF FailedLook, TypeOK
  <2> QED
    BY <1>1, <1>2, <1>5, <2>1, ObjectStepType DEF FailedLook, ReadFails
<1> QED
  BY <1>3, <1>4, <1>5 DEF CreateStep

LEMMA DeleteStepType ==
    ASSUME TypeOK, DeleteStep
    PROVE  TypeOK'
<1>1. pc # "idle" /\ req \in Names
  BY DEF DeleteStep, DeleteSteps, TypeOK
<1>2. DeleteSteps \subseteq PCs /\ "Error" \in PCs /\ Present({}) = {}
  BY DEF PCs, StatusSteps, Present
<1>3. ASSUME NEW next \in DeleteSteps, NEW S \in SUBSET Kinds, Remove(S, next)
      PROVE  TypeOK'
  <2>1. kernelVers' \in SUBSET Builds
    BY <1>3 DEF Remove, TypeOK
  <2>2. Present(S) \in SUBSET Kinds
    BY DEF Present
  <2> QED
    BY <1>1, <1>2, <1>3, <2>1, <2>2, ObjectStepType DEF Remove
<1>4. ASSUME NEW next \in DeleteSteps, Skip(next)
      PROVE  TypeOK'
  <2>1. kernelVers' \in SUBSET Builds
    BY <1>4 DEF Skip, TypeOK
  <2> QED
    BY <1>1, <1>2, <1>4, <2>1, ObjectStepType DEF Skip
<1> QED
  BY <1>3, <1>4 DEF DeleteStep

\* Types are kept by the rest of a reconciliation.
LEMMA OutsideClusterType ==
    ASSUME TypeOK, OutsideCluster
    PROVE  TypeOK'
<1> USE DEF At
<1>1. \A s \in CreateSteps \cup DeleteSteps \cup StatusSteps \cup StartSteps \cup {"idle"} :
        s \in PCs
  BY DEF PCs
<1>2. ASSUME NEW c \in Conditions
      PROVE  SetCondition(c) \in Driver /\ (pc # "idle" => Exists(SetCondition(c)))
  BY <1>2 DEF SetCondition, TypeOK, Driver, Exists
<1>3. \A d \in Driver : Branch(d) \in PCs
  BY DEF Branch, PCs, CreateSteps, DeleteSteps, StartSteps
<1>4. NoCR \in Driver
  BY DEF NoCR, Driver, Conditions
<1>5. ASSUME NEW n \in Names, TakeNothing(n) PROVE TypeOK'
  BY <1>5 DEF TakeNothing, TypeOK, store, caches, worker
<1>6. ASSUME NEW n \in Names, Take(n) PROVE TypeOK'
  <2>1. \A before \in SUBSET Names : NextStep(n, before) \in PCs
    BY <1>3 DEF NextStep, TypeOK, PCs, StartSteps
  <2> QED
    BY <1>6, <2>1 DEF Take, Listed, TypeOK, store, caches
<1>7. CASE Ignore
  <2>1. SetCondition("Ignored") \in Driver
    BY <1>2 DEF Conditions
  <2> QED
    BY <1>7, <2>1, UpdateErrType, WrittenReturnType DEF Ignore
<1>8. CASE AddFinalizer
  <2>1. [efa EXCEPT !.fin = TRUE] \in Driver /\ Exists([efa EXCEPT !.fin = TRUE])
    BY <1>8 DEF AddFinalizer, TypeOK, Driver, Exists
  <2>2. "FirstStatus" \in PCs
    BY DEF PCs, StartSteps
  <2> QED
    BY <1>3, <1>8, <2>1, <2>2, UpdateErrType, UpdateOkType DEF AddFinalizer
<1>9. ASSUME NEW c \in Conditions, NEW next \in PCs, pc # "idle", SetStatus(c, next)
      PROVE  TypeOK'
  BY <1>2, <1>9, UpdateErrType, UpdateOkType DEF SetStatus
<1>10. CASE FirstStatus \/ ResetError \/ MarkDeleting
  BY <1>1, <1>9, <1>10
     DEF FirstStatus, ResetError, MarkDeleting, Conditions, CreateSteps, DeleteSteps
<1>11. CASE RemoveFinalizer
  BY <1>4, <1>11, UpdateErrType, WrittenReturnType DEF RemoveFinalizer
<1>12. CASE RecordOutcome
  <2>1. pc \in Conditions /\ pc # "idle"
    BY <1>12 DEF RecordOutcome, StatusSteps, Conditions
  <2>2. SetCondition(pc) \in Driver
    BY <1>2, <2>1
  <2>3. CASE Return /\ UNCHANGED <<store, caches, used>>
    <3>1. /\ Idle /\ delayed' \in SUBSET Names /\ backoff' \in [Names -> Nat]
      BY <2>1, <2>3, ReturnType DEF Return, TypeOK
    <3> QED
      BY <2>3, <3>1, IdleType DEF TypeOK, store, caches
  <2>4. CASE UpdateErr(SetCondition(pc))
    BY <2>1, <2>2, <2>4, UpdateErrType
  <2>5. CASE Written(SetCondition(pc)) /\ Return /\ UNCHANGED used
    BY <2>1, <2>2, <2>5, WrittenReturnType DEF Return
  <2> QED
    BY <1>12, <2>3, <2>4, <2>5 DEF RecordOutcome
<1> QED
  BY <1>5, <1>6, <1>7, <1>8, <1>10, <1>11, <1>12 DEF OutsideCluster

LEMMA NoCRType == NoCR \in Driver
  BY DEF NoCR, Driver, Conditions

LEMMA EnvironmentType ==
    ASSUME TypeOK, User \/ Watch \/ Collects \/ NodeStep \/ Restart
    PROVE  TypeOK'
<1>1. ASSUME NEW n \in Names, UserCreates(n) \/ UserDeletes(n) PROVE TypeOK'
  <2>1. ASSUME UserCreates(n) PROVE \E d \in Driver : Changed(n, d)
    <3>1. used.born + 1 \in Nat
      BY DEF TypeOK, Counters
    <3>2. [NoCR EXCEPT !.uid = used.born + 1] \in Driver
      BY <3>1, NoCRType DEF Driver
    <3> QED
      BY <2>1, <3>2 DEF UserCreates
  <2>2. ASSUME UserDeletes(n) PROVE \E d \in Driver : Changed(n, d)
    <3>1. [cr[n] EXCEPT !.del = TRUE] \in Driver
      BY DEF TypeOK, Driver
    <3> QED
      BY <2>2, <3>1, NoCRType DEF UserDeletes
  <2>3. PICK d \in Driver : Changed(n, d)
    BY <1>1, <2>1, <2>2
  <2>4. used' \in [Counters -> Nat]
    BY <1>1, SpendType, BoundsAssumption DEF UserCreates, UserDeletes, TypeOK, Counters
  <2> QED
    BY <2>3, <2>4 DEF Changed, Notify, TypeOK, control
<1>2. ASSUME NEW n \in Names, NEW k \in Kinds, UserDeletesChild(n, k) \/ CollectGarbage(n, k)
      PROVE  TypeOK'
  <2>1. used' \in [Counters -> Nat]
    BY <1>2, SpendType, BoundsAssumption DEF UserDeletesChild, CollectGarbage, TypeOK, Counters
  <2>2. Vanish(n, k)
    BY <1>2 DEF UserDeletesChild, CollectGarbage
  <2>3. /\ child' \in [Names -> [Kinds -> Nat]]
        /\ mapped' \in [Names -> [Kinds -> SUBSET Builds]]
        /\ pending' \in [Names -> SUBSET (Kinds \cup {"cr"})]
        /\ UNCHANGED <<cr, node, crCache, childCache>>
    BY <2>2 DEF Vanish, Cleared, TypeOK
  <2> QED
    BY <2>1, <2>2, <2>3 DEF Vanish, TypeOK, control, worker
<1>3. ASSUME NEW n \in Names, SyncDriver(n) PROVE TypeOK'
  BY <1>3 DEF SyncDriver, Deliver, TypeOK, store, worker
<1>4. ASSUME NEW n \in Names, NEW k \in Kinds, SyncChild(n, k) PROVE TypeOK'
  BY <1>4 DEF SyncChild, Deliver, TypeOK, store, worker
<1>5. ASSUME NEW n \in Names, TimerFires(n) PROVE TypeOK'
  BY <1>5 DEF TimerFires, TypeOK, store, caches, worker
<1>6. CASE NodeStep
  <2>1. PICK m \in Nodes, labels \in Labels :
            SetNode(m, labels) /\ (UNCHANGED used \/ Spend("nodeChanges", MaxNodeChanges))
    BY <1>6 DEF NodeStep
  <2>2. used' \in [Counters -> Nat]
    BY <2>1, SpendType, BoundsAssumption DEF TypeOK, Counters
  <2> QED
    BY <2>1, <2>2 DEF SetNode, TypeOK, caches, control, worker
<1>7. CASE Restart
  <2>1. used' \in [Counters -> Nat]
    BY <1>7, SpendType, BoundsAssumption DEF Restart, Counters
  <2>2. backoff' \in [Names -> Nat] /\ pending' \in [Names -> SUBSET (Kinds \cup {"cr"})]
    BY <1>7, BoundsAssumption DEF Restart
  <2>3. /\ queue' \in SUBSET Names /\ delayed' \in SUBSET Names
        /\ pc' = "idle" /\ req' = NoReq /\ efa' = NoCR /\ fresh' = FALSE /\ kernelVers' = {}
        /\ crCache' = cr /\ childCache' = child /\ UNCHANGED <<cr, child, mapped, node>>
    BY <1>7 DEF Restart, store
  <2> QED
    BY <2>1, <2>2, <2>3, NoCRType DEF TypeOK, PCs
<1> QED
  BY <1>1, <1>2, <1>3, <1>4, <1>5, <1>6, <1>7 DEF User, Watch, Collects

LEMMA InitType == StartOn(Labels) => TypeOK
<1> SUFFICES ASSUME StartOn(Labels) PROVE TypeOK
  OBVIOUS
<1>1. backoff \in [Names -> Nat] /\ used \in [Counters -> Nat]
  BY BoundsAssumption DEF StartOn
<1>2. cr \in [Names -> Driver] /\ crCache \in [Names -> Driver]
  BY NoCRType DEF StartOn
<1>3. /\ child \in [Names -> [Kinds -> Nat]] /\ childCache \in [Names -> [Kinds -> Nat]]
      /\ mapped \in [Names -> [Kinds -> SUBSET Builds]]
      /\ pending \in [Names -> SUBSET (Kinds \cup {"cr"})]
      /\ node \in [Nodes -> Labels]
  BY DEF StartOn
<1> QED
  BY <1>1, <1>2, <1>3, NoCRType DEF StartOn, TypeOK, PCs

LEMMA NextType == TypeOK /\ [ReconcilerNext]_vars => TypeOK'
<1>1. ASSUME TypeOK, UNCHANGED vars PROVE TypeOK'
  BY <1>1 DEF TypeOK, vars, store, caches, control, worker
<1> QED
  BY <1>1, OutsideClusterType, CreateStepType, DeleteStepType, EnvironmentType DEF ReconcilerNext

LEMMA TypeInvariance == ReconcilerSpec => []TypeOK
  BY InitType, NextType, PTL DEF ReconcilerSpec

-----------------------------------------------------------------------------
(***************************************************************************)
(* The inductive invariant                                                 *)
(*                                                                         *)
(* FinalizerGuards alone is not inductive: CreateCluster builds for the    *)
(* driver as the worker remembers it.  The invariant therefore says what   *)
(* an outdated copy of a driver, in the cache or in the worker's hand, may *)
(* still be trusted for.                                                   *)
(***************************************************************************)

\* What holds of every driver the API server has stored.
Sound(d) ==
    /\ d.uid = 0 => d = NoCR
    /\ d.del => d.fin
    /\ d.cond = "Deleting" => d.del

\* d is a copy of the driver stored as e.  As long as that driver exists it only
\* advances: the finalizer and the deletion timestamp stay, and the condition
\* Deleting is written only after the copy has seen the timestamp.
Older(d, e) ==
    d.uid # 0 /\ d.uid = e.uid =>
        /\ d.fin => e.fin
        /\ d.del => e.del
        /\ e.cond = "Deleting" => d.del

\* A copy with the finalizer and without the deletion timestamp is a copy of a
\* driver that still exists.
Alive(d, e) == d.uid # 0 /\ d.fin /\ ~d.del => d.uid = e.uid

\* Of two copies of one driver, the second knows of the deletion if the first does.
Knows(d, e) == d.del /\ e.uid = d.uid => e.del

Copy(d, e) == Sound(d) /\ Older(d, e) /\ Alive(d, e)

StoreInv ==
    \A n \in Names :
        /\ Sound(cr[n]) /\ Copy(crCache[n], cr[n])
        /\ "cr" \notin pending[n] => crCache[n] = cr[n]
        /\ cr[n].uid <= used.born /\ crCache[n].uid <= used.born
        /\ \A k \in Kinds : child[n][k] <= used.born

BuildSteps == BuildingSteps \cup {"FirstStatus", "ResetError"}
TearSteps  == DeleteSteps \cup {"MarkDeleting"}

\* What the worker knows of the driver it reconciles.
HandInv ==
    pc # "idle" =>
        /\ efa.uid # 0 /\ efa.uid <= used.born
        /\ Copy(efa, cr[req]) /\ Knows(efa, crCache[req])
        /\ fresh => efa = cr[req]
        /\ pc \in BuildSteps => efa.fin /\ ~efa.del
        /\ pc \in TearSteps => efa.fin /\ efa.del
        /\ pc \in LateTears => \A k \in Modules : child[req][k] = 0
        /\ pc \in LastTears => \A k \in Dockerfiles : child[req][k] = 0

IInv == TypeOK /\ StoreInv /\ HandInv /\ FinalizerGuards /\ NoModuleLeftBehind

\* The part of the invariant that does not follow from the types.
SafeInv == StoreInv /\ HandInv /\ FinalizerGuards /\ NoModuleLeftBehind

\* What Reconcile may write from its copy of the driver: the same driver with
\* more of it filled in, or, at the end of a deletion, nothing.
Advances(d) == d.uid = efa.uid /\ d.del = efa.del /\ (efa.fin => d.fin) /\ Sound(d)
Drops(d)    == d = NoCR /\ efa.del /\ \A k \in Modules \cup Dockerfiles : child[req][k] = 0

LEMMA FaultBorn ==
    ASSUME TypeOK, Fault \/ UNCHANGED used
    PROVE  used'.born = used.born
  BY DEF Fault, Spend, TypeOK, Counters

LEMMA BornType == TypeOK => used.born \in Nat
  BY DEF TypeOK, Counters

\* The copy in the worker's hand and the cached copies stand the writes of the
\* worker.
LEMMA AdvanceCopies ==
    ASSUME NEW d \in Driver, NEW e \in Driver, NEW c \in Driver, Sound(d),
           d.uid = e.uid, d.del = e.del, e.fin => d.fin,
           e.uid # 0, Knows(e, c), Copy(c, e)
    PROVE  Copy(d, d) /\ Knows(d, c) /\ Copy(c, d)
  BY DEF Copy, Sound, Older, Alive, Knows, Driver

LEMMA NoCRUid == NoCR.uid = 0
  BY DEF NoCR

LEMMA NoCRFacts == NoCR.uid = 0 /\ ~NoCR.fin /\ ~NoCR.del /\ NoCR.cond = "" /\ Sound(NoCR)
  BY DEF NoCR, Sound

LEMMA DropCopies ==
    ASSUME NEW e \in Driver, NEW c \in Driver, e.uid # 0, e.del, Knows(e, c), Copy(c, e)
    PROVE  Copy(c, NoCR)
  BY NoCRFacts DEF Copy, Sound, Older, Alive, Knows, Driver

\* A write of the worker.
LEMMA WrittenInv ==
    ASSUME IInv, pc # "idle", NEW d \in Driver, Written(d), Advances(d) \/ Drops(d),
           used'.born = used.born
    PROVE  StoreInv' /\ FinalizerGuards' /\ NoModuleLeftBehind'
<1>1. /\ req \in Names /\ cr \in [Names -> Driver] /\ efa \in Driver
      /\ crCache[req] \in Driver /\ used.born \in Nat
  BY BornType DEF IInv, TypeOK
<1>2. efa = cr[req] /\ efa.uid # 0 /\ efa.uid <= used.born /\ Knows(efa, crCache[req])
  BY DEF IInv, HandInv, Written
<1>3. /\ cr' = [cr EXCEPT ![req] = d] /\ UNCHANGED <<child, crCache>>
      /\ pending' = [pending EXCEPT ![req] = @ \cup {"cr"}]
  BY DEF Written, Notify
<1>4. cr'[req] = d /\ \A n \in Names : n # req => cr'[n] = cr[n]
  BY <1>1, <1>3
<1>5. Copy(crCache[req], cr[req])
  BY <1>1 DEF IInv, StoreInv
<1>6. Sound(d) /\ Copy(crCache[req], d)
  <2>1. CASE Advances(d)
    BY <1>1, <1>2, <1>5, <2>1, AdvanceCopies DEF Advances
  <2>2. CASE Drops(d)
    BY <1>1, <1>2, <1>5, <2>2, DropCopies, NoCRFacts DEF Drops
  <2> QED
    BY <2>1, <2>2
<1>7. \/ d.uid = cr[req].uid /\ (cr[req].fin => d.fin)
      \/ d.uid = 0 /\ \A k \in Modules \cup Dockerfiles : child[req][k] = 0
  <2>1. CASE Advances(d)
    BY <1>2, <2>1 DEF Advances
  <2>2. CASE Drops(d)
    BY <2>2, NoCRFacts DEF Drops
  <2> QED
    BY <2>1, <2>2
<1>8. "cr" \in pending'[req] /\ \A n \in Names : n # req => pending'[n] = pending[n]
  BY <1>1, <1>3 DEF IInv, TypeOK
<1>9. StoreInv'
  <2> SUFFICES ASSUME NEW n \in Names
               PROVE  /\ Sound(cr'[n]) /\ Copy(crCache'[n], cr'[n])
                      /\ "cr" \notin pending'[n] => crCache'[n] = cr'[n]
                      /\ cr'[n].uid <= used'.born /\ crCache'[n].uid <= used'.born
                      /\ \A k \in Kinds : child'[n][k] <= used'.born
    BY DEF StoreInv
  <2>1. CASE n = req
    BY <1>1, <1>2, <1>3, <1>4, <1>6, <1>7, <1>8, <2>1 DEF IInv, StoreInv
  <2>2. CASE n # req
    BY <1>3, <1>4, <1>8, <2>2 DEF IInv, StoreInv
  <2> QED
    BY <2>1, <2>2
<1>10. FinalizerGuards'
  BY <1>3, <1>4, <1>7 DEF IInv, FinalizerGuards
<1>11. NoModuleLeftBehind'
  <2> SUFFICES ASSUME NEW n \in Names, NEW k \in Modules \cup Dockerfiles
               PROVE  child[n][k] \in {0, cr'[n].uid}
    BY <1>3 DEF NoModuleLeftBehind
  <2>1. child[n][k] \in {0, cr[n].uid}
    BY DEF IInv, NoModuleLeftBehind
  <2> QED
    BY <2>1, <1>4, <1>7
<1> QED
  BY <1>9, <1>10, <1>11

LEMMA IdleInv ==
    ASSUME pc' = "idle"
    PROVE  HandInv'
  BY DEF HandInv

\* A failed write.
LEMMA UpdateErrInv ==
    ASSUME IInv, pc # "idle", NEW d \in Driver, UpdateErr(d), fresh => Advances(d) \/ Drops(d)
    PROVE  SafeInv'
<1>1. used'.born = used.born
  BY FaultBorn DEF UpdateErr, IInv
<1>2. HandInv'
  BY IdleInv DEF UpdateErr, ReturnErr, Idle
<1>3. CASE Written(d)
  BY <1>1, <1>2, <1>3, WrittenInv DEF Written, SafeInv
<1>4. CASE UNCHANGED <<store, caches>>
  <2>1. StoreInv'
    BY <1>1, <1>4 DEF IInv, StoreInv, store, caches
  <2>2. FinalizerGuards' /\ NoModuleLeftBehind'
    BY <1>4 DEF IInv, FinalizerGuards, NoModuleLeftBehind, store
  <2> QED
    BY <1>2, <2>1, <2>2 DEF SafeInv
<1> QED
  BY <1>3, <1>4 DEF UpdateErr

\* A write that ends the reconciliation.
LEMMA WrittenReturnInv ==
    ASSUME IInv, pc # "idle", NEW d \in Driver, Written(d), Idle, UNCHANGED used,
           Advances(d) \/ Drops(d)
    PROVE  SafeInv'
  BY WrittenInv, IdleInv DEF Idle, SafeInv

\* A write after which Reconcile goes on.
LEMMA UpdateOkInv ==
    ASSUME IInv, pc # "idle", NEW d \in Driver, UpdateOk(d), Advances(d),
           NEW step \in PCs \ LateTears, Goto(step),
           step \in BuildSteps => d.fin /\ ~d.del,
           step \in TearSteps => d.fin /\ d.del
    PROVE  SafeInv'
<1>1. /\ req \in Names /\ cr \in [Names -> Driver] /\ efa \in Driver /\ crCache[req] \in Driver
  BY DEF IInv, TypeOK
<1>2. /\ efa = cr[req] /\ efa.uid # 0 /\ efa.uid <= used.born
      /\ Knows(efa, crCache[req]) /\ Copy(crCache[req], efa)
  BY <1>1 DEF IInv, HandInv, StoreInv, UpdateOk, Written
<1>3. /\ cr'[req] = d /\ efa' = d /\ pc' = step /\ UNCHANGED <<req, used, crCache, fresh>>
  BY <1>1 DEF UpdateOk, Written, Goto
<1>4. StoreInv' /\ FinalizerGuards' /\ NoModuleLeftBehind'
  BY WrittenInv DEF UpdateOk
<1>5. d.uid = efa.uid /\ Copy(d, d) /\ Knows(d, crCache[req])
  BY <1>1, <1>2, AdvanceCopies DEF Advances
<1>6. HandInv'
  BY <1>2, <1>3, <1>5 DEF HandInv, LateTears, LastTears
<1> QED
  BY <1>4, <1>6 DEF SafeInv

\* Steps that leave API server and caches alone.
LEMMA KeptInv ==
    ASSUME IInv, UNCHANGED <<cr, child, crCache, pending>>, used'.born = used.born
    PROVE  StoreInv' /\ FinalizerGuards' /\ NoModuleLeftBehind'
<1>1. StoreInv'
  BY DEF IInv, StoreInv
<1>2. FinalizerGuards' /\ NoModuleLeftBehind'
  BY DEF IInv, FinalizerGuards, NoModuleLeftBehind
<1> QED
  BY <1>1, <1>2

\* Objects disappear, or are created for the stored driver under its finalizer.
LEMMA ObjectsInv ==
    ASSUME IInv, UNCHANGED <<cr, crCache>>, used'.born = used.born,
           child' \in [Names -> [Kinds -> Nat]],
           \A m \in Names : "cr" \in pending[m] => "cr" \in pending'[m],
           \A m \in Names, j \in Kinds :
               \/ child'[m][j] = child[m][j]
               \/ child'[m][j] = 0
               \/ child'[m][j] = cr[m].uid /\ cr[m].fin
    PROVE  StoreInv' /\ FinalizerGuards' /\ NoModuleLeftBehind'
<1>1. used.born \in Nat
  BY BornType DEF IInv
<1>2. StoreInv'
  <2> SUFFICES ASSUME NEW m \in Names
               PROVE  /\ Sound(cr'[m]) /\ Copy(crCache'[m], cr'[m])
                      /\ "cr" \notin pending'[m] => crCache'[m] = cr'[m]
                      /\ cr'[m].uid <= used'.born /\ crCache'[m].uid <= used'.born
                      /\ \A j \in Kinds : child'[m][j] <= used'.born
    BY DEF StoreInv
  <2>1. /\ Sound(cr'[m]) /\ Copy(crCache'[m], cr'[m])
        /\ "cr" \notin pending'[m] => crCache'[m] = cr'[m]
        /\ cr'[m].uid <= used'.born /\ crCache'[m].uid <= used'.born
    BY DEF IInv, StoreInv
  <2>2. \A j \in Kinds : child[m][j] <= used.born
    BY DEF IInv, StoreInv
  <2>3. \A j \in Kinds : child'[m][j] <= used'.born
    BY <1>1, <2>1, <2>2
  <2> QED
    BY <2>1, <2>3
<1>3. FinalizerGuards'
  BY DEF IInv, FinalizerGuards
<1>4. NoModuleLeftBehind'
  BY KindsAssumption DEF IInv, NoModuleLeftBehind
<1> QED
  BY <1>2, <1>3, <1>4

\* What a Create does to the objects.
LEMMA BuiltFacts ==
    ASSUME TypeOK, req \in Names, NEW k \in Kinds, NEW kernels \in SUBSET Builds, Built(k, kernels)
    PROVE  /\ UNCHANGED <<cr, crCache>> /\ child' \in [Names -> [Kinds -> Nat]]
           /\ \A m \in Names : "cr" \in pending'[m] <=> "cr" \in pending[m]
           /\ child[req][k] = 0 /\ child'[req][k] = efa.uid
           /\ \A m \in Names, j \in Kinds : <<m, j>> # <<req, k>> => child'[m][j] = child[m][j]
<1>1. child \in [Names -> [Kinds -> Nat]] /\ efa.uid \in Nat
      /\ pending \in [Names -> SUBSET (Kinds \cup {"cr"})]
  BY DEF TypeOK, Driver
<1>2. /\ UNCHANGED <<cr, crCache>> /\ child[req][k] = 0
      /\ child' = [child EXCEPT ![req][k] = efa.uid]
      /\ pending' = [pending EXCEPT ![req] = @ \cup {k}]
  BY DEF Built, Notify, Missing
<1>3. \A m \in Names : "cr" \in pending'[m] <=> "cr" \in pending[m]
  BY <1>1, <1>2, StepNames
<1> QED
  BY <1>1, <1>2, <1>3

\* What a deletion does to them.
LEMMA ClearedFacts ==
    ASSUME TypeOK, NEW n \in Names, NEW gone \in SUBSET Kinds, Cleared(n, gone)
    PROVE  /\ UNCHANGED <<cr, crCache>> /\ child' \in [Names -> [Kinds -> Nat]]
           /\ \A m \in Names : "cr" \in pending'[m] <=> "cr" \in pending[m]
           /\ \A k \in Kinds : child'[n][k] = IF k \in gone THEN 0 ELSE child[n][k]
           /\ \A m \in Names \ {n} : child'[m] = child[m]
<1>1. child \in [Names -> [Kinds -> Nat]] /\ pending \in [Names -> SUBSET (Kinds \cup {"cr"})]
  BY DEF TypeOK
<1>2. /\ UNCHANGED <<cr, crCache>>
      /\ child' = [child EXCEPT ![n] = [k \in Kinds |-> IF k \in gone THEN 0 ELSE child[n][k]]]
      /\ pending' = [pending EXCEPT ![n] = @ \cup gone]
  BY DEF Cleared
<1>3. \A m \in Names : "cr" \in pending'[m] <=> "cr" \in pending[m]
  BY <1>1, <1>2, StepNames
<1>4. child' \in [Names -> [Kinds -> Nat]]
  BY <1>1, <1>2
<1> QED
  BY <1>1, <1>2, <1>3, <1>4

LEMMA ClearedInv ==
    ASSUME IInv, NEW n \in Names, NEW gone \in SUBSET Kinds, Cleared(n, gone),
           used'.born = used.born
    PROVE  StoreInv' /\ FinalizerGuards' /\ NoModuleLeftBehind'
<1>1. TypeOK
  BY DEF IInv
<1>2. \A m \in Names, j \in Kinds : child'[m][j] = child[m][j] \/ child'[m][j] = 0
  <2> TAKE m \in Names, j \in Kinds
  <2> QED
    BY <1>1, ClearedFacts
<1> QED
  BY <1>1, <1>2, ClearedFacts, ObjectsInv

\* A step inside CreateCluster or DeleteCluster: the worker keeps its copy.
LEMMA HandStep ==
    ASSUME IInv, pc # "idle", UNCHANGED <<cr, crCache, req, efa, fresh>>,
           used'.born = used.born,
           pc' \in BuildSteps => pc \in BuildSteps,
           pc' \in TearSteps => pc \in TearSteps,
           pc' \in LateTears => \A k \in Modules : child'[req][k] = 0,
           pc' \in LastTears => \A k \in Dockerfiles : child'[req][k] = 0
    PROVE  HandInv'
  BY DEF IInv, HandInv

\* CreateCluster stays inside itself or ends.
LEMMA AfterCreateSteps ==
    ASSUME NEW step \in AfterCreate
    PROVE  step \notin TearSteps /\ step \notin LateTears /\ step \notin LastTears
  BY StepNames DEF AfterCreate, BuildingSteps, CreateSteps, StatusSteps, TearSteps, DeleteSteps,
                   LateTears, LastTears, StartSteps, PCs

LEMMA DeleteStepNames ==
    ASSUME NEW step \in DeleteSteps
    PROVE  step \notin BuildSteps /\ step # "idle" /\ step \in TearSteps /\ step \in PCs
  BY StepNames DEF BuildSteps, BuildingSteps, CreateSteps, TearSteps, DeleteSteps, PCs

LEMMA CreateStepInv ==
    ASSUME IInv, CreateStep
    PROVE  SafeInv'
<1>1. /\ pc \in BuildSteps /\ pc # "idle" /\ req \in Names /\ TypeOK
      /\ efa \in Driver /\ cr[req] \in Driver
  BY StepNames DEF CreateStep, BuildSteps, BuildingSteps, CreateSteps, IInv, TypeOK
<1>2. efa.uid = cr[req].uid /\ cr[req].fin
  <2>1. efa.uid # 0 /\ efa.fin /\ ~efa.del /\ Copy(efa, cr[req])
    BY <1>1 DEF IInv, HandInv
  <2> QED
    BY <1>1, <2>1 DEF Copy, Older, Alive
<1>3. ASSUME NEW k \in Kinds, NEW kernels \in SUBSET Builds, NEW next \in AfterCreate,
             NEW exists \in AfterCreate, NEW failed \in AfterCreate,
             Ensure(k, kernels, next, exists, failed)
      PROVE  SafeInv'
  <2>0. "Error" \in AfterCreate
    BY DEF AfterCreate, StatusSteps
  <2>1. UNCHANGED <<req, efa, fresh>> /\ pc' \in AfterCreate /\ used'.born = used.born
    BY <1>1, <1>3, <2>0, FaultBorn DEF Ensure, ReadFails, Goto
  <2>2. StoreInv' /\ FinalizerGuards' /\ NoModuleLeftBehind' /\ UNCHANGED <<cr, crCache>>
    <3>1. CASE Built(k, kernels)
      <4>1. \A m \in Names, j \in Kinds :
                \/ child'[m][j] = child[m][j]
                \/ child'[m][j] = cr[m].uid /\ cr[m].fin
        BY <1>1, <1>2, <3>1, BuiltFacts
      <4> QED
        BY <1>1, <2>1, <3>1, <4>1, BuiltFacts, ObjectsInv
    <3>2. CASE Untouched
      BY <2>1, <3>2, KeptInv DEF Untouched, store, caches
    <3> QED
      BY <1>3, <3>1, <3>2 DEF Ensure, ReadFails
  <2>3. HandInv'
    BY <1>1, <2>1, <2>2, AfterCreateSteps, HandStep
  <2> QED
    BY <2>2, <2>3 DEF SafeInv
<1>4. ASSUME NEW next \in AfterCreate, NEW found \in SUBSET Builds, LookAround(next, found)
      PROVE  SafeInv'
  <2>1. UNCHANGED <<cr, child, crCache, pending, req, efa, fresh, used>> /\ pc' = next
    BY <1>4 DEF LookAround, store, caches
  <2>2. StoreInv' /\ FinalizerGuards' /\ NoModuleLeftBehind'
    BY <2>1, KeptInv
  <2>3. HandInv'
    BY <1>1, <2>1, AfterCreateSteps, HandStep
  <2> QED
    BY <2>2, <2>3 DEF SafeInv
<1>5. CASE FailedLook
  <2>1. /\ UNCHANGED <<cr, child, crCache, pending, req, efa, fresh>> /\ pc' = "Error"
        /\ used'.born = used.born
    BY <1>1, <1>5, FaultBorn DEF FailedLook, ReadFails, Goto, Untouched, store, caches
  <2>2. StoreInv' /\ FinalizerGuards' /\ NoModuleLeftBehind'
    BY <2>1, KeptInv
  <2>3. "Error" \in AfterCreate
    BY DEF AfterCreate, StatusSteps
  <2>4. HandInv'
    BY <1>1, <2>1, <2>3, AfterCreateSteps, HandStep
  <2> QED
    BY <2>2, <2>4 DEF SafeInv
<1> QED
  BY <1>3, <1>4, <1>5 DEF CreateStep

LEMMA DeleteStepInv ==
    ASSUME IInv, DeleteStep
    PROVE  SafeInv'
<1>1. pc \in TearSteps /\ pc # "idle" /\ req \in Names /\ TypeOK
  BY DeleteStepNames DEF DeleteStep, IInv, TypeOK
<1>2. /\ pc \in LateTears => \A k \in Modules : child[req][k] = 0
      /\ pc \in LastTears => \A k \in Dockerfiles : child[req][k] = 0
  BY <1>1 DEF IInv, HandInv
<1>3. Modules \subseteq Kinds /\ Dockerfiles \subseteq Kinds
  BY KindsAssumption
<1>4. "Error" \notin BuildSteps /\ "Error" \notin TearSteps
      /\ "Error" \notin LateTears /\ "Error" \notin LastTears
  BY StepNames DEF BuildSteps, BuildingSteps, CreateSteps, TearSteps, DeleteSteps, LateTears, LastTears,
                   StatusSteps
<1>5. ASSUME NEW next \in DeleteSteps, NEW S \in SUBSET Kinds, InOrder(S, next), Remove(S, next)
      PROVE  SafeInv'
  <2>1. UNCHANGED <<req, efa, fresh>> /\ used'.born = used.born
    BY <1>1, <1>5, FaultBorn DEF Remove, Goto
  <2>2. PICK gone \in SUBSET Present(S) :
            Cleared(req, gone) /\ (pc' = "Error" \/ (pc' = next /\ gone = Present(S)))
    BY <1>5 DEF Remove, Goto
  <2>3. gone \in SUBSET Kinds
    BY DEF Present
  <2>4. StoreInv' /\ FinalizerGuards' /\ NoModuleLeftBehind'
    BY <1>1, <2>1, <2>2, <2>3, ClearedInv
  <2>5. UNCHANGED <<cr, crCache>>
        /\ \A k \in Kinds : child'[req][k] = IF k \in gone THEN 0 ELSE child[req][k]
    BY <1>1, <2>2, <2>3, ClearedFacts
  <2>6. pc' = next => \A k \in S : child'[req][k] = 0
    BY <2>2, <2>5, <1>4, DeleteStepNames DEF Present, Missing
  <2>7. /\ pc' \in LateTears => \A k \in Modules : child'[req][k] = 0
        /\ pc' \in LastTears => \A k \in Dockerfiles : child'[req][k] = 0
    BY <1>2, <1>3, <1>4, <1>5, <2>2, <2>5, <2>6 DEF InOrder
  <2>8. pc' \notin BuildSteps
    BY <1>4, <2>2, DeleteStepNames
  <2>9. HandInv'
    BY <1>1, <2>1, <2>5, <2>7, <2>8, HandStep
  <2> QED
    BY <2>4, <2>9 DEF SafeInv
<1>6. ASSUME NEW next \in DeleteSteps, InOrder({}, next), Skip(next)
      PROVE  SafeInv'
  <2>1. UNCHANGED <<cr, child, crCache, pending, req, efa, fresh, used>> /\ pc' = next
    BY <1>6 DEF Skip, Goto, Untouched, store, caches
  <2>2. StoreInv' /\ FinalizerGuards' /\ NoModuleLeftBehind'
    BY <2>1, KeptInv
  <2>3. /\ next \in LateTears => \A k \in Modules : child[req][k] = 0
        /\ next \in LastTears => \A k \in Dockerfiles : child[req][k] = 0
    BY <1>2, <1>6 DEF InOrder
  <2>4. HandInv'
    BY <1>1, <2>1, <2>3, DeleteStepNames, HandStep
  <2> QED
    BY <2>2, <2>4 DEF SafeInv
<1> QED
  BY <1>5, <1>6 DEF DeleteStep

\* A write of a condition advances the driver.
LEMMA SetConditionAdvances ==
    ASSUME IInv, pc # "idle", NEW c \in Conditions, c = "Deleting" => efa.del
    PROVE  SetCondition(c) \in Driver /\ Advances(SetCondition(c))
<1>1. efa \in Driver /\ efa.uid # 0 /\ Sound(efa)
  BY DEF IInv, TypeOK, HandInv, Copy
<1>2. /\ SetCondition(c) \in Driver /\ SetCondition(c).uid = efa.uid
      /\ SetCondition(c).del = efa.del /\ SetCondition(c).fin = efa.fin
      /\ SetCondition(c).cond = c
  BY <1>1 DEF SetCondition, Driver
<1>3. Sound(SetCondition(c))
  BY <1>1, <1>2 DEF Sound
<1> QED
  BY <1>2, <1>3 DEF Advances

LEMMA SetStatusInv ==
    ASSUME IInv, pc # "idle", NEW c \in Conditions, c = "Deleting" => efa.del,
           NEW next \in PCs \ LateTears, SetStatus(c, next),
           next \in BuildSteps => efa.fin /\ ~efa.del,
           next \in TearSteps => efa.fin /\ efa.del
    PROVE  SafeInv'
<1>1. SetCondition(c) \in Driver /\ Advances(SetCondition(c))
  BY SetConditionAdvances
<1>2. SetCondition(c).del = efa.del /\ SetCondition(c).fin = efa.fin
  BY DEF SetCondition, IInv, TypeOK, Driver
<1>3. CASE UpdateErr(SetCondition(c))
  BY <1>1, <1>3, UpdateErrInv
<1>4. CASE UpdateOk(SetCondition(c)) /\ Goto(next)
  BY <1>1, <1>2, <1>4, UpdateOkInv
<1> QED
  BY <1>3, <1>4 DEF SetStatus

\* A write that ends the reconciliation, or fails.
LEMMA LastWriteInv ==
    ASSUME IInv, pc # "idle", NEW c \in Conditions, c # "Deleting",
           \/ UpdateErr(SetCondition(c))
           \/ Written(SetCondition(c)) /\ Idle /\ UNCHANGED used
    PROVE  SafeInv'
  BY SetConditionAdvances, UpdateErrInv, WrittenReturnInv

LEMMA ReturnIdle ==
    ASSUME ReturnEarly \/ ReturnDone \/ ReturnRequeue \/ Return
    PROVE  Idle
  BY DEF ReturnEarly, ReturnDone, ReturnRequeue, Return

LEMMA TakeNothingInv ==
    ASSUME IInv, NEW n \in Names, TakeNothing(n)
    PROVE  SafeInv'
<1>1. UNCHANGED <<cr, child, crCache, pending, used>> /\ UNCHANGED pc /\ pc = "idle"
  BY DEF TakeNothing, store, caches, worker, At
<1> QED
  BY <1>1, KeptInv, IdleInv DEF SafeInv

LEMMA TakeInv ==
    ASSUME IInv, NEW n \in Names, Take(n)
    PROVE  SafeInv'
<1>1. UNCHANGED <<cr, child, crCache, pending, used>> /\ req' = n /\ efa' = crCache[n]
      /\ (fresh' => "cr" \notin pending[n])
  BY DEF Take, store, caches
<1>2. crCache[n] \in Driver /\ crCache[n].uid # 0
  BY DEF IInv, TypeOK, Take, Listed, Exists
<1>3. Copy(crCache[n], cr[n]) /\ ("cr" \notin pending[n] => crCache[n] = cr[n])
      /\ crCache[n].uid <= used.born
  BY DEF IInv, StoreInv
<1>4. PICK before \in SUBSET (Listed \ {n}) : pc' = NextStep(n, before)
  BY DEF Take
<1>5. /\ pc' \in BuildSteps => crCache[n].fin /\ ~crCache[n].del
      /\ pc' \in TearSteps => crCache[n].fin /\ crCache[n].del
      /\ pc' \notin LateTears
  <2>1. pc' \in {"Ignored", "AddFinalizer", "MarkDeleting", "DeleteDevicePlugin", "ResetError",
                  "CreateCluster"}
    BY <1>4 DEF NextStep, Branch
  <2>2. pc' \in {"Ignored", "AddFinalizer"} \/ (crCache[n].fin /\ pc' = Branch(crCache[n]))
    BY <1>4 DEF NextStep
  <2> QED
    BY <2>1, <2>2, StepNames
       DEF Branch, BuildSteps, BuildingSteps, CreateSteps, TearSteps, DeleteSteps, LateTears,
           StartSteps, PCs
<1>6. Knows(crCache[n], crCache[n])
  BY DEF Knows
<1>7. HandInv'
  BY <1>1, <1>2, <1>3, <1>5, <1>6 DEF HandInv, LateTears, LastTears
<1> QED
  BY <1>1, <1>7, KeptInv DEF SafeInv

LEMMA AddFinalizerInv ==
    ASSUME IInv, AddFinalizer
    PROVE  SafeInv'
<1> DEFINE d    == [efa EXCEPT !.fin = TRUE]
           step == IF ~d.del /\ d.cond = "" THEN "FirstStatus" ELSE Branch(d)
<1>1. pc # "idle" /\ efa \in Driver /\ efa.uid # 0 /\ Sound(efa)
  BY DEF IInv, TypeOK, HandInv, Copy, AddFinalizer, At
<1>2. d \in Driver /\ d.uid = efa.uid /\ d.del = efa.del /\ d.cond = efa.cond /\ d.fin
  BY <1>1 DEF Driver
<1>3. Advances(d)
  BY <1>1, <1>2 DEF Advances, Sound
<1>4. /\ step \in PCs \ LateTears
      /\ step \in BuildSteps => d.fin /\ ~d.del
      /\ step \in TearSteps => d.fin /\ d.del
  <2>1. step \in {"FirstStatus", "MarkDeleting", "DeleteDevicePlugin", "ResetError", "CreateCluster"}
    BY DEF Branch
  <2>2. step \in {"MarkDeleting", "DeleteDevicePlugin"} <=> d.del
    BY <1>2 DEF Branch
  <2> HIDE DEF step
  <2> QED
    BY <1>2, <2>1, <2>2, StepNames
       DEF BuildSteps, BuildingSteps, CreateSteps, TearSteps, DeleteSteps, LateTears, StartSteps, PCs
<1>5. UpdateErr(d) \/ (UpdateOk(d) /\ Goto(step))
  BY DEF AddFinalizer
<1> HIDE DEF d, step
<1> QED
  BY <1>1, <1>2, <1>3, <1>4, <1>5, UpdateErrInv, UpdateOkInv

LEMMA RemoveFinalizerInv ==
    ASSUME IInv, RemoveFinalizer
    PROVE  SafeInv'
<1>1. pc = "RemoveFinalizer" /\ pc # "idle"
  BY DEF RemoveFinalizer, At
<1>2. Drops(NoCR)
  BY <1>1 DEF IInv, HandInv, Drops, TearSteps, DeleteSteps, LateTears, LastTears
<1> QED
  BY <1>1, <1>2, NoCRType, UpdateErrInv, WrittenReturnInv, ReturnIdle DEF RemoveFinalizer

LEMMA RecordOutcomeInv ==
    ASSUME IInv, RecordOutcome
    PROVE  SafeInv'
<1>1. pc # "idle" /\ pc \in Conditions /\ pc # "Deleting"
  BY DEF RecordOutcome, StatusSteps, Conditions
<1>2. CASE Return /\ UNCHANGED <<store, caches, used>>
  BY <1>2, ReturnIdle, KeptInv, IdleInv DEF SafeInv, store, caches, Idle
<1>3. CASE UpdateErr(SetCondition(pc))
  BY <1>1, <1>3, LastWriteInv
<1>4. CASE Written(SetCondition(pc)) /\ Return /\ UNCHANGED used
  BY <1>1, <1>4, ReturnIdle, LastWriteInv
<1> QED
  BY <1>2, <1>3, <1>4 DEF RecordOutcome

LEMMA OutsideClusterInv ==
    ASSUME IInv, OutsideCluster
    PROVE  SafeInv'
<1> USE DEF At
<1>1. CASE \E n \in Names : TakeNothing(n) \/ Take(n)
  BY <1>1, TakeNothingInv, TakeInv
<1>2. CASE Ignore
  BY <1>2, ReturnIdle, LastWriteInv DEF Ignore, Conditions
<1>3. CASE AddFinalizer
  BY <1>3, AddFinalizerInv
<1>4. CASE FirstStatus \/ ResetError
  <2>1. efa.fin /\ ~efa.del /\ pc # "idle"
    BY <1>4 DEF IInv, HandInv, FirstStatus, ResetError, BuildSteps
  <2> QED
    BY <1>4, <2>1, SetStatusInv
       DEF FirstStatus, ResetError, Conditions, PCs, LateTears, CreateSteps, TearSteps, DeleteSteps
<1>5. CASE MarkDeleting
  <2>1. efa.fin /\ efa.del /\ pc # "idle"
    BY <1>5 DEF IInv, HandInv, MarkDeleting, TearSteps
  <2>2. /\ "DeleteDevicePlugin" \in PCs \ LateTears
        /\ "DeleteDevicePlugin" \notin BuildSteps
    BY DeleteStepNames DEF DeleteSteps, LateTears
  <2> QED
    BY <1>5, <2>1, <2>2, SetStatusInv DEF MarkDeleting, Conditions
<1>6. CASE RemoveFinalizer
  BY <1>6, RemoveFinalizerInv
<1>7. CASE RecordOutcome
  BY <1>7, RecordOutcomeInv
<1> QED
  BY <1>1, <1>2, <1>3, <1>4, <1>5, <1>6, <1>7 DEF OutsideCluster

\* A user creates or deletes a driver: the copies of the old one stay good.
LEMMA ChangedInv ==
    ASSUME IInv, NEW n \in Names, NEW d \in Driver, Changed(n, d),
           used'.born \in Nat, used.born <= used'.born, d.uid <= used'.born, Sound(d),
           \A c \in Driver : c.uid <= used.born /\ Copy(c, cr[n]) => Copy(c, d),
           \A k \in Kinds : child[n][k] # 0 /\ child[n][k] = d.uid => d.fin,
           \A k \in Modules \cup Dockerfiles : child[n][k] \in {0, d.uid}
    PROVE  SafeInv'
<1>1. /\ cr \in [Names -> Driver] /\ crCache \in [Names -> Driver] /\ efa \in Driver
      /\ child \in [Names -> [Kinds -> Nat]] /\ used.born \in Nat
      /\ pending \in [Names -> SUBSET (Kinds \cup {"cr"})]
      /\ pc # "idle" => req \in Names
  BY BornType DEF IInv, TypeOK
<1>2. /\ cr' = [cr EXCEPT ![n] = d] /\ UNCHANGED <<child, crCache, pc, req, efa>>
      /\ pending' = [pending EXCEPT ![n] = @ \cup {"cr"}]
      /\ fresh' = IF n = req THEN FALSE ELSE fresh
  BY DEF Changed, Notify
<1>3. cr'[n] = d /\ \A m \in Names : m # n => cr'[m] = cr[m]
  BY <1>1, <1>2
<1>4. "cr" \in pending'[n] /\ \A m \in Names : m # n => pending'[m] = pending[m]
  BY <1>1, <1>2
<1>5. StoreInv'
  <2> SUFFICES ASSUME NEW m \in Names
               PROVE  /\ Sound(cr'[m]) /\ Copy(crCache'[m], cr'[m])
                      /\ "cr" \notin pending'[m] => crCache'[m] = cr'[m]
                      /\ cr'[m].uid <= used'.born /\ crCache'[m].uid <= used'.born
                      /\ \A k \in Kinds : child'[m][k] <= used'.born
    BY DEF StoreInv
  <2>1. /\ Sound(cr[m]) /\ Copy(crCache[m], cr[m])
        /\ "cr" \notin pending[m] => crCache[m] = cr[m]
        /\ cr[m].uid <= used.born /\ crCache[m].uid <= used.born
        /\ \A k \in Kinds : child[m][k] <= used.born
    BY DEF IInv, StoreInv
  <2>2. /\ cr[m].uid \in Nat /\ crCache[m].uid \in Nat /\ crCache[m] \in Driver
        /\ \A k \in Kinds : child[m][k] \in Nat
    BY <1>1 DEF Driver
  <2>3. /\ cr'[m].uid <= used'.born /\ crCache'[m].uid <= used'.born
        /\ \A k \in Kinds : child'[m][k] <= used'.born
    BY <1>1, <1>2, <1>3, <2>1, <2>2
  <2>4. /\ Sound(cr'[m]) /\ Copy(crCache'[m], cr'[m])
        /\ "cr" \notin pending'[m] => crCache'[m] = cr'[m]
    BY <1>2, <1>3, <1>4, <2>1, <2>2
  <2> QED
    BY <2>3, <2>4
<1>6. HandInv'
  <2> SUFFICES ASSUME pc # "idle" PROVE HandInv'
    BY <1>2, IdleInv
  <2>1. /\ efa.uid # 0 /\ efa.uid <= used.born /\ efa.uid \in Nat
        /\ Copy(efa, cr[req]) /\ Knows(efa, crCache[req])
        /\ fresh => efa = cr[req]
    BY <1>1 DEF IInv, HandInv, Driver
  <2>2. Copy(efa, cr'[req]) /\ (fresh' => efa = cr'[req])
    BY <1>1, <1>2, <1>3, <2>1
  <2>3. efa.uid <= used'.born
    BY <1>1, <2>1
  <2> QED
    BY <1>2, <2>1, <2>2, <2>3 DEF IInv, HandInv
<1>7. FinalizerGuards'
  BY <1>2, <1>3 DEF IInv, FinalizerGuards
<1>8. NoModuleLeftBehind'
  BY <1>2, <1>3 DEF IInv, NoModuleLeftBehind
<1> QED
  BY <1>5, <1>6, <1>7, <1>8 DEF SafeInv

LEMMA UserCreatesInv ==
    ASSUME IInv, NEW n \in Names, UserCreates(n)
    PROVE  SafeInv'
<1> DEFINE d == [NoCR EXCEPT !.uid = used.born + 1]
<1>1. /\ cr[n] \in Driver /\ used.born \in Nat /\ cr[n].uid = 0
      /\ child \in [Names -> [Kinds -> Nat]]
  BY BornType DEF IInv, TypeOK, UserCreates, Exists
<1>2. used'.born = used.born + 1
  BY DEF UserCreates, Spend, IInv, TypeOK, Counters
<1>3. d \in Driver /\ d.uid = used.born + 1
  BY <1>1, NoCRType DEF Driver
<1>4. ~d.fin /\ ~d.del /\ d.cond = ""
  BY NoCRType, NoCRFacts DEF Driver
<1>5. Changed(n, d)
  BY DEF UserCreates
<1> HIDE DEF d
<1>6. d.uid # 0 /\ \A i \in Nat : i <= used.born => i # d.uid
  BY <1>1, <1>3
<1>7. Sound(d)
  BY <1>4, <1>6 DEF Sound
<1>8. ASSUME NEW c \in Driver, c.uid <= used.born, Copy(c, cr[n])
      PROVE  Copy(c, d)
  <2>1. c.uid \in Nat
    BY DEF Driver
  <2>2. c.uid # d.uid
    BY <1>6, <1>8, <2>1
  <2> QED
    BY <1>1, <1>8, <2>2 DEF Copy, Older, Alive
<1>9. \A k \in Kinds : child[n][k] <= used.born /\ child[n][k] \in Nat
  BY <1>1 DEF IInv, StoreInv
<1>10. \A k \in Kinds : child[n][k] # d.uid
  BY <1>6, <1>9
<1>11. \A k \in Modules \cup Dockerfiles : child[n][k] = 0
  BY <1>1 DEF IInv, NoModuleLeftBehind
<1>12. used'.born \in Nat /\ used.born <= used'.born /\ d.uid <= used'.born
  BY <1>1, <1>2, <1>3
<1> QED
  BY <1>3, <1>5, <1>7, <1>8, <1>10, <1>11, <1>12, ChangedInv

LEMMA UserDeletesInv ==
    ASSUME IInv, NEW n \in Names, UserDeletes(n)
    PROVE  SafeInv'
<1> DEFINE d == IF cr[n].fin THEN [cr[n] EXCEPT !.del = TRUE] ELSE NoCR
<1>1. /\ cr[n] \in Driver /\ used.born \in Nat /\ cr[n].uid # 0 /\ ~cr[n].del
      /\ Sound(cr[n]) /\ cr[n].uid <= used.born /\ UNCHANGED used
  BY BornType DEF IInv, TypeOK, UserDeletes, Exists, StoreInv
<1>2. Changed(n, d)
  BY DEF UserDeletes
<1>3. /\ \A k \in Kinds : child[n][k] # 0 /\ child[n][k] = cr[n].uid => cr[n].fin
      /\ \A k \in Modules \cup Dockerfiles : child[n][k] \in {0, cr[n].uid}
  BY DEF IInv, FinalizerGuards, NoModuleLeftBehind
<1>4. CASE cr[n].fin
  <2>1. /\ d \in Driver /\ d.uid = cr[n].uid /\ d.fin /\ d.del /\ d.cond = cr[n].cond
    BY <1>1, <1>4 DEF Driver
  <2> HIDE DEF d
  <2>2. Sound(d)
    BY <1>1, <2>1 DEF Sound
  <2>3. \A c \in Driver : Copy(c, cr[n]) => Copy(c, d)
    BY <1>1, <2>1 DEF Copy, Older, Alive
  <2> QED
    BY <1>1, <1>2, <1>3, <2>1, <2>2, <2>3, ChangedInv
<1>5. CASE ~cr[n].fin
  <2>1. d = NoCR
    BY <1>5
  <2> HIDE DEF d
  <2>2. \A c \in Driver : Copy(c, cr[n]) => Copy(c, NoCR)
    BY <1>1, <1>5, NoCRFacts DEF Copy, Older, Alive
  <2>3. \A k \in Modules \cup Dockerfiles : child[n][k] = 0
    BY <1>3, <1>5, KindsAssumption
  <2>4. used.born \in Nat /\ used.born <= used.born /\ NoCR.uid <= used.born /\ used' = used
    BY <1>1, NoCRUid
  <2>5. \A k \in Kinds : ~(child[n][k] # 0 /\ child[n][k] = NoCR.uid)
    BY NoCRUid
  <2>6. \A k \in Modules \cup Dockerfiles : child[n][k] \in {0, NoCR.uid}
    BY <2>3
  <2>7. Changed(n, NoCR) /\ Sound(NoCR)
    BY <1>2, <2>1, NoCRFacts
  <2> QED
    BY <2>2, <2>4, <2>5, <2>6, <2>7, NoCRType, ChangedInv
<1> QED
  BY <1>4, <1>5

LEMMA VanishInv ==
    ASSUME IInv, NEW n \in Names, NEW k \in Kinds, Vanish(n, k), used'.born = used.born
    PROVE  SafeInv'
<1>1. TypeOK /\ Cleared(n, {k}) /\ {k} \in SUBSET Kinds
  BY DEF IInv, Vanish
<1>2. StoreInv' /\ FinalizerGuards' /\ NoModuleLeftBehind'
  BY <1>1, ClearedInv
<1>3. UNCHANGED <<cr, crCache, pc, req, efa, fresh>>
  BY <1>1, ClearedFacts DEF Vanish, worker
<1>4. CASE pc = "idle"
  BY <1>2, <1>3, <1>4, IdleInv DEF SafeInv
<1>5. CASE pc # "idle"
  <2>1. req \in Names
    BY <1>5 DEF IInv, TypeOK
  <2>2. \A j \in Kinds : child[req][j] = 0 => child'[req][j] = 0
    BY <1>1, <2>1, ClearedFacts
  <2>3. HandInv'
    BY <1>3, <1>5, <2>2, HandStep, KindsAssumption DEF IInv, HandInv
  <2> QED
    BY <1>2, <2>3 DEF SafeInv
<1> QED
  BY <1>4, <1>5

LEMMA SyncDriverInv ==
    ASSUME IInv, NEW n \in Names, SyncDriver(n)
    PROVE  SafeInv'
<1>1. /\ crCache \in [Names -> Driver] /\ cr[n] \in Driver
      /\ pending \in [Names -> SUBSET (Kinds \cup {"cr"})]
  BY DEF IInv, TypeOK
<1>2. /\ UNCHANGED <<cr, child, pc, req, efa, fresh, used>>
      /\ crCache' = [crCache EXCEPT ![n] = cr[n]]
      /\ pending' = [pending EXCEPT ![n] = @ \ {"cr"}]
  BY DEF SyncDriver, Deliver, store, worker
<1>3. crCache'[n] = cr[n] /\ \A m \in Names : m # n => crCache'[m] = crCache[m]
  BY <1>1, <1>2
<1>4. \A m \in Names : m # n => pending'[m] = pending[m]
  BY <1>1, <1>2
<1>5. Sound(cr[n]) => Copy(cr[n], cr[n])
  BY DEF Sound, Copy, Older, Alive
<1>6. StoreInv'
  BY <1>2, <1>3, <1>4, <1>5 DEF IInv, StoreInv
<1>7. Copy(efa, cr[n]) /\ efa.uid # 0 => Knows(efa, cr[n])
  BY DEF Copy, Older, Knows
<1>8. HandInv'
  BY <1>2, <1>3, <1>7 DEF IInv, TypeOK, HandInv
<1>9. FinalizerGuards' /\ NoModuleLeftBehind'
  BY <1>2 DEF IInv, FinalizerGuards, NoModuleLeftBehind
<1> QED
  BY <1>6, <1>8, <1>9 DEF SafeInv

\* Steps that leave drivers, objects, the cached drivers and the worker alone.
LEMMA QuietInv ==
    ASSUME IInv, UNCHANGED <<cr, child, crCache, worker>>, used'.born = used.born,
           \A n \in Names : "cr" \notin pending'[n] => "cr" \notin pending[n]
    PROVE  SafeInv'
<1>1. StoreInv'
  BY DEF IInv, StoreInv
<1>2. HandInv'
  BY DEF IInv, HandInv, worker
<1>3. FinalizerGuards' /\ NoModuleLeftBehind'
  BY DEF IInv, FinalizerGuards, NoModuleLeftBehind
<1> QED
  BY <1>1, <1>2, <1>3 DEF SafeInv

LEMMA RestartInv ==
    ASSUME IInv, Restart
    PROVE  SafeInv'
<1>1. /\ UNCHANGED <<cr, child>> /\ crCache' = cr /\ pc' = "idle"
      /\ used'.born = used.born
  BY DEF Restart, store, Spend, IInv, TypeOK, Counters
<1>2. \A n \in Names : Sound(cr[n]) => Copy(cr[n], cr[n])
  BY DEF Sound, Copy, Older, Alive
<1>3. StoreInv'
  BY <1>1, <1>2 DEF IInv, StoreInv
<1>4. FinalizerGuards' /\ NoModuleLeftBehind'
  BY <1>1 DEF IInv, FinalizerGuards, NoModuleLeftBehind
<1> QED
  BY <1>1, <1>3, <1>4, IdleInv DEF SafeInv

LEMMA SpendBorn ==
    ASSUME TypeOK, NEW c \in Counters \ {"born"}, NEW max, Spend(c, max)
    PROVE  used'.born = used.born
  BY DEF TypeOK, Spend, Counters

LEMMA EnvironmentInv ==
    ASSUME IInv, User \/ Watch \/ Collects \/ NodeStep \/ Restart
    PROVE  SafeInv'
<1> USE DEF Counters
<1>0. TypeOK
  BY DEF IInv
<1>1. ASSUME NEW n \in Names, UserCreates(n) \/ UserDeletes(n) PROVE SafeInv'
  BY <1>1, UserCreatesInv, UserDeletesInv
<1>2. ASSUME NEW n \in Names, NEW k \in Kinds, UserDeletesChild(n, k) \/ CollectGarbage(n, k)
      PROVE  SafeInv'
  <2>1. Vanish(n, k) /\ used'.born = used.born
    BY <1>0, <1>2, SpendBorn DEF UserDeletesChild, CollectGarbage
  <2> QED
    BY <2>1, VanishInv
<1>3. ASSUME NEW n \in Names, SyncDriver(n) PROVE SafeInv'
  BY <1>3, SyncDriverInv
<1>4. ASSUME NEW n \in Names, NEW k \in Kinds, SyncChild(n, k) PROVE SafeInv'
  <2>1. /\ UNCHANGED <<cr, child, crCache, worker, used>>
        /\ pending' = [pending EXCEPT ![n] = @ \ {k}]
    BY <1>4 DEF SyncChild, Deliver, store
  <2>2. \A m \in Names : "cr" \notin pending'[m] => "cr" \notin pending[m]
    BY <1>0, <2>1, StepNames DEF TypeOK
  <2> QED
    BY <2>1, <2>2, QuietInv
<1>5. ASSUME NEW n \in Names, TimerFires(n) PROVE SafeInv'
  BY <1>5, QuietInv DEF TimerFires, store, caches
<1>6. CASE NodeStep
  <2>1. PICK m \in Nodes, labels \in Labels :
            SetNode(m, labels) /\ (UNCHANGED used \/ Spend("nodeChanges", MaxNodeChanges))
    BY <1>6 DEF NodeStep
  <2>2. used'.born = used.born
    BY <1>0, <2>1, SpendBorn
  <2> QED
    BY <2>1, <2>2, QuietInv DEF SetNode, caches
<1> QED
  BY <1>1, <1>2, <1>3, <1>4, <1>5, <1>6, RestartInv DEF User, Watch, Collects

LEMMA InitInv == StartOn(Labels) => IInv
<1> SUFFICES ASSUME StartOn(Labels) PROVE IInv
  OBVIOUS
<1>1. \A n \in Names : cr[n] = NoCR /\ crCache[n] = NoCR /\ \A k \in Kinds : child[n][k] = 0
  BY DEF StartOn
<1>2. used.born = 0 /\ pc = "idle"
  BY DEF StartOn, Counters
<1>3. Copy(NoCR, NoCR)
  BY NoCRFacts DEF Copy, Older, Alive
<1>4. Sound(NoCR) /\ NoCR.uid <= used.born /\ 0 <= used.born
  <2>1. 0 <= used.born
    BY <1>2
  <2> QED
    BY <2>1, NoCRFacts
<1>5. StoreInv
  BY <1>1, <1>3, <1>4 DEF StoreInv
<1>6. FinalizerGuards /\ NoModuleLeftBehind
  BY <1>1, KindsAssumption DEF FinalizerGuards, NoModuleLeftBehind
<1> QED
  BY <1>2, <1>5, <1>6, InitType DEF IInv, HandInv

LEMMA NextInv == IInv /\ [ReconcilerNext]_vars => IInv'
<1> SUFFICES ASSUME IInv, [ReconcilerNext]_vars PROVE IInv'
  OBVIOUS
<1>1. TypeOK'
  BY NextType DEF IInv
<1>2. CASE UNCHANGED vars
  BY <1>1, <1>2, QuietInv DEF vars, store, caches, IInv, SafeInv
<1>3. CASE ReconcilerNext
  BY <1>1, <1>3, OutsideClusterInv, CreateStepInv, DeleteStepInv, EnvironmentInv
     DEF ReconcilerNext, IInv, SafeInv
<1> QED
  BY <1>2, <1>3

LEMMA Invariance == ReconcilerSpec => []IInv
  BY InitInv, NextInv, PTL DEF ReconcilerSpec

\* A driver is never without its finalizer while objects it owns are deployed.
THEOREM ReconcilerGuards == ReconcilerSpec => []FinalizerGuards
<1>1. IInv => FinalizerGuards
  BY DEF IInv
<1> QED
  BY <1>1, Invariance, PTL

\* The Modules and the dockerfile ConfigMaps of a driver are gone before it is.
THEOREM ReconcilerLeavesNoModule == ReconcilerSpec => []NoModuleLeftBehind
<1>1. IInv => NoModuleLeftBehind
  BY DEF IInv
<1> QED
  BY <1>1, Invariance, PTL

-----------------------------------------------------------------------------
(***************************************************************************)
(* What is built, and for whom                                             *)
(***************************************************************************)

\* What a step may do to the deployed objects: nothing, delete, or create one
\* in CreateCluster.
Creates == pc \in BuildingSteps /\ \E k \in Kinds, kernels \in SUBSET Builds : Built(k, kernels)
Deletes == \E n \in Names, gone \in SUBSET Kinds : Cleared(n, gone)

LEMMA WriteMoves ==
    ASSUME NEW d, UpdateErr(d) \/ UpdateOk(d) \/ Written(d)
    PROVE  UNCHANGED child
  BY DEF UpdateErr, UpdateOk, Written, store

LEMMA OutsideClusterMoves ==
    ASSUME OutsideCluster
    PROVE  UNCHANGED child
<1>1. CASE \E n \in Names : TakeNothing(n) \/ Take(n)
  BY <1>1 DEF TakeNothing, Take, store
<1>2. CASE Ignore \/ AddFinalizer \/ FirstStatus \/ MarkDeleting \/ ResetError \/ RemoveFinalizer
  BY <1>2, WriteMoves
     DEF Ignore, AddFinalizer, FirstStatus, MarkDeleting, ResetError, RemoveFinalizer, SetStatus
<1>3. CASE RecordOutcome
  BY <1>3, WriteMoves DEF RecordOutcome, store
<1> QED
  BY <1>1, <1>2, <1>3 DEF OutsideCluster

LEMMA ClusterMoves ==
    ASSUME TypeOK, CreateStep \/ DeleteStep
    PROVE  UNCHANGED child \/ Creates \/ Deletes
<1>1. CASE CreateStep
  BY <1>1 DEF CreateStep, Ensure, LookAround, FailedLook, ReadFails, Creates, Untouched, store
<1>2. CASE DeleteStep
  <2>1. req \in Names
    BY <1>2, DeleteStepNames DEF DeleteStep, TypeOK
  <2>2. \A S \in SUBSET Kinds : Present(S) \in SUBSET Kinds
    BY DEF Present
  <2> QED
    BY <1>2, <2>1, <2>2 DEF DeleteStep, Remove, Skip, Untouched, store, Deletes
<1> QED
  BY <1>1, <1>2

LEMMA EnvironmentMoves ==
    ASSUME User \/ Watch \/ Collects \/ NodeStep \/ Restart
    PROVE  UNCHANGED child \/ Deletes
<1>1. ASSUME NEW n \in Names, UserCreates(n) \/ UserDeletes(n) PROVE UNCHANGED child
  BY <1>1 DEF UserCreates, UserDeletes, Changed
<1>2. ASSUME NEW n \in Names, NEW k \in Kinds, UserDeletesChild(n, k) \/ CollectGarbage(n, k)
      PROVE  Deletes
  <2>1. Cleared(n, {k}) /\ {k} \in SUBSET Kinds
    BY <1>2 DEF UserDeletesChild, CollectGarbage, Vanish
  <2> QED
    BY <2>1 DEF Deletes
<1>3. CASE Watch
  BY <1>3 DEF Watch, SyncDriver, TimerFires, SyncChild, Deliver, store
<1>4. CASE NodeStep
  BY <1>4 DEF NodeStep, SetNode
<1>5. CASE Restart
  BY <1>5 DEF Restart, store
<1> QED
  BY <1>1, <1>2, <1>3, <1>4, <1>5 DEF User, Collects

\* An object of driver n that a step brings into being.
Appears(n, k) == child[n][k] = 0 /\ child'[n][k] # 0

LEMMA BuildStep ==
    ASSUME IInv, [ReconcilerNext]_vars, NEW n \in Names, NEW k \in Kinds, Appears(n, k)
    PROVE  cr[n].fin /\ cr[n].cond # "Deleting" /\ child'[n][k] = cr[n].uid
<1>1. TypeOK /\ (pc \in BuildingSteps => req \in Names /\ pc # "idle" /\ pc \in BuildSteps)
  BY StepNames DEF IInv, TypeOK, BuildSteps, BuildingSteps, CreateSteps
<1>2. ~UNCHANGED child
  BY DEF Appears
<1>3. ~Deletes
  <2> SUFFICES ASSUME NEW m \in Names, NEW gone \in SUBSET Kinds, Cleared(m, gone)
               PROVE  child'[n][k] \in {0, child[n][k]}
    BY DEF Appears, Deletes
  <2> QED
    BY <1>1, ClearedFacts
<1>4. Creates
  BY <1>1, <1>2, <1>3, OutsideClusterMoves, ClusterMoves, EnvironmentMoves
     DEF ReconcilerNext, vars, store
<1>5. PICK j \in Kinds, kernels \in SUBSET Builds : Built(j, kernels)
  BY <1>4 DEF Creates
<1>6. req = n /\ child'[n][k] = efa.uid
  BY <1>1, <1>4, <1>5, BuiltFacts DEF Appears, Creates
<1>7. efa.uid # 0 /\ efa.fin /\ ~efa.del /\ Copy(efa, cr[req])
  BY <1>1, <1>4 DEF IInv, HandInv, Creates
<1> QED
  BY <1>6, <1>7 DEF Copy, Older, Alive

\* Objects are built under the finalizer, and never for a driver that is being
\* torn down, whatever copy of the driver the worker builds from.
THEOREM ReconcilerBuildsGuarded == ReconcilerSpec => BuildsOnlyGuarded
<1>1. IInv /\ [ReconcilerNext]_vars =>
        [\A n \in Names, k \in Kinds :
           child[n][k] = 0 /\ child'[n][k] # 0 =>
               cr[n].fin /\ cr[n].cond # "Deleting" /\ child'[n][k] = cr[n].uid]_vars
  BY BuildStep DEF Appears
<1> QED
  BY <1>1, Invariance, PTL DEF ReconcilerSpec, BuildsOnlyGuarded
=============================================================================
