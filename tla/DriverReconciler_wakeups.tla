---------------------- MODULE DriverReconciler_wakeups ----------------------
(***************************************************************************)
(* Proofs that no wake-up is lost: no controller built on DriverReconciler *)
(* comes to rest over an active driver before that driver is set up.       *)
(*                                                                         *)
(* A driver is looked at again because it is queued, because its back-off  *)
(* runs, or because a watch event for it or for one of its objects is      *)
(* under way.  The invariant says that each active driver the worker is    *)
(* not busy with has such a reason or needs none, and what the worker has  *)
(* to know for it to stay true when the worker puts a driver down.         *)
(***************************************************************************)
EXTENDS DriverReconciler_refinement

-----------------------------------------------------------------------------
(***************************************************************************)
(* The inductive invariant                                                 *)
(***************************************************************************)

\* The controller is going to look at driver n again.
Awake(n) == n \in queue \cup delayed \/ pending[n] # {}

\* A cached object that no watch event is under way for is up to date.
CachesFollow ==
    \A n \in Names, k \in Kinds : k \notin pending[n] => childCache[n][k] = child[n][k]

\* Where Reconcile is past the writes that reset the condition Error.
LateSteps == BuildingSteps \cup DeleteSteps \cup StatusSteps

\* If the worker's copy of its driver is outdated, the driver will be looked at
\* again; and the outcomes Error and Ready are never taken for recorded because
\* of a condition that an earlier reconciliation left behind.
WorkerInv ==
    /\ pc = "idle" => req = NoReq
    /\ pc # "idle" => fresh \/ "cr" \in pending[req] \/ req \in queue
    /\ pc # "idle" => efa.cond # "Ignored"
    /\ pc \in LateSteps => efa.cond # "Error"
    /\ pc = "Ready" => ~efa.del

\* An active driver that the worker has put down is set up or awake.
Placed == \A n \in Names : n # req /\ Active(n) => Awake(n) \/ Settled(n)

WakeInv == IInv /\ CachesFollow /\ WorkerInv /\ Placed

\* The reconciled driver has its object k, as far as the worker can know.
Ensured(k) == child[req][k] # 0 \/ k \in pending[req] \/ req \in queue

\* An active driver that the worker has put down has its object k or is awake.
PlacedWith(k) == \A n \in Names : n # req /\ Active(n) => Awake(n) \/ child[n][k] # 0

-----------------------------------------------------------------------------
(***************************************************************************)
(* What a step of the worker does to the wake-ups                          *)
(***************************************************************************)

\* Whatever a step changes in the store, a watch event is under way for it.
Alerts ==
    /\ UNCHANGED <<crCache, childCache>>
    /\ \A n \in Names : pending[n] \subseteq pending'[n]
    /\ \A n \in Names : cr'[n] = cr[n] \/ "cr" \in pending'[n]
    /\ \A n \in Names, k \in Kinds : child'[n][k] = child[n][k] \/ k \in pending'[n]

\* The worker forgets no request and touches the back-off of its own only.
Serves ==
    /\ Alerts
    /\ UNCHANGED queue /\ delayed \subseteq delayed'
    /\ \A n \in Names \ {req} : backoff'[n] = backoff[n]
    /\ pc # "idle" /\ (pc' # "idle" => req' = req) /\ (pc' = "idle" => req' = NoReq)

LEMMA UntouchedAlerts ==
    ASSUME UNCHANGED <<store, caches>>
    PROVE  Alerts
  BY DEF store, caches, Alerts

LEMMA WrittenAlerts ==
    ASSUME TypeOK, req \in Names, NEW d, Written(d)
    PROVE  Alerts /\ "cr" \in pending'[req]
<1>1. /\ cr \in [Names -> Driver] /\ pending \in [Names -> SUBSET (Kinds \cup {"cr"})]
      /\ cr' = [cr EXCEPT ![req] = d] /\ pending' = [pending EXCEPT ![req] = @ \cup {"cr"}]
      /\ UNCHANGED <<child, crCache, childCache>>
  BY DEF TypeOK, Written, Notify
<1> QED
  BY <1>1 DEF Alerts

LEMMA BuiltAlerts ==
    ASSUME TypeOK, req \in Names, NEW k \in Kinds, NEW kernels \in SUBSET Builds, Built(k, kernels)
    PROVE  Alerts /\ k \in pending'[req]
<1>1. /\ pending \in [Names -> SUBSET (Kinds \cup {"cr"})]
      /\ pending' = [pending EXCEPT ![req] = @ \cup {k}]
      /\ UNCHANGED <<cr, crCache, childCache>>
  BY DEF TypeOK, Built, Notify
<1>2. \A m \in Names, j \in Kinds : <<m, j>> # <<req, k>> => child'[m][j] = child[m][j]
  BY BuiltFacts
<1>3. k \in pending'[req] /\ \A n \in Names : pending[n] \subseteq pending'[n]
  BY <1>1
<1> QED
  BY <1>1, <1>2, <1>3 DEF Alerts

LEMMA ClearedAlerts ==
    ASSUME TypeOK, NEW n \in Names, NEW gone \in SUBSET Kinds, Cleared(n, gone)
    PROVE  Alerts
<1>1. /\ pending \in [Names -> SUBSET (Kinds \cup {"cr"})]
      /\ pending' = [pending EXCEPT ![n] = @ \cup gone]
      /\ UNCHANGED <<cr, crCache, childCache>>
  BY DEF TypeOK, Cleared
<1>2. /\ \A k \in Kinds : child'[n][k] = IF k \in gone THEN 0 ELSE child[n][k]
      /\ \A m \in Names \ {n} : child'[m] = child[m]
  BY ClearedFacts
<1>3. gone \subseteq pending'[n] /\ \A m \in Names : pending[m] \subseteq pending'[m]
  BY <1>1
<1> QED
  BY <1>1, <1>2, <1>3 DEF Alerts

LEMMA ReturnServes ==
    ASSUME TypeOK, pc # "idle", Alerts, ReturnEarly \/ ReturnDone \/ ReturnRequeue \/ ReturnErr
    PROVE  Serves /\ pc' = "idle"
<1>1. backoff \in [Names -> Nat]
  BY DEF TypeOK
<1> QED
  BY <1>1 DEF Serves, ReturnEarly, ReturnDone, ReturnRequeue, ReturnErr, Idle

LEMMA GotoServes ==
    ASSUME pc # "idle", Alerts, NEW step, step # "idle", Goto(step)
    PROVE  Serves /\ pc' = step /\ req' = req
  BY DEF Serves, Goto, control

LEMMA UpdateErrServes ==
    ASSUME TypeOK, pc # "idle", NEW d, UpdateErr(d)
    PROVE  Serves /\ pc' = "idle" /\ req \in delayed'
<1>1. req \in Names
  BY DEF TypeOK
<1>2. Alerts
  BY <1>1, WrittenAlerts, UntouchedAlerts DEF UpdateErr
<1> QED
  BY <1>2, ReturnServes DEF UpdateErr, ReturnErr

LEMMA UpdateOkServes ==
    ASSUME TypeOK, pc # "idle", NEW d, UpdateOk(d), NEW step, step # "idle", Goto(step)
    PROVE  Serves /\ pc' = step /\ req' = req /\ efa' = d /\ "cr" \in pending'[req]
<1>1. req \in Names
  BY DEF TypeOK
<1> QED
  BY <1>1, WrittenAlerts, GotoServes DEF UpdateOk

LEMMA WrittenReturnServes ==
    ASSUME TypeOK, pc # "idle", NEW d, Written(d),
           ReturnEarly \/ ReturnDone \/ ReturnRequeue
    PROVE  Serves /\ pc' = "idle" /\ "cr" \in pending'[req]
<1>1. req \in Names
  BY DEF TypeOK
<1> QED
  BY <1>1, WrittenAlerts, ReturnServes

-----------------------------------------------------------------------------
(***************************************************************************)
(* How a reconciliation goes on, and how it ends                           *)
(***************************************************************************)

\* The reconciliation ends, and its driver is awake.
EndsAwake(n) == Serves /\ pc' = "idle" /\ (n \in delayed' \/ "cr" \in pending'[n])

\* The reconciliation goes on with a copy that has been written.
GoesOn ==
    /\ Serves /\ pc' # "idle" /\ "cr" \in pending'[req] /\ efa'.cond # "Ignored"
    /\ pc' \in LateSteps => efa'.cond # "Error"
    /\ pc' # "Ready"

LEMMA StepsApart ==
    /\ StartSteps \cap LateSteps = {} /\ "idle" \notin LateSteps
    /\ CreateSteps \cap StatusSteps = {} /\ DeleteSteps \cap StatusSteps = {}
    /\ "idle" \notin StartSteps
  BY StepNames DEF LateSteps, BuildingSteps, CreateSteps, DeleteSteps, StatusSteps, StartSteps

LEMMA SetStatusWakes ==
    ASSUME WakeInv, pc # "idle", NEW c \in {"Creating", "Deleting"},
           NEW next \in {"CreateCluster", "DeleteDevicePlugin"}, SetStatus(c, next)
    PROVE  EndsAwake(req) \/ GoesOn
<1>1. TypeOK /\ efa \in Driver
  BY DEF WakeInv, IInv, TypeOK
<1>2. SetCondition(c).cond = c
  BY <1>1 DEF SetCondition, Driver
<1>3. CASE UpdateErr(SetCondition(c))
  BY <1>1, <1>3, UpdateErrServes DEF EndsAwake
<1>4. CASE UpdateOk(SetCondition(c)) /\ Goto(next)
  <2>1. Serves /\ pc' = next /\ efa' = SetCondition(c) /\ "cr" \in pending'[req]
    BY <1>1, <1>4, UpdateOkServes
  <2> QED
    BY <1>2, <2>1 DEF GoesOn
<1> QED
  BY <1>3, <1>4 DEF SetStatus

\* Branch enters CreateCluster and DeleteCluster without the condition Error.
LEMMA BranchSteps ==
    ASSUME NEW d \in Driver
    PROVE  /\ Branch(d) \in {"MarkDeleting", "DeleteDevicePlugin", "ResetError", "CreateCluster"}
           /\ Branch(d) \in LateSteps => d.cond # "Error"
<1>1. Branch(d) \in {"MarkDeleting", "DeleteDevicePlugin", "ResetError", "CreateCluster"}
  BY DEF Branch
<1>2. Branch(d) \in LateSteps => Branch(d) \in {"DeleteDevicePlugin", "CreateCluster"}
  BY <1>1, StepsApart DEF StartSteps
<1>3. Branch(d) \in {"DeleteDevicePlugin", "CreateCluster"} => d.cond # "Error"
  BY DEF Branch
<1> QED
  BY <1>1, <1>2, <1>3

LEMMA AddFinalizerWakes ==
    ASSUME WakeInv, AddFinalizer
    PROVE  EndsAwake(req) \/ GoesOn
<1> DEFINE d    == [efa EXCEPT !.fin = TRUE]
           step == IF ~d.del /\ d.cond = "" THEN "FirstStatus" ELSE Branch(d)
<1>1. TypeOK /\ pc # "idle" /\ efa \in Driver /\ efa.cond # "Ignored"
  BY DEF WakeInv, WorkerInv, IInv, TypeOK, AddFinalizer, At
<1>2. d \in Driver /\ d.cond = efa.cond
  BY <1>1 DEF Driver
<1>3. /\ step \in {"FirstStatus", "MarkDeleting", "DeleteDevicePlugin", "ResetError", "CreateCluster"}
      /\ step \in LateSteps => d.cond # "Error"
  <2>1. "FirstStatus" \notin LateSteps
    BY StepsApart DEF StartSteps
  <2> QED
    BY <1>2, <2>1, BranchSteps
<1>4. UpdateErr(d) \/ (UpdateOk(d) /\ Goto(step))
  BY DEF AddFinalizer
<1> HIDE DEF d, step
<1>5. CASE UpdateErr(d)
  BY <1>1, <1>5, UpdateErrServes DEF EndsAwake
<1>6. CASE UpdateOk(d) /\ Goto(step)
  <2>1. Serves /\ pc' = step /\ efa' = d /\ "cr" \in pending'[req]
    BY <1>1, <1>3, <1>6, UpdateOkServes
  <2> QED
    BY <1>1, <1>2, <1>3, <2>1 DEF GoesOn
<1> QED
  BY <1>4, <1>5, <1>6

\* The driver is put down with nothing written: it is Ready in the store too, or
\* the worker's copy was outdated and the driver is awake.
EndsReady(n) ==
    /\ Serves /\ pc = "Ready" /\ pc' = "idle"
    /\ UNCHANGED <<cr, child, pending>> /\ backoff'[n] = 0
    /\ Awake(n)' \/ (cr[n].cond = "Ready" /\ ~cr[n].del)

LEMMA RecordOutcomeWakes ==
    ASSUME WakeInv, RecordOutcome, NEW n \in Names, n = req
    PROVE  EndsAwake(n) \/ EndsReady(n)
<1>1. TypeOK /\ pc # "idle" /\ req \in Names /\ pc \in LateSteps
  BY StepsApart DEF WakeInv, IInv, TypeOK, RecordOutcome, LateSteps
<1>2. CASE efa.cond = pc /\ Return /\ UNCHANGED <<store, caches, used>>
  <2>1. pc \in {"DeviceDiscovery", "Ready"}
    BY <1>1, <1>2 DEF WakeInv, WorkerInv, RecordOutcome, StatusSteps
  <2>2. Alerts
    BY <1>2, UntouchedAlerts
  <2>3. CASE pc = "DeviceDiscovery"
    <3>1. ReturnRequeue
      BY <1>2, <2>3 DEF Return
    <3>2. Serves /\ pc' = "idle" /\ n \in delayed'
      BY <1>1, <2>2, <3>1, ReturnServes DEF ReturnRequeue
    <3> QED
      BY <3>2 DEF EndsAwake
  <2>4. CASE pc = "Ready"
    <3>1. ReturnDone
      BY <1>2, <2>4 DEF Return
    <3>2. Serves /\ pc' = "idle" /\ UNCHANGED <<cr, child, pending, queue>>
      BY <1>1, <1>2, <2>2, <3>1, ReturnServes DEF Serves, store, caches
    <3>3. backoff'[n] = 0
      BY <1>1, <3>1 DEF ReturnDone, TypeOK
    <3>4. fresh => cr[n].cond = "Ready" /\ ~cr[n].del
      BY <1>1, <1>2, <2>4 DEF WakeInv, IInv, HandInv, WorkerInv
    <3>5. Awake(n)' \/ (cr[n].cond = "Ready" /\ ~cr[n].del)
      BY <1>1, <3>2, <3>4 DEF WakeInv, WorkerInv, Awake
    <3> QED
      BY <2>4, <3>2, <3>3, <3>5 DEF EndsReady
  <2> QED
    BY <2>1, <2>3, <2>4
<1>3. CASE UpdateErr(SetCondition(pc))
  BY <1>1, <1>3, UpdateErrServes DEF EndsAwake
<1>4. CASE Written(SetCondition(pc)) /\ Return
  BY <1>1, <1>4, WrittenReturnServes DEF EndsAwake, Return
<1> QED
  BY <1>2, <1>3, <1>4 DEF RecordOutcome

\* Reconcile outside CreateCluster and DeleteCluster, once it has taken a request.
LEMMA OutsideClusterWakes ==
    ASSUME WakeInv, OutsideCluster, pc # "idle", NEW n \in Names, n = req
    PROVE  EndsAwake(n) \/ EndsReady(n) \/ GoesOn
<1> USE DEF At
<1>1. TypeOK
  BY DEF WakeInv, IInv
<1>2. CASE Ignore
  BY <1>1, <1>2, UpdateErrServes, WrittenReturnServes DEF Ignore, EndsAwake
<1>3. CASE FirstStatus \/ ResetError \/ MarkDeleting
  BY <1>3, SetStatusWakes DEF FirstStatus, ResetError, MarkDeleting
<1>4. CASE RemoveFinalizer
  BY <1>1, <1>4, UpdateErrServes, WrittenReturnServes DEF RemoveFinalizer, EndsAwake
<1> QED
  BY <1>2, <1>3, <1>4, AddFinalizerWakes, RecordOutcomeWakes DEF OutsideCluster, TakeNothing, Take

\* CreateCluster and DeleteCluster keep the worker's copy and pass its outcome on.
StaysInside ==
    /\ Serves /\ UNCHANGED <<req, efa, fresh>>
    /\ pc \in LateSteps /\ pc' \in LateSteps /\ (pc' = "Ready" => pc \in BuildingSteps)

LEMMA LateStepNames ==
    /\ AfterCreate \subseteq LateSteps /\ DeleteSteps \subseteq LateSteps /\ "Error" \in LateSteps
    /\ "idle" \notin LateSteps /\ "Ready" \notin DeleteSteps
  BY StepsApart DEF AfterCreate, LateSteps, DeleteSteps, StatusSteps

LEMMA CreateStepWakes ==
    ASSUME TypeOK, CreateStep
    PROVE  StaysInside
<1>1. pc \in BuildingSteps /\ pc \in LateSteps /\ pc # "idle" /\ req \in Names
  BY StepsApart DEF CreateStep, LateSteps, TypeOK
<1>2. ASSUME NEW k \in Kinds, NEW kernels \in SUBSET Builds, NEW next \in AfterCreate,
             NEW exists \in AfterCreate, NEW failed \in AfterCreate,
             Ensure(k, kernels, next, exists, failed)
      PROVE  StaysInside
  <2>1. Alerts /\ UNCHANGED <<efa, fresh>>
    BY <1>1, <1>2, BuiltAlerts, UntouchedAlerts DEF Ensure, ReadFails, Untouched
  <2>2. PICK step \in AfterCreate : Goto(step)
    BY <1>2 DEF Ensure, ReadFails, AfterCreate, StatusSteps
  <2> QED
    BY <1>1, <2>1, <2>2, GotoServes, LateStepNames DEF StaysInside
<1>3. ASSUME NEW next \in AfterCreate, NEW found \in SUBSET Builds, LookAround(next, found)
      PROVE  StaysInside
  <2>1. Alerts /\ Goto(next) /\ UNCHANGED <<efa, fresh>>
    BY <1>3, UntouchedAlerts DEF LookAround, Goto, store, caches
  <2> QED
    BY <1>1, <2>1, GotoServes, LateStepNames DEF StaysInside
<1>4. CASE FailedLook
  <2>1. Alerts /\ Goto("Error") /\ UNCHANGED <<efa, fresh>>
    BY <1>4, UntouchedAlerts DEF FailedLook, ReadFails, Untouched
  <2> QED
    BY <1>1, <2>1, GotoServes, LateStepNames DEF StaysInside
<1> QED
  BY <1>2, <1>3, <1>4 DEF CreateStep

LEMMA DeleteStepWakes ==
    ASSUME TypeOK, DeleteStep
    PROVE  StaysInside
<1>1. pc \in LateSteps /\ pc # "idle" /\ req \in Names
  BY LateStepNames DEF DeleteStep, TypeOK
<1>2. ASSUME NEW S \in SUBSET Kinds, NEW next \in DeleteSteps, Remove(S, next)
      PROVE  StaysInside
  <2>1. Present(S) \in SUBSET Kinds
    BY DEF Present
  <2>2. Alerts /\ UNCHANGED <<efa, fresh>>
    BY <1>1, <1>2, <2>1, ClearedAlerts DEF Remove
  <2>3. PICK step \in DeleteSteps \cup {"Error"} : Goto(step)
    BY <1>2 DEF Remove
  <2>4. step \in LateSteps /\ step # "idle" /\ step # "Ready"
    BY LateStepNames
  <2> QED
    BY <1>1, <2>2, <2>3, <2>4, GotoServes DEF StaysInside
<1>3. ASSUME NEW next \in DeleteSteps, Skip(next)
      PROVE  StaysInside
  <2>1. Alerts /\ Goto(next) /\ UNCHANGED <<efa, fresh>>
    BY <1>3, UntouchedAlerts DEF Skip, Untouched
  <2> QED
    BY <1>1, <2>1, GotoServes, LateStepNames DEF StaysInside
<1> QED
  BY <1>2, <1>3 DEF DeleteStep

\* Every step of the worker but the one that takes a request.
LEMMA WorkerWakes ==
    ASSUME WakeInv, pc # "idle", OutsideCluster \/ CreateStep \/ DeleteStep,
           NEW n \in Names, n = req
    PROVE  EndsAwake(n) \/ EndsReady(n) \/ GoesOn \/ StaysInside
<1>1. TypeOK
  BY DEF WakeInv, IInv
<1> QED
  BY <1>1, OutsideClusterWakes, CreateStepWakes, DeleteStepWakes

-----------------------------------------------------------------------------
(***************************************************************************)
(* What the rest of the cluster does to the wake-ups                       *)
(***************************************************************************)

\* Nothing that keeps a driver awake is lost, and every change of the store
\* keeps a driver awake.
Stirs ==
    /\ UNCHANGED <<backoff, pc, req, efa>>
    /\ queue \subseteq queue' /\ \A n \in Names : Awake(n) => Awake(n)'
    /\ \A n \in Names : pending[n] \subseteq pending'[n] \/ n \in queue'
    /\ \A n \in Names : cr'[n] = cr[n] \/ "cr" \in pending'[n]
    /\ \A n \in Names, k \in Kinds : child'[n][k] = child[n][k] \/ k \in pending'[n]
    /\ fresh /\ ~fresh' => req \in Names /\ "cr" \in pending'[req]
    /\ CachesFollow'

LEMMA AlertsStir ==
    ASSUME CachesFollow, Alerts, UNCHANGED <<backoff, pc, req, efa>>,
           queue \subseteq queue', delayed \subseteq delayed' \cup queue',
           fresh /\ ~fresh' => req \in Names /\ "cr" \in pending'[req]
    PROVE  Stirs
<1>1. \A n \in Names : Awake(n) => Awake(n)'
  BY DEF Awake, Alerts
<1>2. CachesFollow'
  BY DEF CachesFollow, Alerts
<1> QED
  BY <1>1, <1>2 DEF Stirs, Alerts

LEMMA ChangedStirs ==
    ASSUME TypeOK, CachesFollow, NEW n \in Names, NEW d, Changed(n, d)
    PROVE  Stirs
<1>1. /\ cr' = [cr EXCEPT ![n] = d] /\ pending' = [pending EXCEPT ![n] = @ \cup {"cr"}]
      /\ fresh' = (IF n = req THEN FALSE ELSE fresh)
      /\ UNCHANGED <<child, crCache, childCache, queue, delayed, backoff, pc, req, efa>>
  BY DEF Changed, Notify, control
<1>2. "cr" \in pending'[n] /\ \A m \in Names : pending[m] \subseteq pending'[m]
  BY <1>1 DEF TypeOK
<1>3. Alerts
  BY <1>1, <1>2 DEF Alerts, TypeOK
<1> QED
  BY <1>1, <1>2, <1>3, AlertsStir

LEMMA DeliverStirs ==
    ASSUME TypeOK, NEW n \in Names, NEW object, Deliver(n, object), CachesFollow'
    PROVE  Stirs
<1>1. /\ queue' = queue \cup {n}
      /\ UNCHANGED <<cr, child, delayed, backoff, pc, req, efa, fresh>>
  BY DEF Deliver, store, worker
<1>2. \A m \in Names : m # n => pending'[m] = pending[m]
  BY DEF Deliver, TypeOK
<1>3. \A m \in Names : Awake(m) => Awake(m)'
  BY <1>1, <1>2 DEF Awake
<1> QED
  BY <1>1, <1>2, <1>3 DEF Stirs

LEMMA SyncDriverStirs ==
    ASSUME TypeOK, CachesFollow, NEW n \in Names, SyncDriver(n)
    PROVE  Stirs
<1>1. Deliver(n, "cr") /\ UNCHANGED childCache
  BY DEF SyncDriver
<1>2. UNCHANGED child /\ pending' = [pending EXCEPT ![n] = @ \ {"cr"}]
  BY <1>1 DEF Deliver, store
<1>3. \A m \in Names, k \in Kinds : k \in pending[m] => k \in pending'[m]
  BY <1>2, StepNames DEF TypeOK
<1>4. CachesFollow'
  BY <1>1, <1>2, <1>3 DEF CachesFollow
<1> QED
  BY <1>1, <1>4, DeliverStirs

LEMMA SyncChildStirs ==
    ASSUME TypeOK, CachesFollow, NEW n \in Names, NEW k \in Kinds, SyncChild(n, k)
    PROVE  Stirs
<1>1. Deliver(n, k) /\ childCache' = [childCache EXCEPT ![n][k] = child[n][k]]
  BY DEF SyncChild
<1>2. UNCHANGED child /\ pending' = [pending EXCEPT ![n] = @ \ {k}]
  BY <1>1 DEF Deliver, store
<1>3. childCache'[n][k] = child[n][k]
  BY <1>1 DEF TypeOK
<1>4. \A m \in Names, j \in Kinds :
          <<m, j>> # <<n, k>> => /\ childCache'[m][j] = childCache[m][j]
                                 /\ j \in pending[m] => j \in pending'[m]
  BY <1>1, <1>2 DEF TypeOK
<1>5. CachesFollow'
  <2> SUFFICES ASSUME NEW m \in Names, NEW j \in Kinds, j \notin pending'[m]
               PROVE  childCache'[m][j] = child'[m][j]
    BY DEF CachesFollow
  <2> QED
    BY <1>2, <1>3, <1>4 DEF CachesFollow
<1> QED
  BY <1>1, <1>5, DeliverStirs

LEMMA EnvironmentStirs ==
    ASSUME TypeOK, CachesFollow, User \/ Watch \/ Collects \/ NodeStep
    PROVE  Stirs
<1>1. ASSUME NEW n \in Names, UserCreates(n) \/ UserDeletes(n) PROVE Stirs
  BY <1>1, ChangedStirs DEF UserCreates, UserDeletes
<1>2. ASSUME NEW n \in Names, NEW k \in Kinds, UserDeletesChild(n, k) \/ CollectGarbage(n, k)
      PROVE  Stirs
  <2>1. Cleared(n, {k}) /\ {k} \in SUBSET Kinds
        /\ UNCHANGED <<queue, delayed, backoff, pc, req, efa, fresh>>
    BY <1>2 DEF UserDeletesChild, CollectGarbage, Vanish, control, worker
  <2> QED
    BY <2>1, ClearedAlerts, AlertsStir
<1>3. ASSUME NEW n \in Names, TimerFires(n) PROVE Stirs
  <2>1. Alerts /\ queue' = queue \cup {n} /\ delayed' = delayed \ {n}
        /\ UNCHANGED <<backoff, pc, req, efa, fresh>>
    BY <1>3, UntouchedAlerts DEF TimerFires, worker
  <2> QED
    BY <2>1, AlertsStir
<1>4. CASE NodeStep
  <2>1. Alerts /\ UNCHANGED <<queue, delayed, backoff, pc, req, efa, fresh>>
    BY <1>4 DEF NodeStep, SetNode, Alerts, caches, control, worker
  <2> QED
    BY <2>1, AlertsStir
<1> QED
  BY <1>1, <1>2, <1>3, <1>4, SyncDriverStirs, SyncChildStirs DEF User, Watch, Collects

-----------------------------------------------------------------------------
(***************************************************************************)
(* The invariant is kept                                                   *)
(***************************************************************************)

\* The worker takes a request from the queue, or drops it.
Takes(n) == Take(n) \/ TakeNothing(n)

LEMMA StepCases ==
    ASSUME WakeInv, ReconcilerNext
    PROVE  \/ \E n \in Names : Takes(n)
           \/ pc # "idle" /\ (OutsideCluster \/ CreateStep \/ DeleteStep)
           \/ Stirs \/ Restart
<1>1. CASE OutsideCluster
  BY <1>1, StepsApart
     DEF OutsideCluster, Takes, Ignore, AddFinalizer, FirstStatus, MarkDeleting, ResetError,
         RemoveFinalizer, RecordOutcome, At, StartSteps, StatusSteps
<1>2. CASE CreateStep \/ DeleteStep
  BY <1>2, StepsApart DEF CreateStep, DeleteStep, LateSteps
<1>3. CASE User \/ Watch \/ Collects \/ NodeStep
  BY <1>3, EnvironmentStirs DEF WakeInv, IInv
<1> QED
  BY <1>1, <1>2, <1>3 DEF ReconcilerNext

LEMMA TakesFacts ==
    ASSUME WakeInv, NEW n \in Names, Takes(n)
    PROVE  /\ UNCHANGED <<cr, child, crCache, childCache, pending, delayed, backoff>>
           /\ queue' = queue \ {n} /\ pc = "idle" /\ req = NoReq
           /\ Awake(n)' \/ req' = n \/ ~Active(n)'
<1>1. /\ UNCHANGED <<cr, child, crCache, childCache, pending, delayed, backoff>>
      /\ queue' = queue \ {n} /\ pc = "idle"
  BY DEF Takes, Take, TakeNothing, At, store, caches
<1>2. Awake(n)' \/ req' = n \/ ~Active(n)'
  <2>1. CASE Take(n)
    BY <2>1 DEF Take
  <2>2. CASE TakeNothing(n) /\ "cr" \in pending[n]
    BY <1>1, <2>2 DEF Awake
  <2>3. CASE TakeNothing(n) /\ "cr" \notin pending[n]
    BY <1>1, <2>3 DEF WakeInv, IInv, StoreInv, TakeNothing, Listed, Active, Exists
  <2> QED
    BY <2>1, <2>2, <2>3 DEF Takes
<1> QED
  BY <1>1, <1>2 DEF WakeInv, WorkerInv

LEMMA RestartFacts ==
    ASSUME Restart
    PROVE  /\ UNCHANGED <<cr, child>> /\ childCache' = child /\ pc' = "idle" /\ req' = NoReq
           /\ \A n \in Names : Active(n)' => Awake(n)'
<1>1. UNCHANGED <<cr, child>> /\ childCache' = child /\ pc' = "idle" /\ req' = NoReq
  BY DEF Restart, store
<1>2. \A n \in Names : Exists(cr[n]) => n \in queue'
  BY DEF Restart
<1> QED
  BY <1>1, <1>2 DEF Active, Awake

\* A driver that sleeps after a step, and that the worker did not put down in it,
\* slept before the step, which left it as it was.
LEMMA StillAsleep ==
    ASSUME WakeInv, ReconcilerNext, NEW n \in Names, n # req, n # req', Active(n)', ~Awake(n)'
    PROVE  /\ ~Awake(n) /\ cr'[n] = cr[n] /\ backoff'[n] = backoff[n]
           /\ \A k \in Kinds : child'[n][k] = child[n][k]
<1>1. CASE \E m \in Names : Takes(m)
  <2>1. PICK m \in Names : Takes(m)
    BY <1>1
  <2>2. m # n
    BY <2>1, TakesFacts
  <2> QED
    BY <2>1, <2>2, TakesFacts DEF Awake
<1>2. CASE pc # "idle" /\ (OutsideCluster \/ CreateStep \/ DeleteStep)
  <2>1. req \in Names
    BY <1>2 DEF WakeInv, IInv, TypeOK
  <2>2. Serves
    BY <1>2, <2>1, WorkerWakes DEF EndsAwake, EndsReady, GoesOn, StaysInside
  <2> QED
    BY <2>2 DEF Serves, Alerts, Awake
<1>3. CASE Stirs
  BY <1>3 DEF Stirs, Awake
<1>4. CASE Restart
  BY <1>4, RestartFacts
<1> QED
  BY <1>1, <1>2, <1>3, <1>4, StepCases

\* A driver the worker puts down is awake, or set up.
LEMMA PutDown ==
    ASSUME WakeInv, ReconcilerNext, NEW n \in Names, n = req, n # req', Active(n)', ~Awake(n)'
    PROVE  EndsReady(n) /\ Settled(n)'
<1>1. pc # "idle" /\ n # NoReq
  BY NamesAssumption DEF WakeInv, WorkerInv
<1>2. ~\E m \in Names : Takes(m)
  BY <1>1, TakesFacts
<1>3. ~Stirs /\ ~Restart
  BY RestartFacts DEF Stirs
<1>4. EndsAwake(n) \/ EndsReady(n) \/ GoesOn \/ StaysInside
  BY <1>2, <1>3, StepCases, WorkerWakes
<1>5. ~EndsAwake(n) /\ ~GoesOn /\ ~StaysInside
  BY DEF EndsAwake, GoesOn, StaysInside, Serves, Awake
<1>6. EndsReady(n)
  BY <1>4, <1>5
<1> QED
  BY <1>6 DEF EndsReady, Settled

LEMMA PlacedStep ==
    ASSUME WakeInv, ReconcilerNext
    PROVE  Placed'
<1> SUFFICES ASSUME NEW n \in Names, n # req', Active(n)', ~Awake(n)'
             PROVE  Settled(n)'
  BY DEF Placed
<1>1. CASE n = req
  BY <1>1, PutDown
<1>2. CASE n # req
  BY <1>2, StillAsleep DEF WakeInv, Placed, Settled, Active
<1> QED
  BY <1>1, <1>2

LEMMA TakeWorker ==
    ASSUME WakeInv, NEW n \in Names, Takes(n)
    PROVE  WorkerInv'
<1>1. CASE TakeNothing(n)
  BY <1>1, TakesFacts, StepsApart
     DEF TakeNothing, worker, WakeInv, WorkerInv, Takes, LateSteps, StatusSteps
<1>2. CASE Take(n)
  <2>1. /\ req' = n /\ efa' = crCache[n] /\ fresh' = ("cr" \notin pending[n])
        /\ UNCHANGED pending /\ crCache[n].cond # "Ignored" /\ crCache[n] \in Driver
    BY <1>2 DEF Take, caches, WakeInv, IInv, TypeOK
  <2>2. PICK before : pc' = NextStep(n, before)
    BY <1>2 DEF Take
  <2>3. \/ pc' \in {"Ignored", "AddFinalizer"}
        \/ pc' = Branch(crCache[n])
    BY <2>2 DEF NextStep
  <2>4. /\ pc' # "idle" /\ pc' # "Ready"
        /\ pc' \in LateSteps => crCache[n].cond # "Error"
    BY <2>1, <2>3, BranchSteps, StepsApart DEF StartSteps
  <2> QED
    BY <2>1, <2>4 DEF WorkerInv
<1> QED
  BY <1>1, <1>2 DEF Takes

LEMMA WorkerStep ==
    ASSUME WakeInv, ReconcilerNext
    PROVE  WorkerInv'
<1>1. ASSUME NEW n \in Names, Takes(n) PROVE WorkerInv'
  BY <1>1, TakeWorker
<1>2. CASE pc # "idle" /\ (OutsideCluster \/ CreateStep \/ DeleteStep)
  <2>1. req \in Names
    BY <1>2 DEF WakeInv, IInv, TypeOK
  <2>2. CASE Serves /\ pc' = "idle"
    BY <2>2, StepsApart DEF Serves, WorkerInv, LateSteps, StatusSteps
  <2>3. CASE GoesOn
    BY <2>3 DEF GoesOn, Serves, WorkerInv
  <2>4. CASE StaysInside
    <3>1. pc \in BuildingSteps => ~efa.del
      BY <1>2 DEF WakeInv, IInv, HandInv, BuildSteps
    <3>2. pc # "idle" /\ pc' # "idle"
      BY <2>4, StepsApart DEF StaysInside
    <3> QED
      BY <2>1, <2>4, <3>1, <3>2 DEF StaysInside, Serves, Alerts, WakeInv, WorkerInv
  <2> QED
    BY <1>2, <2>1, <2>2, <2>3, <2>4, WorkerWakes DEF EndsAwake, EndsReady
<1>3. CASE Stirs
  <2>1. pc # "idle" => req \in Names
    BY DEF WakeInv, IInv, TypeOK
  <2> QED
    BY <1>3, <2>1 DEF Stirs, WakeInv, WorkerInv
<1>4. CASE Restart
  BY <1>4, RestartFacts, StepsApart DEF WorkerInv, LateSteps, StatusSteps
<1> QED
  BY <1>1, <1>2, <1>3, <1>4, StepCases

LEMMA CachesStep ==
    ASSUME WakeInv, ReconcilerNext
    PROVE  CachesFollow'
<1>1. CASE \E n \in Names : Takes(n)
  BY <1>1, TakesFacts DEF WakeInv, CachesFollow
<1>2. CASE pc # "idle" /\ (OutsideCluster \/ CreateStep \/ DeleteStep)
  <2>1. req \in Names
    BY <1>2 DEF WakeInv, IInv, TypeOK
  <2>2. Alerts
    BY <1>2, <2>1, WorkerWakes DEF EndsAwake, EndsReady, GoesOn, StaysInside, Serves
  <2> QED
    BY <2>2 DEF Alerts, WakeInv, CachesFollow
<1>3. CASE Stirs
  BY <1>3 DEF Stirs
<1>4. CASE Restart
  BY <1>4, RestartFacts DEF CachesFollow
<1> QED
  BY <1>1, <1>2, <1>3, <1>4, StepCases

LEMMA WakeInit == StartOn(Labels) => WakeInv
<1> SUFFICES ASSUME StartOn(Labels) PROVE WakeInv
  OBVIOUS
<1>1. pc = "idle" /\ req = NoReq /\ CachesFollow
  BY DEF StartOn, CachesFollow
<1>2. \A n \in Names : ~Active(n)
  BY NoCRUid DEF StartOn, Active, Exists
<1> QED
  BY <1>1, <1>2, InitInv, StepsApart DEF WakeInv, WorkerInv, Placed, LateSteps, StatusSteps

LEMMA WakeNext == WakeInv /\ [ReconcilerNext]_vars => WakeInv'
<1> SUFFICES ASSUME WakeInv, [ReconcilerNext]_vars PROVE WakeInv'
  OBVIOUS
<1>1. IInv'
  BY NextInv DEF WakeInv
<1>2. CASE UNCHANGED vars
  <2>1. CachesFollow' /\ WorkerInv'
    BY <1>2 DEF WakeInv, CachesFollow, WorkerInv, vars, store, caches, control, worker
  <2>2. Placed'
    BY <1>2 DEF WakeInv, Placed, Active, Awake, Settled, vars, store, caches, control, worker
  <2> QED
    BY <1>1, <2>1, <2>2 DEF WakeInv
<1>3. CASE ReconcilerNext
  BY <1>1, <1>3, CachesStep, WorkerStep, PlacedStep DEF WakeInv
<1> QED
  BY <1>2, <1>3

LEMMA WakeInvariance == ReconcilerSpec => []WakeInv
  BY WakeInit, WakeNext, PTL DEF ReconcilerSpec

\* No wake-up is lost: the controller rests over an active driver only when that
\* driver is Ready, is not being deleted and its back-off is reset.
THEOREM ReconcilerRestsSettled == ReconcilerSpec => []RestsOnlyWith({})
<1>1. WakeInv => RestsOnlyWith({})
  BY DEF WakeInv, Placed, RestsOnlyWith, AtRest, Awake
<1> QED
  BY <1>1, WakeInvariance, PTL

-----------------------------------------------------------------------------
(***************************************************************************)
(* Objects                                                                 *)
(*                                                                         *)
(* In which order CreateCluster ensures its objects is up to a controller. *)
(* It has to show that an object is ensured once the outcome is Ready.     *)
(***************************************************************************)

\* An object that is looked up and created is ensured, unless Get or Create fails.
LEMMA EnsureEnsures ==
    ASSUME WakeInv, pc # "idle", NEW k \in Kinds, NEW kernels \in SUBSET Builds,
           NEW next, NEW exists, NEW failed, Ensure(k, kernels, next, exists, failed)
    PROVE  Ensured(k)' \/ (pc' \in {"Error", failed} /\ pc \in FaultyCalls)
<1>1. TypeOK /\ req \in Names /\ UNCHANGED req
  BY DEF WakeInv, IInv, TypeOK, Ensure, ReadFails, Goto
<1>2. CASE childCache[req][k] # 0 /\ Untouched
  BY <1>1, <1>2 DEF Untouched, store, caches, Ensured, WakeInv, CachesFollow
<1>3. CASE Built(k, kernels)
  BY <1>1, <1>3, BuiltAlerts DEF Ensured
<1>4. CASE ~Missing(k) /\ Untouched
  BY <1>1, <1>4 DEF Missing, Untouched, store, Ensured
<1>5. CASE (Goto("Error") \/ Goto(failed)) /\ Fault
  BY <1>5 DEF Goto, Fault
<1> QED
  BY <1>2, <1>3, <1>4, <1>5 DEF Ensure, ReadFails

\* It stays ensured for the rest of the reconciliation: if a user deletes it, the
\* driver is looked at again.
LEMMA EnsuredStays ==
    ASSUME WakeInv, ReconcilerNext, pc # "idle", pc' # "idle", NEW k \in Kinds, Ensured(k)
    PROVE  Ensured(k)'
<1>1. req \in Names
  BY DEF WakeInv, IInv, TypeOK
<1>2. CASE pc # "idle" /\ (OutsideCluster \/ CreateStep \/ DeleteStep)
  <2>1. Serves
    BY <1>1, <1>2, WorkerWakes DEF EndsAwake, EndsReady, GoesOn, StaysInside
  <2> QED
    BY <1>1, <2>1 DEF Serves, Alerts, Ensured
<1>3. CASE Stirs
  BY <1>1, <1>3 DEF Stirs, Ensured
<1> QED
  BY <1>2, <1>3, StepCases, TakesFacts, RestartFacts

\* A driver that is put down as Ready has every object that was ensured for it.
LEMMA PlacedWithStep ==
    ASSUME WakeInv, ReconcilerNext, NEW k \in Kinds, PlacedWith(k), pc = "Ready" => Ensured(k)
    PROVE  PlacedWith(k)'
<1> SUFFICES ASSUME NEW n \in Names, n # req', Active(n)', ~Awake(n)'
             PROVE  child'[n][k] # 0
  BY DEF PlacedWith
<1>1. CASE n = req
  <2>1. EndsReady(n)
    BY <1>1, PutDown
  <2> QED
    BY <1>1, <2>1 DEF EndsReady, Serves, Alerts, Awake, Ensured
<1>2. CASE n # req
  BY <1>2, StillAsleep DEF PlacedWith, Active
<1> QED
  BY <1>1, <1>2

LEMMA RestsPlaced ==
    ASSUME WakeInv, NEW R \in SUBSET Kinds, \A k \in R : PlacedWith(k)
    PROVE  RestsOnlyWith(R)
  BY DEF WakeInv, Placed, PlacedWith, RestsOnlyWith, AtRest, Awake

\* Where the steps of Reconcile outside CreateCluster and DeleteCluster lead.
LEMMA OutsideClusterGoes ==
    ASSUME WakeInv, OutsideCluster
    PROVE  pc' \in {"idle", "CreateCluster", "DeleteDevicePlugin"} \cup StartSteps
<1> USE DEF StartSteps
<1>1. efa \in Driver /\ crCache \in [Names -> Driver]
  BY DEF WakeInv, IInv, TypeOK
<1>2. ASSUME NEW n \in Names, TakeNothing(n) \/ Take(n)
      PROVE  pc' \in {"idle", "CreateCluster", "DeleteDevicePlugin"} \cup StartSteps
  BY <1>1, <1>2, BranchSteps DEF TakeNothing, Take, At, NextStep, worker
<1>3. ASSUME NEW d, UpdateErr(d) PROVE pc' = "idle"
  BY <1>3 DEF UpdateErr, ReturnErr, Idle
<1>4. CASE AddFinalizer
  <2> DEFINE d == [efa EXCEPT !.fin = TRUE]
  <2>1. d \in Driver
    BY <1>1 DEF Driver
  <2>2. Branch(d) \in {"MarkDeleting", "DeleteDevicePlugin", "ResetError", "CreateCluster"}
    BY <2>1, BranchSteps
  <2>3. UpdateErr(d) \/ Goto(IF ~d.del /\ d.cond = "" THEN "FirstStatus" ELSE Branch(d))
    BY <1>4 DEF AddFinalizer
  <2> HIDE DEF d
  <2> QED
    BY <1>3, <2>2, <2>3 DEF Goto
<1>5. CASE FirstStatus \/ ResetError \/ MarkDeleting
  BY <1>3, <1>5 DEF FirstStatus, ResetError, MarkDeleting, SetStatus, Goto
<1>6. CASE Ignore \/ RemoveFinalizer \/ RecordOutcome
  BY <1>3, <1>6, ReturnIdle DEF Ignore, RemoveFinalizer, RecordOutcome, Idle
<1> QED
  BY <1>2, <1>4, <1>5, <1>6 DEF OutsideCluster

-----------------------------------------------------------------------------
(***************************************************************************)
(* Nodes and kernel mappings                                               *)
(***************************************************************************)

\* No step but a change of the nodes touches their labels, or counts as one.
LEMMA NodesKept ==
    ASSUME TypeOK,
           \/ OutsideCluster \/ CreateStep \/ DeleteStep
           \/ User \/ Watch \/ Collects \/ Restart
    PROVE  UNCHANGED node /\ used'.nodeChanges = used.nodeChanges
<1>1. ASSUME NEW c \in Counters \ {"nodeChanges"}, NEW max, Spend(c, max)
      PROVE  used'.nodeChanges = used.nodeChanges
  BY <1>1 DEF Spend, TypeOK, Counters
<1>2. Fault \/ UNCHANGED used => used'.nodeChanges = used.nodeChanges
  BY <1>1 DEF Fault, Counters
<1>3. ASSUME NEW d, UpdateErr(d) \/ UpdateOk(d) \/ (Written(d) /\ UNCHANGED used)
      PROVE  UNCHANGED node /\ used'.nodeChanges = used.nodeChanges
  BY <1>2, <1>3 DEF UpdateErr, UpdateOk, Written, store
<1>4. CASE OutsideCluster
  <2>1. CASE \E n \in Names : TakeNothing(n) \/ Take(n)
    BY <2>1 DEF TakeNothing, Take, store
  <2>2. CASE RecordOutcome
    BY <1>3, <2>2 DEF RecordOutcome, store
  <2> QED
    BY <1>3, <1>4, <2>1, <2>2
       DEF OutsideCluster, Ignore, AddFinalizer, FirstStatus, MarkDeleting, ResetError,
           RemoveFinalizer, SetStatus
<1>5. CASE CreateStep
  BY <1>2, <1>5 DEF CreateStep, Ensure, Built, Untouched, LookAround, FailedLook, ReadFails, store
<1>6. CASE DeleteStep
  BY <1>2, <1>6 DEF DeleteStep, Remove, Skip, Cleared, Untouched, store
<1>7. CASE User
  BY <1>1, <1>7
     DEF User, UserCreates, UserDeletes, UserDeletesChild, Changed, Vanish, Cleared, Counters
<1>8. CASE Watch
  BY <1>8 DEF Watch, SyncDriver, SyncChild, TimerFires, Deliver, store
<1>9. CASE Collects
  BY <1>9 DEF Collects, CollectGarbage, Vanish, Cleared
<1>10. CASE Restart
  BY <1>1, <1>10 DEF Restart, store, Counters
<1> QED
  BY <1>4, <1>5, <1>6, <1>7, <1>8, <1>9, <1>10

\* Object k of driver n is there after a step as it was before.
SameObject(n, k) == child'[n][k] # 0 => child[n][k] # 0 /\ mapped'[n][k] = mapped[n][k]

LEMMA ClearedMaps ==
    ASSUME TypeOK, NEW n \in Names, NEW gone \in SUBSET Kinds, Cleared(n, gone)
    PROVE  \A m \in Names, k \in Kinds : SameObject(m, k)
<1>1. /\ child \in [Names -> [Kinds -> Nat]] /\ mapped \in [Names -> [Kinds -> SUBSET Builds]]
      /\ child' = [child EXCEPT ![n] = [k \in Kinds |-> IF k \in gone THEN 0 ELSE child[n][k]]]
      /\ mapped' = [mapped EXCEPT ![n] = [k \in Kinds |-> IF k \in gone THEN {} ELSE mapped[n][k]]]
  BY DEF TypeOK, Cleared
<1> QED
  BY <1>1 DEF SameObject

\* An object that CreateCluster has ensured has the mappings it was created with.
LEMMA EnsureMaps ==
    ASSUME TypeOK, pc # "idle", NEW j \in Kinds, NEW kernels \in SUBSET Builds,
           NEW next, NEW exists, NEW failed, Ensure(j, kernels, next, exists, failed),
           NEW n \in Names, NEW k \in Kinds
    PROVE  SameObject(n, k) \/ (n = req /\ k = j /\ mapped'[n][k] = kernels)
<1>1. req \in Names /\ mapped \in [Names -> [Kinds -> SUBSET Builds]]
  BY DEF TypeOK
<1>2. CASE Built(j, kernels)
  <2>1. <<n, k>> # <<req, j>> => child'[n][k] = child[n][k]
    BY <1>1, <1>2, BuiltFacts
  <2>2. mapped' = [mapped EXCEPT ![req][j] = kernels]
    BY <1>2 DEF Built
  <2> QED
    BY <1>1, <2>1, <2>2 DEF SameObject
<1>3. CASE Untouched
  BY <1>3 DEF Untouched, store, SameObject
<1> QED
  BY <1>2, <1>3 DEF Ensure, ReadFails

\* No step outside CreateCluster creates or changes an object.
LEMMA OtherMaps ==
    ASSUME TypeOK,
           \/ OutsideCluster \/ DeleteStep \/ User \/ Watch \/ Collects \/ NodeStep \/ Restart
    PROVE  \A n \in Names, k \in Kinds : SameObject(n, k)
<1>1. ASSUME UNCHANGED <<child, mapped>> PROVE \A n \in Names, k \in Kinds : SameObject(n, k)
  BY <1>1 DEF SameObject
<1>2. ASSUME NEW d, UpdateErr(d) \/ UpdateOk(d) \/ Written(d)
      PROVE  UNCHANGED <<child, mapped>>
  BY <1>2 DEF UpdateErr, UpdateOk, Written, store
<1>3. CASE OutsideCluster
  <2>1. CASE \E n \in Names : TakeNothing(n) \/ Take(n)
    BY <1>1, <2>1 DEF TakeNothing, Take, store
  <2>2. CASE RecordOutcome
    BY <1>1, <1>2, <2>2 DEF RecordOutcome, store
  <2>3. CASE \/ Ignore \/ AddFinalizer \/ FirstStatus \/ MarkDeleting \/ ResetError
             \/ RemoveFinalizer
    <3>1. UNCHANGED <<child, mapped>>
      BY <1>2, <2>3 DEF Ignore, AddFinalizer, FirstStatus, MarkDeleting, ResetError,
                        RemoveFinalizer, SetStatus
    <3> QED
      BY <1>1, <3>1
  <2> QED
    BY <1>3, <2>1, <2>2, <2>3 DEF OutsideCluster
<1>4. CASE DeleteStep
  <2>1. req \in Names
    BY <1>4, DeleteStepNames DEF DeleteStep, TypeOK
  <2>2. \A S \in SUBSET Kinds : Present(S) \in SUBSET Kinds
    BY DEF Present
  <2>3. Deletes \/ UNCHANGED <<child, mapped>>
    BY <1>4, <2>1, <2>2 DEF DeleteStep, Remove, Skip, Untouched, store, Deletes
  <2> QED
    BY <1>1, <2>3, ClearedMaps DEF Deletes
<1>5. CASE User \/ Collects
  <2>1. ASSUME NEW n \in Names, UserCreates(n) \/ UserDeletes(n) PROVE UNCHANGED <<child, mapped>>
    BY <2>1 DEF UserCreates, UserDeletes, Changed
  <2>2. ASSUME NEW n \in Names, NEW k \in Kinds, UserDeletesChild(n, k) \/ CollectGarbage(n, k)
        PROVE  Cleared(n, {k}) /\ {k} \in SUBSET Kinds
    BY <2>2 DEF UserDeletesChild, CollectGarbage, Vanish
  <2> QED
    BY <1>1, <1>5, <2>1, <2>2, ClearedMaps DEF User, Collects
<1>6. CASE Watch \/ NodeStep \/ Restart
  <2>1. UNCHANGED <<child, mapped>>
    BY <1>6 DEF Watch, SyncDriver, TimerFires, SyncChild, Deliver, NodeStep, SetNode, Restart, store
  <2> QED
    BY <1>1, <2>1
<1> QED
  BY <1>3, <1>4, <1>5, <1>6

-----------------------------------------------------------------------------
(***************************************************************************)
(* Ignored drivers                                                         *)
(***************************************************************************)

LEMMA IgnoredStays ==
    ASSUME WakeInv, [ReconcilerNext]_vars, NEW n \in Names,
           cr[n].cond = "Ignored", cr'[n].uid = cr[n].uid
    PROVE  cr'[n].cond = "Ignored"
<1>1. cr \in [Names -> Driver] /\ Sound(cr[n])
  BY DEF WakeInv, IInv, TypeOK, StoreInv
<1>2. cr[n].uid # 0
  BY <1>1, NoCRFacts DEF Sound
<1>3. CASE UNCHANGED cr
  BY <1>3
<1>4. CASE Writes
  <2>1. PICK d : Written(d)
    BY <1>4 DEF Writes
  <2>2. cr' = [cr EXCEPT ![req] = d] /\ efa = cr[req] /\ efa.cond # "Ignored"
    BY <1>4, <2>1 DEF Writes, Written, WakeInv, IInv, HandInv, WorkerInv
  <2>3. n # req
    BY <2>2
  <2> QED
    BY <1>1, <2>2, <2>3
<1>5. ASSUME NEW m \in Names, UserCreates(m) PROVE cr'[n].cond = "Ignored"
  <2>1. m # n
    BY <1>2, <1>5 DEF UserCreates, Exists
  <2> QED
    BY <1>1, <1>5, <2>1 DEF UserCreates, Changed
<1>6. ASSUME NEW m \in Names, UserDeletes(m) PROVE cr'[n].cond = "Ignored"
  <2>1. CASE m # n
    BY <1>1, <1>6, <2>1 DEF UserDeletes, Changed
  <2>2. CASE m = n
    <3>1. cr'[n] = IF cr[n].fin THEN [cr[n] EXCEPT !.del = TRUE] ELSE NoCR
      BY <1>1, <1>6, <2>2 DEF UserDeletes, Changed
    <3>2. cr[n].fin
      BY <1>2, <3>1, NoCRUid
    <3> QED
      BY <1>1, <3>1, <3>2 DEF Driver
  <2> QED
    BY <2>1, <2>2
<1>7. CASE Makes \/ Loses
  BY <1>7 DEF Makes, Loses, Cleared
<1>8. CASE ReconcilerNext
  <2>1. IInv
    BY DEF WakeInv
  <2>2. \/ Quiet \/ Writes \/ Makes \/ Loses
        \/ \E m \in Names : UserCreates(m) \/ UserDeletes(m)
    BY <1>8, <2>1, OutsideClusterKind, CreateStepKind, DeleteStepKind, EnvironmentKind
       DEF ReconcilerNext
  <2> QED
    BY <2>2, <1>3, <1>4, <1>5, <1>6, <1>7 DEF Quiet
<1>9. CASE UNCHANGED vars
  BY <1>3, <1>9 DEF vars, store
<1> QED
  BY <1>8, <1>9

\* An Ignored driver stays Ignored until it is removed: the worker's copy is never
\* Ignored, and the worker writes only when its copy is the stored driver.
THEOREM ReconcilerIgnoresForGood == ReconcilerSpec => IgnoredIsFinal
<1>1. WakeInv /\ [ReconcilerNext]_vars =>
        [\A n \in Names :
           cr[n].cond = "Ignored" /\ cr'[n].uid = cr[n].uid => cr'[n].cond = "Ignored"]_vars
  BY IgnoredStays
<1> QED
  BY <1>1, WakeInvariance, PTL DEF ReconcilerSpec, IgnoredIsFinal
=============================================================================
