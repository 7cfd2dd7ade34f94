-------------------- MODULE DriverReconciler_refinement --------------------
(***************************************************************************)
(* Proof that every controller built on DriverReconciler implements        *)
(* DriverContract: each step that writes a driver or one of its objects is *)
(* a step of the contract, and every other step is a stutter.              *)
(***************************************************************************)
EXTENDS DriverReconciler_proofs

-----------------------------------------------------------------------------
(***************************************************************************)
(* What the steps do to the stored drivers and their objects            *)
(***************************************************************************)

Quiet == UNCHANGED <<cr, child>>

\* A write of the worker that reaches the API server.
Writes ==
    /\ pc # "idle" /\ UNCHANGED child
    /\ \E d \in Driver : Written(d) /\ (Advances(d) \/ Drops(d))

\* An object is created, or objects go.
Makes == Creates /\ UNCHANGED cr
Loses == \E n \in Names, gone \in SUBSET Kinds :
             Cleared(n, gone) /\ \A k \in gone : child[n][k] # 0

LEMMA WriteKind ==
    ASSUME pc # "idle", NEW d \in Driver, UpdateErr(d) \/ UpdateOk(d) \/ Written(d),
           fresh => Advances(d) \/ Drops(d)
    PROVE  Quiet \/ Writes
  BY DEF UpdateErr, UpdateOk, Written, Quiet, Writes, store

LEMMA ConditionKind ==
    ASSUME IInv, pc # "idle", NEW c \in Conditions, c = "Deleting" => efa.del,
           UpdateErr(SetCondition(c)) \/ UpdateOk(SetCondition(c)) \/ Written(SetCondition(c))
    PROVE  Quiet \/ Writes
  BY SetConditionAdvances, WriteKind

LEMMA CreateStepKind ==
    ASSUME CreateStep
    PROVE  Quiet \/ Makes
  BY DEF CreateStep, Ensure, LookAround, FailedLook, ReadFails, Creates, Makes, Built, Untouched, store, Quiet

LEMMA DeleteStepKind ==
    ASSUME IInv, DeleteStep
    PROVE  Quiet \/ Loses
<1>1. req \in Names
  BY DeleteStepNames DEF DeleteStep, IInv, TypeOK
<1>2. \A S \in SUBSET Kinds : Present(S) \subseteq Kinds /\ \A k \in Present(S) : child[req][k] # 0
  BY DEF Present, Missing
<1> QED
  BY <1>1, <1>2 DEF DeleteStep, Remove, Skip, Untouched, store, Quiet, Loses

LEMMA AddFinalizerKind ==
    ASSUME IInv, AddFinalizer
    PROVE  Quiet \/ Writes
<1> DEFINE d == [efa EXCEPT !.fin = TRUE]
<1>1. pc # "idle" /\ efa \in Driver /\ efa.uid # 0 /\ Sound(efa)
  BY DEF IInv, TypeOK, HandInv, Copy, AddFinalizer, At
<1>2. d \in Driver /\ d.uid = efa.uid /\ d.del = efa.del /\ d.cond = efa.cond /\ d.fin
  BY <1>1 DEF Driver
<1>3. Advances(d)
  BY <1>1, <1>2 DEF Advances, Sound
<1>4. UpdateErr(d) \/ UpdateOk(d)
  BY DEF AddFinalizer
<1> HIDE DEF d
<1> QED
  BY <1>1, <1>2, <1>3, <1>4, WriteKind

LEMMA RemoveFinalizerKind ==
    ASSUME IInv, RemoveFinalizer
    PROVE  Quiet \/ Writes
<1>1. pc = "RemoveFinalizer" /\ pc # "idle"
  BY DEF RemoveFinalizer, At
<1>2. Drops(NoCR)
  BY <1>1 DEF IInv, HandInv, Drops, TearSteps, DeleteSteps, LateTears, LastTears
<1> QED
  BY <1>1, <1>2, NoCRType, WriteKind DEF RemoveFinalizer

\* Every step of Reconcile outside CreateCluster and DeleteCluster.
LEMMA OutsideClusterKind ==
    ASSUME IInv, OutsideCluster
    PROVE  Quiet \/ Writes
<1> USE DEF At
<1>1. CASE \E n \in Names : TakeNothing(n) \/ Take(n)
  BY <1>1 DEF TakeNothing, Take, store, Quiet
<1>2. CASE Ignore \/ FirstStatus \/ ResetError
  BY <1>2, ConditionKind DEF Ignore, FirstStatus, ResetError, SetStatus, Conditions
<1>3. CASE MarkDeleting
  <2>1. efa.del /\ pc # "idle"
    BY <1>3 DEF IInv, HandInv, MarkDeleting, TearSteps
  <2> QED
    BY <1>3, <2>1, ConditionKind DEF MarkDeleting, SetStatus, Conditions
<1>4. CASE AddFinalizer \/ RemoveFinalizer
  BY <1>4, AddFinalizerKind, RemoveFinalizerKind
<1>5. CASE RecordOutcome
  <2>1. pc # "idle" /\ pc \in Conditions /\ pc # "Deleting"
    BY <1>5 DEF RecordOutcome, StatusSteps, Conditions
  <2> QED
    BY <1>5, <2>1, ConditionKind DEF RecordOutcome, Quiet, store
<1> QED
  BY <1>1, <1>2, <1>3, <1>4, <1>5 DEF OutsideCluster

\* Every step of the rest of the cluster.
LEMMA EnvironmentKind ==
    ASSUME User \/ Watch \/ Collects \/ NodeStep \/ Restart
    PROVE  \/ Quiet \/ Loses
           \/ \E n \in Names : UserCreates(n) \/ UserDeletes(n)
<1>1. ASSUME NEW n \in Names, NEW k \in Kinds, UserDeletesChild(n, k) \/ CollectGarbage(n, k)
      PROVE  Loses
  <2>1. Cleared(n, {k}) /\ {k} \in SUBSET Kinds /\ \A j \in {k} : child[n][j] # 0
    BY <1>1 DEF UserDeletesChild, CollectGarbage, Vanish
  <2> QED
    BY <2>1 DEF Loses
<1>2. CASE Watch
  BY <1>2 DEF Watch, SyncDriver, TimerFires, SyncChild, Deliver, store, Quiet
<1>3. CASE NodeStep
  BY <1>3 DEF NodeStep, SetNode, Quiet
<1>4. CASE Restart
  BY <1>4 DEF Restart, store, Quiet
<1> QED
  BY <1>1, <1>2, <1>3, <1>4 DEF User, Collects

-----------------------------------------------------------------------------
(***************************************************************************)
(* Each kind of step is a step of the contract                             *)
(***************************************************************************)

\* The refinement mapping.
owned   == [n \in Names |-> {k \in Kinds : child[n][k] # 0 /\ child[n][k] = cr[n].uid}]
orphans == [n \in Names |-> {k \in Kinds : child[n][k] # 0 /\ child[n][k] # cr[n].uid}]
phase   == [n \in Names |-> Phase(cr[n])]

LEMMA MapsAreFunctions ==
    /\ owned = [n \in Names |-> owned[n]] /\ owned' = [n \in Names |-> owned'[n]]
    /\ orphans = [n \in Names |-> orphans[n]] /\ orphans' = [n \in Names |-> orphans'[n]]
  BY DEF owned, orphans

LEMMA QuietStep ==
    ASSUME Quiet
    PROVE  UNCHANGED Contract!vars
  BY DEF Quiet, Contract!vars, Phase, Exists

\* Objects are built for the stored driver, under its finalizer.
LEMMA MakesStep ==
    ASSUME IInv, Makes
    PROVE  \E n \in Names, k \in Kinds : Contract!Build(n, k)
<1>1. /\ req \in Names /\ child \in [Names -> [Kinds -> Nat]] /\ UNCHANGED cr
      /\ efa \in Driver /\ cr[req] \in Driver /\ pc \in BuildSteps /\ pc # "idle" /\ TypeOK
  BY StepNames DEF IInv, TypeOK, Makes, Creates, BuildSteps, BuildingSteps, CreateSteps
<1>2. PICK k \in Kinds, kernels \in SUBSET Builds : Built(k, kernels)
  BY DEF Makes, Creates
<1>3. efa.uid # 0 /\ efa.fin /\ ~efa.del /\ Copy(efa, cr[req])
  BY <1>1 DEF IInv, HandInv
<1>4. efa.uid = cr[req].uid /\ cr[req].fin
  BY <1>1, <1>3 DEF Copy, Older, Alive
<1>5. /\ child[req][k] = 0 /\ child'[req][k] = cr[req].uid
      /\ \A m \in Names, j \in Kinds : <<m, j>> # <<req, k>> => child'[m][j] = child[m][j]
  BY <1>1, <1>2, <1>4, BuiltFacts
<1>6. /\ owned' = [owned EXCEPT ![req] = @ \cup {k}] /\ UNCHANGED orphans /\ UNCHANGED phase
      /\ k \notin owned[req] \cup orphans[req]
  <2>1. UNCHANGED phase
    BY <1>1 DEF phase, Phase, Exists
  <2>2. \A m \in Names, j \in Kinds :
            child'[m][j] = IF m = req /\ j = k THEN cr[req].uid ELSE child[m][j]
    BY <1>5
  <2>3. cr[req].uid # 0
    BY <1>3, <1>4
  <2>4. /\ owned'[req] = owned[req] \cup {k} /\ orphans'[req] = orphans[req]
        /\ k \notin owned[req] \cup orphans[req]
    BY <1>1, <1>5, <2>2, <2>3 DEF owned, orphans
  <2>5. \A m \in Names : m # req => owned'[m] = owned[m] /\ orphans'[m] = orphans[m]
    BY <1>1, <2>2 DEF owned, orphans
  <2> QED
    BY <1>1, <2>1, <2>4, <2>5, MapsAreFunctions
<1>7. phase[req] \in {"guarded", "doomed"}
  BY <1>1, <1>3, <1>4 DEF phase, Phase, Exists
<1> QED
  BY <1>1, <1>6, <1>7 DEF Contract!Build, owned, orphans, phase

\* Objects go.
LEMMA LosesStep ==
    ASSUME IInv, Loses
    PROVE  \E n \in Names, gone \in SUBSET Kinds : Contract!Lose(n, gone)
<1>1. PICK n \in Names, gone \in SUBSET Kinds :
          Cleared(n, gone) /\ \A k \in gone : child[n][k] # 0
  BY DEF Loses
<1>2. child \in [Names -> [Kinds -> Nat]] /\ TypeOK /\ gone \in SUBSET Kinds
  BY DEF IInv, TypeOK
<1>3. /\ UNCHANGED cr /\ \A k \in Kinds : child'[n][k] = IF k \in gone THEN 0 ELSE child[n][k]
      /\ \A m \in Names \ {n} : child'[m] = child[m]
  BY <1>1, <1>2, ClearedFacts
<1>4. /\ owned' = [owned EXCEPT ![n] = @ \ gone] /\ orphans' = [orphans EXCEPT ![n] = @ \ gone]
      /\ gone \subseteq owned[n] \cup orphans[n]
  <2>1. /\ owned'[n] = owned[n] \ gone /\ orphans'[n] = orphans[n] \ gone
        /\ gone \subseteq owned[n] \cup orphans[n]
    BY <1>1, <1>2, <1>3 DEF owned, orphans
  <2>2. \A m \in Names : m # n => owned'[m] = owned[m] /\ orphans'[m] = orphans[m]
    BY <1>2, <1>3 DEF owned, orphans
  <2> QED
    BY <2>1, <2>2, MapsAreFunctions
<1>5. UNCHANGED phase
  BY <1>3 DEF phase, Phase, Exists
<1> QED
  BY <1>2, <1>4, <1>5 DEF Contract!Lose, owned, orphans, phase

\* What a change of one driver does to its phase; the others keep theirs.
LEMMA PhaseChange ==
    ASSUME TypeOK, NEW n \in Names, NEW d \in Driver, cr' = [cr EXCEPT ![n] = d]
    PROVE  phase' = [phase EXCEPT ![n] = Phase(d)]
<1>1. \A m \in Names : cr'[m] = IF m = n THEN d ELSE cr[m]
  BY DEF TypeOK
<1> QED
  BY <1>1 DEF phase, Phase, Exists

\* A change of a driver that leaves its objects to the same owner.
LEMMA SameOwner ==
    ASSUME TypeOK, NEW n \in Names, NEW d \in Driver, cr' = [cr EXCEPT ![n] = d], UNCHANGED child,
           \A k \in Kinds : child[n][k] # 0 => (child[n][k] = d.uid <=> child[n][k] = cr[n].uid)
    PROVE  UNCHANGED <<owned, orphans>>
<1>1. \A m \in Names : cr'[m] = IF m = n THEN d ELSE cr[m]
  BY DEF TypeOK
<1>2. \A m \in Names, k \in Kinds :
          child[m][k] # 0 => (child[m][k] = cr'[m].uid <=> child[m][k] = cr[m].uid)
  BY <1>1
<1> QED
  BY <1>2 DEF owned, orphans

\* The worker adds the finalizer, changes the condition, or releases the driver.
LEMMA WritesStep ==
    ASSUME IInv, Writes
    PROVE  \/ \E n \in Names : Contract!Guard(n) \/ Contract!Release(n)
           \/ UNCHANGED Contract!vars
<1>1. PICK d \in Driver : Written(d) /\ (Advances(d) \/ Drops(d))
  BY DEF Writes
<1>2. /\ TypeOK /\ req \in Names /\ cr \in [Names -> Driver] /\ UNCHANGED child
      /\ child \in [Names -> [Kinds -> Nat]]
  BY DEF IInv, TypeOK, Writes
<1>3. efa = cr[req] /\ efa.uid # 0 /\ cr' = [cr EXCEPT ![req] = d] /\ Sound(cr[req])
  BY <1>1, <1>2 DEF IInv, HandInv, StoreInv, Written, Writes
<1>4. phase' = [phase EXCEPT ![req] = Phase(d)]
  BY <1>2, <1>3, PhaseChange
<1>5. CASE Advances(d)
  <2>1. d.uid = cr[req].uid /\ d.del = cr[req].del /\ (cr[req].fin => d.fin) /\ d.uid # 0
    BY <1>3, <1>5 DEF Advances
  <2>2. UNCHANGED <<owned, orphans>>
    BY <1>2, <1>3, <2>1, SameOwner
  <2>3. CASE Phase(d) = Phase(cr[req])
    <3>1. UNCHANGED phase
      BY <1>2, <1>4, <2>3 DEF phase
    <3> QED
      BY <2>2, <3>1 DEF Contract!vars, owned, orphans, phase
  <2>4. CASE Phase(d) # Phase(cr[req])
    <3>1. Phase(cr[req]) = "open" /\ Phase(d) = "guarded"
      BY <1>3, <2>1, <2>4 DEF Phase, Exists, Sound
    <3>2. Contract!Guard(req)
      BY <1>2, <1>4, <2>2, <3>1 DEF Contract!Guard, Contract!Move, owned, orphans, phase
    <3> QED
      BY <1>2, <3>2
  <2> QED
    BY <2>3, <2>4
<1>6. CASE Drops(d)
  <2>1. d.uid = 0 /\ cr[req].del /\ cr[req].fin /\ \A k \in Modules \cup Dockerfiles : child[req][k] = 0
    BY <1>3, <1>6, NoCRUid DEF Drops, Sound
  <2>2. Phase(cr[req]) = "doomed" /\ Phase(d) = "absent"
    BY <1>3, <2>1 DEF Phase, Exists
  <2>3. \A m \in Names : cr'[m] = IF m = req THEN d ELSE cr[m]
    BY <1>2, <1>3
  <2>4. /\ owned' = [owned EXCEPT ![req] = {}]
        /\ orphans' = [orphans EXCEPT ![req] = @ \cup owned[req]]
    <3>1. owned'[req] = {} /\ orphans'[req] = orphans[req] \cup owned[req]
      BY <1>2, <2>1, <2>3 DEF owned, orphans
    <3>2. \A m \in Names : m # req => owned'[m] = owned[m] /\ orphans'[m] = orphans[m]
      BY <1>2, <2>3 DEF owned, orphans
    <3> QED
      BY <1>2, <3>1, <3>2, MapsAreFunctions
  <2>5. owned[req] \cap (Modules \cup Dockerfiles) = {}
    BY <1>2, <2>1 DEF owned
  <2>6. ASSUME NEW n \in Names, n = req PROVE Contract!Release(n)
    BY <1>2, <1>4, <2>2, <2>4, <2>5, <2>6 DEF Contract!Release, Contract!Move, owned, orphans, phase
  <2>7. \E n \in Names : Contract!Guard(n) \/ Contract!Release(n)
    BY <1>2, <2>6
  <2> QED
    BY <2>7
<1> QED
  BY <1>1, <1>5, <1>6

\* A user creates a driver, whose uid no object carries yet, or deletes one.
LEMMA UserStep ==
    ASSUME IInv, NEW n \in Names, UserCreates(n) \/ UserDeletes(n)
    PROVE  Contract!Declare(n) \/ Contract!Withdraw(n)
<1>1. /\ TypeOK /\ cr[n] \in Driver /\ used.born \in Nat
      /\ child \in [Names -> [Kinds -> Nat]] /\ Sound(cr[n])
      /\ \A k \in Kinds : child[n][k] <= used.born
  BY BornType DEF IInv, TypeOK, StoreInv
<1>2. CASE UserCreates(n)
  <2> DEFINE d == [NoCR EXCEPT !.uid = used.born + 1]
  <2>1. d \in Driver /\ d.uid = used.born + 1
    BY <1>1, NoCRType DEF Driver
  <2>0. ~d.fin
    BY NoCRType, NoCRFacts DEF Driver
  <2>2. cr' = [cr EXCEPT ![n] = d] /\ UNCHANGED child /\ cr[n].uid = 0
    BY <1>2 DEF UserCreates, Changed, Exists
  <2> HIDE DEF d
  <2>3. phase' = [phase EXCEPT ![n] = Phase(d)]
    BY <1>1, <2>1, <2>2, PhaseChange
  <2>4. \A k \in Kinds : child[n][k] # 0 => child[n][k] # d.uid /\ child[n][k] # cr[n].uid
    BY <1>1, <2>1, <2>2
  <2>5. UNCHANGED <<owned, orphans>>
    BY <1>1, <2>1, <2>2, <2>4, SameOwner
  <2>6. d.uid # 0
    BY <1>1, <2>1
  <2>7. Phase(cr[n]) = "absent" /\ Phase(d) = "open"
    BY <2>0, <2>2, <2>6 DEF Phase, Exists
  <2> QED
    BY <2>3, <2>5, <2>7 DEF Contract!Declare, Contract!Move, owned, orphans, phase
<1>3. CASE UserDeletes(n)
  <2> DEFINE d == IF cr[n].fin THEN [cr[n] EXCEPT !.del = TRUE] ELSE NoCR
  <2>1. cr' = [cr EXCEPT ![n] = d] /\ UNCHANGED child /\ cr[n].uid # 0 /\ ~cr[n].del
    BY <1>3 DEF UserDeletes, Changed, Exists
  <2>2. CASE cr[n].fin
    <3>1. d \in Driver /\ d.uid = cr[n].uid /\ d.del /\ d.fin
      BY <1>1, <2>2 DEF Driver
    <3> HIDE DEF d
    <3>2. phase' = [phase EXCEPT ![n] = Phase(d)] /\ UNCHANGED <<owned, orphans>>
      BY <1>1, <2>1, <3>1, PhaseChange, SameOwner
    <3>3. Phase(cr[n]) = "guarded" /\ Phase(d) = "doomed"
      BY <2>1, <2>2, <3>1 DEF Phase, Exists
    <3> QED
      BY <3>2, <3>3 DEF Contract!Withdraw, Contract!Move, owned, orphans, phase
  <2>3. CASE ~cr[n].fin
    <3>1. d \in Driver /\ d.uid = 0
      BY <2>3, NoCRType, NoCRUid
    <3> HIDE DEF d
    <3>2. \A k \in Kinds : child[n][k] # 0 => child[n][k] # cr[n].uid
      BY <2>3 DEF IInv, FinalizerGuards
    <3>3. phase' = [phase EXCEPT ![n] = Phase(d)] /\ UNCHANGED <<owned, orphans>>
      BY <1>1, <2>1, <3>1, <3>2, PhaseChange, SameOwner
    <3>4. Phase(cr[n]) = "open" /\ Phase(d) = "absent"
      BY <2>1, <2>3, <3>1 DEF Phase, Exists
    <3> QED
      BY <3>3, <3>4 DEF Contract!Withdraw, Contract!Move, owned, orphans, phase
  <2> QED
    BY <2>2, <2>3
<1> QED
  BY <1>2, <1>3

LEMMA ContractStep == IInv /\ [ReconcilerNext]_vars => [Contract!Next]_(Contract!vars)
<1> SUFFICES ASSUME IInv, [ReconcilerNext]_vars PROVE Contract!Next \/ UNCHANGED Contract!vars
  OBVIOUS
<1>1. CASE UNCHANGED vars
  BY <1>1, QuietStep DEF vars, store, Quiet
<1>2. CASE ReconcilerNext
  <2>1. \/ Quiet \/ Writes \/ Makes \/ Loses
        \/ \E n \in Names : UserCreates(n) \/ UserDeletes(n)
    BY <1>2, OutsideClusterKind, CreateStepKind, DeleteStepKind, EnvironmentKind DEF ReconcilerNext
  <2> QED
    BY <2>1, QuietStep, WritesStep, MakesStep, LosesStep, UserStep DEF Contract!Next
<1> QED
  BY <1>1, <1>2

LEMMA ContractInit == StartOn(Labels) => Contract!Init
<1> SUFFICES ASSUME StartOn(Labels) PROVE Contract!Init
  OBVIOUS
<1>1. \A n \in Names : cr[n].uid = 0 /\ \A k \in Kinds : child[n][k] = 0
  BY NoCRUid DEF StartOn
<1> QED
  BY <1>1 DEF Contract!Init, Phase, Exists

\* A controller built on DriverReconciler, with its caches, its retries and its
\* restarts, implements the ownership protocol of DriverContract.
THEOREM ReconcilerKeepsContract == ReconcilerSpec => KeepsContract
  BY ContractInit, ContractStep, Invariance, PTL DEF ReconcilerSpec, KeepsContract, Contract!Spec
=============================================================================
