------------------------ MODULE DriverContract_proofs ------------------------
(***************************************************************************)
(* What follows from the contract of a driver controller.                  *)
(***************************************************************************)
EXTENDS DriverContract, TLAPS

\* Objects belong to a custom resource under its finalizer only, whether it is
\* being deleted or not.
OwnedAreGuarded == \A n \in Names : owned[n] # {} => phase[n] \in {"guarded", "doomed"}

Inv == TypeOK /\ OwnedAreGuarded

LEMMA ContractInvariance == Spec => []Inv
<1>1. Init => Inv
  BY DEF Init, Inv, TypeOK, OwnedAreGuarded, Phases
<1>2. Inv /\ [Next]_vars => Inv'
  <2> SUFFICES ASSUME Inv, [Next]_vars PROVE Inv'
    OBVIOUS
  <2> USE DEF Inv, TypeOK, OwnedAreGuarded, Phases
  <2>1. ASSUME NEW n \in Names, Declare(n) \/ Guard(n) \/ Withdraw(n) PROVE Inv'
    BY <2>1 DEF Declare, Guard, Withdraw, Move
  <2>2. ASSUME NEW n \in Names, Release(n) PROVE Inv'
    BY <2>2 DEF Release, Move
  <2>3. ASSUME NEW n \in Names, NEW k \in Kinds, Build(n, k) PROVE Inv'
    BY <2>3 DEF Build
  <2>4. ASSUME NEW n \in Names, NEW gone \in SUBSET Kinds, Lose(n, gone) PROVE Inv'
    BY <2>4 DEF Lose
  <2>5. CASE UNCHANGED vars
    BY <2>5 DEF vars
  <2> QED
    BY <2>1, <2>2, <2>3, <2>4, <2>5 DEF Next
<1> QED
  BY <1>1, <1>2, PTL DEF Spec

\* No kind that must be gone before a custom resource is released is ever left
\* without its owner.
THEOREM NothingPinnedOrphaned == Spec => [](\A n \in Names : orphans[n] \cap Pinned = {})
<1>1. Inv => \A n \in Names : orphans[n] \cap Pinned = {}
  BY DEF Inv, TypeOK
<1> QED
  BY <1>1, ContractInvariance, PTL
=============================================================================
