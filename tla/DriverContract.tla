--------------------------- MODULE DriverContract ---------------------------
(***************************************************************************)
(* What a driver controller of ocp-efa-operator promises about the life of *)
(* its custom resources and of the objects it deploys for them, without    *)
(* caches, conditions, retries or restarts:                                *)
(*                                                                         *)
(*   - objects are built for a custom resource only while it holds the     *)
(*     operator's finalizer;                                               *)
(*   - a guarded resource that is deleted stays, doomed, until the         *)
(*     operator releases it;                                               *)
(*   - it is released only when nothing that loads a kernel module is left;*)
(*     what else is left has lost its owner and is collected.              *)
(***************************************************************************)
CONSTANTS
    Names,   \* names of custom resources
    Kinds,   \* kinds of objects deployed for one
    Pinned   \* the kinds that must be gone before it is released

VARIABLES
    phase,   \* phase[n]: how far the custom resource n is in its life
    owned,   \* owned[n]: the kinds of the objects that belong to it
    orphans  \* orphans[n]: the kinds of the objects a released resource n left

vars == <<phase, owned, orphans>>

Phases == {"absent", "open", "guarded", "doomed"}

TypeOK ==
    /\ phase \in [Names -> Phases]
    /\ owned \in [Names -> SUBSET Kinds]
    /\ orphans \in [Names -> SUBSET (Kinds \ Pinned)]

Init ==
    /\ phase = [n \in Names |-> "absent"]
    /\ owned = [n \in Names |-> {}]
    /\ orphans = [n \in Names |-> {}]

Move(n, from, to) == phase[n] = from /\ phase' = [phase EXCEPT ![n] = to]

Declare(n)  == Move(n, "absent", "open") /\ UNCHANGED <<owned, orphans>>
Guard(n)    == Move(n, "open", "guarded") /\ UNCHANGED <<owned, orphans>>
Withdraw(n) == /\ Move(n, "open", "absent") \/ Move(n, "guarded", "doomed")
               /\ UNCHANGED <<owned, orphans>>

Build(n, k) ==
    /\ phase[n] \in {"guarded", "doomed"}
    /\ k \notin owned[n] \cup orphans[n]
    /\ owned' = [owned EXCEPT ![n] = @ \cup {k}]
    /\ UNCHANGED <<phase, orphans>>

\* Objects are deleted, by the operator, by a user or by the collector.
Lose(n, gone) ==
    /\ gone \subseteq owned[n] \cup orphans[n]
    /\ owned' = [owned EXCEPT ![n] = @ \ gone]
    /\ orphans' = [orphans EXCEPT ![n] = @ \ gone]
    /\ UNCHANGED phase

Release(n) ==
    /\ Move(n, "doomed", "absent")
    /\ owned[n] \cap Pinned = {}
    /\ owned' = [owned EXCEPT ![n] = {}]
    /\ orphans' = [orphans EXCEPT ![n] = @ \cup owned[n]]

Next ==
    \/ \E n \in Names : Declare(n) \/ Guard(n) \/ Withdraw(n) \/ Release(n)
    \/ \E n \in Names, k \in Kinds : Build(n, k)
    \/ \E n \in Names, gone \in SUBSET Kinds : Lose(n, gone)

Spec == Init /\ [][Next]_vars
=============================================================================
