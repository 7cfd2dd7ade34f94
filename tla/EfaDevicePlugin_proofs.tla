----------------------- MODULE EfaDevicePlugin_proofs -----------------------
(***************************************************************************)
(* Proofs about EfaDevicePlugin, for every set of devices and every bound. *)
(***************************************************************************)
EXTENDS EfaDevicePlugin, TLAPS

-----------------------------------------------------------------------------
(***************************************************************************)
(* Type correctness                                                        *)
(***************************************************************************)

LEMMA SpendType ==
    ASSUME TypeOK, NEW c \in {"stops", "signals", "changes", "timeouts"}, NEW max \in Nat,
           Spend(c, max)
    PROVE  used' \in [{"stops", "signals", "changes", "timeouts"} -> Nat]
  BY DEF TypeOK, Spend

LEMMA InitType == Init => TypeOK
<1> SUFFICES ASSUME Init PROVE TypeOK
  OBVIOUS
<1>1. used \in [{"stops", "signals", "changes", "timeouts"} -> Nat]
  BY DEF Init
<1>2. pc \in PCs /\ lw = "none" /\ connected = FALSE /\ conn = FALSE /\ lost = FALSE
  BY DEF Init, PCs, Running
<1> QED
  BY <1>1, <1>2 DEF Init, TypeOK

\* A failing call of Serve.
LEMMA ExitType ==
    ASSUME TypeOK, Exit, UNCHANGED used \/ Spend("timeouts", MaxTimeouts)
    PROVE  TypeOK'
<1>1. used' \in [{"stops", "signals", "changes", "timeouts"} -> Nat]
  BY SpendType, DevicePluginAssumption DEF TypeOK
<1> QED
  BY <1>1 DEF TypeOK, Exit, EndServer, Disconnect, PCs, Running, Serving

LEMMA DpLoopType ==
    ASSUME TypeOK, DpLoop
    PROVE  TypeOK'
<1> USE DEF TypeOK, Goto, node, seen, stream, PCs, Running, Serving
<1>1. CASE Start
  BY <1>1 DEF Start
<1>2. CASE Stop
  BY <1>2 DEF Stop, EndServer, Disconnect
<1>3. CASE Listen
  BY <1>3 DEF Listen
<1>4. CASE DialSelf
  BY <1>4, ExitType DEF DialSelf, TimesOut
<1>5. CASE DialKubelet
  BY <1>5, ExitType DEF DialKubelet, TimesOut
<1>6. CASE Register /\ ~Exit
  BY <1>6 DEF Register, Connect, TimesOut
<1>7. CASE Register /\ Exit
  BY <1>7, ExitType DEF Register, Connect, TimesOut
<1>8. CASE SelectCreate
  BY <1>8 DEF SelectCreate
<1>9. CASE SelectHangup
  BY <1>9 DEF SelectHangup
<1>10. CASE SelectTerm
  BY <1>10 DEF SelectTerm, EndServer, Disconnect
<1> QED
  BY <1>1, <1>2, <1>3, <1>4, <1>5, <1>6, <1>7, <1>8, <1>9, <1>10 DEF DpLoop

LEMMA ListAndWatchType ==
    ASSUME TypeOK, ListAndWatch
    PROVE  TypeOK'
<1> USE DEF TypeOK, node, seen, loop
<1>1. CASE AddWatch
  BY <1>1 DEF AddWatch, Disconnect
<1>2. CASE Read
  BY <1>2 DEF Read, GetDevices
<1>3. CASE Send
  BY <1>3 DEF Send
<1> QED
  BY <1>1, <1>2, <1>3 DEF ListAndWatch

LEMMA NodeType ==
    ASSUME TypeOK, Node
    PROVE  TypeOK'
<1> USE DEF TypeOK, node, seen, loop, stream
<1>1. ASSUME NEW d \in Devices, DeviceChanges(d) PROVE TypeOK'
  <2>1. used' \in [{"stops", "signals", "changes", "timeouts"} -> Nat]
    BY <1>1, SpendType, DevicePluginAssumption DEF DeviceChanges
  <2> QED
    BY <1>1, <2>1 DEF DeviceChanges
<1>2. CASE KubeletStops
  <2>1. used' \in [{"stops", "signals", "changes", "timeouts"} -> Nat]
    BY <1>2, SpendType, DevicePluginAssumption DEF KubeletStops
  <2> QED
    BY <1>2, <2>1 DEF KubeletStops, Disconnect
<1>3. CASE KubeletWipes \/ KubeletListens
  BY <1>3 DEF KubeletWipes, KubeletListens
<1>4. ASSUME NEW s \in {"HUP", "TERM"}, Signal(s) PROVE TypeOK'
  <2>1. used' \in [{"stops", "signals", "changes", "timeouts"} -> Nat]
    BY <1>4, SpendType, DevicePluginAssumption DEF Signal
  <2> QED
    BY <1>4, <2>1 DEF Signal
<1>5. CASE ContainerRestarts
  BY <1>5 DEF ContainerRestarts, Goto, PCs, Running, Serving
<1> QED
  BY <1>1, <1>2, <1>3, <1>4, <1>5 DEF Node

\* Types, and with them: a server runs and a handler serves only within Serve
\* and the wait, and the kubelet is connected to no server but a running one.
THEOREM TypeCorrect == Spec => []TypeOK
<1>1. TypeOK /\ [Next]_vars => TypeOK'
  <2> SUFFICES ASSUME TypeOK, [Next]_vars PROVE TypeOK'
    OBVIOUS
  <2>1. CASE UNCHANGED vars
    BY <2>1 DEF vars, TypeOK, node, seen, loop, stream
  <2>2. CASE Next
    BY <2>2, DpLoopType, ListAndWatchType, NodeType DEF Next
  <2> QED
    BY <2>1, <2>2
<1> QED
  BY <1>1, InitType, PTL DEF Spec

-----------------------------------------------------------------------------
(***************************************************************************)
(* Registration                                                            *)
(*                                                                         *)
(* The plugin stays registered wherever a restart of the kubelet falls,    *)
(* with one exception: the handler returns when its directory is not       *)
(* there, which ends the connection.  The invariant is inductive together  *)
(* with the types, which say that the connection made by DialKubelet does  *)
(* not outlive the kubelet: one that stops and comes back before Register  *)
(* is not registered with by mistake, and one that comes back later leaves *)
(* a Create event.                                                         *)
(***************************************************************************)

KubeletInv ==
    pc = "Select" /\ created = 0 /\ kubelet = "up" =>
        socket = "mine" /\ (connected \/ (lw = "none" /\ ~DirAlways))

LEMMA KubeletStep ==
    ASSUME TypeOK, KubeletInv, [Next]_vars
    PROVE  KubeletInv'
<1> USE DEF TypeOK, KubeletInv, node, seen, loop, stream
<1>1. CASE Start \/ Stop \/ Listen
  BY <1>1 DEF Start, Stop, Listen, Goto
<1>2. CASE Exit
  BY <1>2 DEF Exit
<1>3. CASE (DialSelf \/ DialKubelet) /\ ~Exit
  BY <1>3 DEF DialSelf, DialKubelet, Goto, TimesOut
<1>4. CASE Register /\ ~Exit
  BY <1>4 DEF Register, Connect, Goto, TimesOut
<1>5. CASE SelectCreate \/ SelectHangup \/ SelectTerm
  BY <1>5 DEF SelectCreate, SelectHangup, SelectTerm
<1>6. CASE ListAndWatch
  BY <1>6 DEF ListAndWatch, AddWatch, DirExists, Read, Send
<1>7. ASSUME NEW d \in Devices, DeviceChanges(d) PROVE KubeletInv'
  BY <1>7 DEF DeviceChanges
<1>8. CASE KubeletStops \/ KubeletWipes
  BY <1>8 DEF KubeletStops, KubeletWipes
<1>9. CASE KubeletListens
  BY <1>9 DEF KubeletListens, Running, Serving
<1>10. ASSUME NEW s \in {"HUP", "TERM"}, Signal(s) PROVE KubeletInv'
  BY <1>10 DEF Signal
<1>11. CASE ContainerRestarts
  BY <1>11 DEF ContainerRestarts, Goto
<1>12. CASE UNCHANGED vars
  BY <1>12 DEF vars
<1> QED
  BY <1>1, <1>2, <1>3, <1>4, <1>5, <1>6, <1>7, <1>8, <1>9, <1>10, <1>11, <1>12
     DEF Next, DpLoop, Node

LEMMA KubeletInvariance == Spec => []KubeletInv
<1>1. Init => KubeletInv
  BY DEF Init, KubeletInv
<1>2. TypeOK /\ KubeletInv /\ [Next]_vars => KubeletInv'
  BY KubeletStep
<1> QED
  BY <1>1, <1>2, TypeCorrect, PTL DEF Spec

\* On any node, no restart of the kubelet is missed as long as the handler runs,
\* wherever dpLoop is when it happens.
THEOREM RegisteredWhileHandled == Spec => [](lw # "none" => RegisteredWhenQuiet)
<1>1. KubeletInv => (lw # "none" => RegisteredWhenQuiet)
  BY DEF KubeletInv, RegisteredWhenQuiet
<1> QED
  BY <1>1, KubeletInvariance, PTL

\* On a node that always has the device directory, none is missed at all.
THEOREM RegistrationKept ==
    ASSUME DirAlways
    PROVE  Spec => []RegisteredWhenQuiet
<1>1. KubeletInv => RegisteredWhenQuiet
  BY DEF KubeletInv, RegisteredWhenQuiet
<1> QED
  BY <1>1, KubeletInvariance, PTL

-----------------------------------------------------------------------------
(***************************************************************************)
(* Reports                                                                 *)
(*                                                                         *)
(* What the handler is about to send is outdated only if an event waits in *)
(* its watcher, because the watch comes before the first look at the       *)
(* directory, or if the directory went away under the watch.               *)
(***************************************************************************)

ReportInv ==
    /\ DirAlways => ~lost
    /\ ~lost /\ lw = "Send" /\ changes = 0 => devs = devices
    /\ ~lost => ReportIsCurrent

LEMMA ReportStep ==
    ASSUME TypeOK, ReportInv, [Next]_vars
    PROVE  ReportInv'
<1> USE DEF TypeOK, ReportInv, ReportIsCurrent, node, seen, loop, stream
<1>1. CASE Start \/ Stop \/ Listen
  BY <1>1 DEF Start, Stop, Listen, EndServer
<1>2. CASE Exit
  BY <1>2 DEF Exit, EndServer
<1>3. CASE (DialSelf \/ DialKubelet) /\ ~Exit
  BY <1>3 DEF DialSelf, DialKubelet, TimesOut
<1>4. CASE Register /\ ~Exit
  BY <1>4 DEF Register, Connect, TimesOut
<1>5. CASE SelectCreate \/ SelectHangup \/ SelectTerm
  BY <1>5 DEF SelectCreate, SelectHangup, SelectTerm, EndServer
<1>6. CASE AddWatch
  BY <1>6 DEF AddWatch, DirExists
<1>7. CASE Read
  BY <1>7 DEF Read, GetDevices
<1>8. CASE Send
  BY <1>8 DEF Send
<1>9. ASSUME NEW d \in Devices, DeviceChanges(d) PROVE ReportInv'
  BY <1>9 DEF DeviceChanges, Watching, DirExists
<1>10. CASE KubeletStops \/ KubeletWipes \/ KubeletListens
  BY <1>10 DEF KubeletStops, KubeletWipes, KubeletListens, Disconnect
<1>11. ASSUME NEW s \in {"HUP", "TERM"}, Signal(s) PROVE ReportInv'
  BY <1>11 DEF Signal
<1>12. CASE ContainerRestarts
  BY <1>12 DEF ContainerRestarts
<1>13. CASE UNCHANGED vars
  BY <1>13 DEF vars
<1> QED
  BY <1>1, <1>2, <1>3, <1>4, <1>5, <1>6, <1>7, <1>8, <1>9, <1>10, <1>11, <1>12, <1>13
     DEF Next, DpLoop, ListAndWatch, Node

LEMMA ReportInvariance == Spec => []ReportInv
<1>1. Init => ReportInv
  BY DEF Init, ReportInv, ReportIsCurrent
<1>2. TypeOK /\ ReportInv /\ [Next]_vars => ReportInv'
  BY ReportStep
<1> QED
  BY <1>1, <1>2, TypeCorrect, PTL DEF Spec

\* On any node, a handler that has seen every event has reported the devices the
\* node has, unless the directory has gone since it began to watch.
THEOREM ReportsAreCurrentUntilLost == Spec => [](~lost => ReportIsCurrent)
<1>1. ReportInv => (~lost => ReportIsCurrent)
  BY DEF ReportInv
<1> QED
  BY <1>1, ReportInvariance, PTL

\* On a node that always has the device directory, it always has.
THEOREM ReportsAreCurrent ==
    ASSUME DirAlways
    PROVE  Spec => []ReportIsCurrent
<1>1. ReportInv => ReportIsCurrent
  BY DEF ReportInv
<1> QED
  BY <1>1, ReportInvariance, PTL
=============================================================================
