----------------------- MODULE GdrdrvDevicePlugin_proofs -----------------------
(***************************************************************************)
(* Proofs about GdrdrvDevicePlugin, for any number of processes on a node, *)
(* any major numbers and any bounds.                                       *)
(***************************************************************************)
EXTENDS GdrdrvDevicePlugin, TLAPS

-----------------------------------------------------------------------------
(***************************************************************************)
(* Type correctness                                                        *)
(***************************************************************************)

\* The parts of TypeOK, by what the actions change together.
NodeType   == major \in Majors \cup {0} /\ file \in Majors \cup {0} /\ maker \in Pods \cup {NoPod}
UsedType   == unclean \in BOOLEAN /\ loads \in Nat /\ faults \in Nat
PcType     == pc \in [Pods -> PCs]
ReadType   == /\ read \in [Pods -> Majors \cup {0}]
              /\ \A p \in Pods : pc[p] = "Mknod" => read[p] # 0
MemoryType == /\ createdDevFile \in [Pods -> BOOLEAN]
              /\ created \in [Pods -> BOOLEAN]
              /\ sigChan \in [Pods -> {"none", "HUP", "TERM"}]
              /\ deleted \subseteq Pods
SocketType == /\ socket \in Pods \cup {"none", "stale"}
              /\ socket \in Pods => pc[socket] \in Serving
ClientType == /\ client \in Pods \cup {NoPod}
              /\ client # NoPod => pc[client] \in Serving
StreamType == /\ view \in BOOLEAN
              /\ lw \in {"none", "Read", "Send", "Wait"} /\ found \in BOOLEAN /\ changes \in Nat
              /\ client = NoPod => ~view /\ lw = "none"

LEMMA TypeParts ==
    TypeOK <=> /\ NodeType /\ UsedType /\ PcType /\ ReadType /\ MemoryType
               /\ SocketType /\ ClientType /\ StreamType
  BY DEF TypeOK, NodeType, UsedType, PcType, ReadType, MemoryType, SocketType,
         ClientType, StreamType

LEMMA InitType == Init => TypeOK
<1> SUFFICES ASSUME Init PROVE TypeOK
  OBVIOUS
<1>1. NodeType /\ UsedType /\ PcType /\ ReadType
  BY DEF Init, NodeType, UsedType, PcType, ReadType, PCs, Running, Committed
<1>2. MemoryType /\ SocketType /\ ClientType /\ StreamType
  BY GdrdrvDevicePluginAssumption
     DEF Init, MemoryType, SocketType, ClientType, StreamType
<1> QED
  BY <1>1, <1>2, TypeParts

\* The counters.
LEMMA UsedInvariance ==
    ASSUME UsedType, [Next]_vars
    PROVE  UsedType'
<1>1. CASE UNCHANGED used
  BY <1>1 DEF UsedType, used
<1>2. CASE Fault \/ Unclean
  <2>1. loads' \in Nat /\ faults' \in Nat
    BY <1>2 DEF UsedType, Fault, Unclean
  <2>2. unclean' \in BOOLEAN
    BY <1>2, Zenon DEF UsedType, Fault, Unclean
  <2> QED
    BY <2>1, <2>2 DEF UsedType
<1>3. CASE \E m \in Majors : Load(m)
  BY <1>3 DEF UsedType, Load
<1>4. ASSUME NEW p \in Pods, Main(p)
      PROVE  UNCHANGED used \/ Fault
  BY <1>4 DEF Main, GetGdrdrvMajor, WaitInterrupted, CreateGdrDrv, CreateFails, DeleteGdrDrv,
              AddWatch, Listen, Register, ServeFails, SelectCreate, SelectHangup, SelectTerm, Stop
<1>5. ASSUME ListAndWatch
      PROVE  UNCHANGED used
  BY <1>5 DEF ListAndWatch, Read, Send
<1>6. ASSUME Node
      PROVE  UNCHANGED used \/ Fault \/ Unclean \/ \E m \in Majors : Load(m)
  BY <1>6 DEF Node, Unload, KubeletRestarts, Start, Signal, Delete, Kill
<1> QED
  BY <1>1, <1>2, <1>3, <1>4, <1>5, <1>6 DEF Next, vars

\* A server that ends.
LEMMA EndServerType ==
    ASSUME ClientType, StreamType, NEW p \in Pods, EndServer(p)
    PROVE  /\ client' \in Pods \cup {NoPod} /\ client' # p
           /\ client' # NoPod => client' = client
           /\ StreamType'
<1>1. CASE client = p
  <2>1. client' = NoPod /\ lw' = "none" /\ changes' = 0
    BY <1>1 DEF EndServer, Disconnect
  <2>2. view' = FALSE /\ found' = FALSE
    BY <1>1, Zenon DEF EndServer, Disconnect
  <2> QED
    BY <2>1, <2>2, GdrdrvDevicePluginAssumption DEF StreamType
<1>2. CASE client # p
  BY <1>2 DEF ClientType, StreamType, EndServer, stream
<1> QED
  BY <1>1, <1>2

LEMMA MainType ==
    ASSUME TypeOK, NEW p \in Pods, Main(p)
    PROVE  NodeType' /\ PcType' /\ ReadType' /\ MemoryType' /\ SocketType' /\ ClientType' /\ StreamType'
<1> USE TypeParts, GdrdrvDevicePluginAssumption
<1> USE DEF Goto, End, node, kubelet, stream, PCs, Running, Committed, Watching, Serving
<1>1. CASE GetGdrdrvMajor(p)
  <2>1. NodeType' /\ PcType' /\ ReadType' /\ MemoryType'
    BY <1>1 DEF GetGdrdrvMajor, NodeType, PcType, ReadType, MemoryType
  <2>2. SocketType' /\ ClientType' /\ StreamType'
    BY <1>1 DEF GetGdrdrvMajor, PcType, SocketType, ClientType, StreamType
  <2> QED
    BY <2>1, <2>2
<1>2. CASE WaitInterrupted(p)
  <2>1. NodeType' /\ PcType' /\ ReadType' /\ MemoryType'
    BY <1>2 DEF WaitInterrupted, NodeType, PcType, ReadType, MemoryType
  <2>2. SocketType' /\ ClientType' /\ StreamType'
    BY <1>2 DEF WaitInterrupted, PcType, SocketType, ClientType, StreamType
  <2> QED
    BY <2>1, <2>2
<1>3. CASE CreateGdrDrv(p)
  <2>1. NodeType' /\ PcType' /\ ReadType' /\ MemoryType'
    BY <1>3 DEF CreateGdrDrv, NodeType, PcType, ReadType, MemoryType
  <2>2. SocketType' /\ ClientType' /\ StreamType'
    BY <1>3 DEF CreateGdrDrv, FileEvent, PcType, SocketType, ClientType, StreamType
  <2> QED
    BY <2>1, <2>2
<1>4. CASE CreateFails(p)
  <2>1. NodeType' /\ PcType' /\ ReadType' /\ MemoryType'
    BY <1>4 DEF CreateFails, NodeType, PcType, ReadType, MemoryType
  <2>2. SocketType' /\ ClientType' /\ StreamType'
    BY <1>4 DEF CreateFails, PcType, SocketType, ClientType, StreamType
  <2> QED
    BY <2>1, <2>2
<1>5. CASE AddWatch(p)
  <2>1. NodeType' /\ PcType' /\ ReadType' /\ MemoryType'
    BY <1>5 DEF AddWatch, NodeType, PcType, ReadType, MemoryType
  <2>2. SocketType' /\ ClientType' /\ StreamType'
    BY <1>5 DEF AddWatch, PcType, SocketType, ClientType, StreamType
  <2> QED
    BY <2>1, <2>2
<1>6. CASE Listen(p)
  <2>1. NodeType' /\ PcType' /\ ReadType' /\ MemoryType'
    BY <1>6 DEF Listen, NodeType, PcType, ReadType, MemoryType
  <2>2. SocketType' /\ ClientType' /\ StreamType'
    BY <1>6 DEF Listen, PcType, SocketType, ClientType, StreamType
  <2> QED
    BY <2>1, <2>2
<1>7. CASE Register(p)
  <2>1. NodeType' /\ PcType' /\ ReadType' /\ MemoryType'
    BY <1>7 DEF Register, NodeType, PcType, ReadType, MemoryType
  <2>2. SocketType' /\ ClientType' /\ StreamType'
    BY <1>7 DEF Register, PcType, SocketType, ClientType, StreamType
  <2> QED
    BY <2>1, <2>2
<1>8. CASE ServeFails(p)
  <2>1. NodeType' /\ PcType' /\ ReadType' /\ MemoryType'
    BY <1>8 DEF ServeFails, NodeType, PcType, ReadType, MemoryType
  <2>2. SocketType' /\ ClientType' /\ StreamType'
    BY <1>8, EndServerType DEF ServeFails, AbandonServer, PcType, SocketType, ClientType
  <2> QED
    BY <2>1, <2>2
<1>9. CASE SelectCreate(p)
  <2>1. NodeType' /\ PcType' /\ ReadType' /\ MemoryType'
    BY <1>9 DEF SelectCreate, NodeType, PcType, ReadType, MemoryType
  <2>2. SocketType' /\ ClientType' /\ StreamType'
    BY <1>9 DEF SelectCreate, PcType, SocketType, ClientType, StreamType
  <2> QED
    BY <2>1, <2>2
<1>10. CASE SelectHangup(p)
  <2>1. NodeType' /\ PcType' /\ ReadType' /\ MemoryType'
    BY <1>10 DEF SelectHangup, NodeType, PcType, ReadType, MemoryType
  <2>2. SocketType' /\ ClientType' /\ StreamType'
    BY <1>10 DEF SelectHangup, PcType, SocketType, ClientType, StreamType
  <2> QED
    BY <2>1, <2>2
<1>11. CASE SelectTerm(p)
  <2>1. NodeType' /\ PcType' /\ ReadType' /\ MemoryType'
    BY <1>11 DEF SelectTerm, NodeType, PcType, ReadType, MemoryType
  <2>2. SocketType' /\ ClientType' /\ StreamType'
    BY <1>11, EndServerType DEF SelectTerm, StopServer, PcType, SocketType, ClientType
  <2> QED
    BY <2>1, <2>2
<1>12. CASE Stop(p)
  <2>1. NodeType' /\ PcType' /\ ReadType' /\ MemoryType'
    BY <1>12 DEF Stop, NodeType, PcType, ReadType, MemoryType
  <2>2. SocketType' /\ ClientType' /\ StreamType'
    BY <1>12, EndServerType DEF Stop, StopServer, PcType, SocketType, ClientType
  <2> QED
    BY <2>1, <2>2
<1>13. CASE DeleteGdrDrv(p)
  <2>1. NodeType' /\ PcType' /\ ReadType' /\ MemoryType'
    BY <1>13 DEF DeleteGdrDrv, NodeType, PcType, ReadType, MemoryType
  <2>2. SocketType' /\ ClientType' /\ StreamType'
    BY <1>13 DEF DeleteGdrDrv, FileEvent, PcType, SocketType, ClientType, StreamType
  <2> QED
    BY <2>1, <2>2
<1> QED
  BY <1>1, <1>2, <1>3, <1>4, <1>5, <1>6, <1>7, <1>8, <1>9, <1>10, <1>11, <1>12, <1>13
  DEF Main

LEMMA ListAndWatchType ==
    ASSUME TypeOK, ListAndWatch
    PROVE  NodeType' /\ PcType' /\ ReadType' /\ MemoryType' /\ SocketType' /\ ClientType' /\ StreamType'
<1> USE TypeParts
<1>1. UNCHANGED <<node, socket, client, deleted, process>>
  BY DEF ListAndWatch, Read, Send, kubelet
<1>2. NodeType' /\ PcType' /\ ReadType' /\ MemoryType' /\ SocketType' /\ ClientType'
  BY <1>1 DEF node, process, NodeType, PcType, ReadType, MemoryType, SocketType, ClientType
<1>3. client' # NoPod
  BY DEF ListAndWatch, Read, Send, StreamType, kubelet
<1>4. CASE Read
  <2>1. found' \in BOOLEAN
    BY <1>4, Zenon DEF Read, GetDevices
  <2>2. client' = client /\ lw' = "Send" /\ changes' \in Nat
    BY <1>4 DEF Read, kubelet, StreamType
  <2>3. view' = view
    BY <1>4 DEF Read, kubelet
  <2>4. view' \in BOOLEAN
    BY <2>3, Zenon DEF StreamType
  <2> QED
    BY <1>2, <1>3, <2>1, <2>2, <2>4, Zenon DEF StreamType
<1>5. CASE Send
  <2>1. view' \in BOOLEAN
    BY <1>5, Zenon DEF Send, StreamType
  <2>2. client' = client /\ lw' = "Wait" /\ changes' \in Nat
    BY <1>5 DEF Send, StreamType
  <2>3. found' \in BOOLEAN
    BY <1>5, Zenon DEF Send, StreamType
  <2> QED
    BY <1>2, <1>3, <2>1, <2>2, <2>3, Zenon DEF StreamType
<1> QED
  BY <1>2, <1>4, <1>5 DEF ListAndWatch

LEMMA NodeActionsType ==
    ASSUME TypeOK, Node
    PROVE  NodeType' /\ PcType' /\ ReadType' /\ MemoryType' /\ SocketType' /\ ClientType' /\ StreamType'
<1> USE TypeParts, GdrdrvDevicePluginAssumption
<1> USE DEF Goto, End, Receive, node, kubelet, stream, process, PCs, Running, Committed, Watching,
            Serving
<1>1. ASSUME NEW m \in Majors, Load(m)
      PROVE  NodeType' /\ PcType' /\ ReadType' /\ MemoryType' /\ SocketType' /\ ClientType' /\ StreamType'
  BY <1>1 DEF Load, NodeType, PcType, ReadType, MemoryType, SocketType, ClientType, StreamType
<1>2. CASE Unload
  BY <1>2 DEF Unload, NodeType, PcType, ReadType, MemoryType, SocketType, ClientType, StreamType
<1>3. CASE KubeletRestarts
  <2>1. NodeType' /\ PcType' /\ ReadType' /\ MemoryType'
    BY <1>3 DEF KubeletRestarts, NodeType, PcType, ReadType, MemoryType
  <2>2. SocketType' /\ ClientType' /\ StreamType'
    BY <1>3 DEF KubeletRestarts, Disconnect, SocketType, ClientType, StreamType
  <2> QED
    BY <2>1, <2>2
<1>4. ASSUME NEW p \in Pods, Start(p)
      PROVE  NodeType' /\ PcType' /\ ReadType' /\ MemoryType' /\ SocketType' /\ ClientType' /\ StreamType'
  BY <1>4 DEF Start, NodeType, PcType, ReadType, MemoryType, SocketType, ClientType, StreamType
<1>5. ASSUME NEW p \in Pods, NEW s \in {"HUP", "TERM"}, Signal(p, s)
      PROVE  NodeType' /\ PcType' /\ ReadType' /\ MemoryType' /\ SocketType' /\ ClientType' /\ StreamType'
  BY <1>5 DEF Signal, NodeType, PcType, ReadType, MemoryType, SocketType, ClientType, StreamType
<1>6. ASSUME NEW p \in Pods, Delete(p)
      PROVE  NodeType' /\ PcType' /\ ReadType' /\ MemoryType' /\ SocketType' /\ ClientType' /\ StreamType'
  BY <1>6 DEF Delete, NodeType, PcType, ReadType, MemoryType, SocketType, ClientType, StreamType
<1>7. ASSUME NEW p \in Pods, Kill(p)
      PROVE  NodeType' /\ PcType' /\ ReadType' /\ MemoryType' /\ SocketType' /\ ClientType' /\ StreamType'
  <2>1. NodeType' /\ PcType' /\ ReadType' /\ MemoryType'
    BY <1>7 DEF Kill, NodeType, PcType, ReadType, MemoryType
  <2>2. SocketType' /\ ClientType' /\ StreamType'
    BY <1>7, EndServerType DEF Kill, AbandonServer, PcType, SocketType, ClientType
  <2> QED
    BY <2>1, <2>2
<1> QED
  BY <1>1, <1>2, <1>3, <1>4, <1>5, <1>6, <1>7 DEF Node

LEMMA TypeInvariance ==
    ASSUME TypeOK, [Next]_vars
    PROVE  TypeOK'
<1>1. UsedType'
  BY TypeParts, UsedInvariance
<1>2. CASE UNCHANGED vars
  BY <1>2 DEF TypeOK, vars, node, kubelet, stream, process, used
<1>3. CASE Next
  <2>1. NodeType' /\ PcType' /\ ReadType' /\ MemoryType' /\ SocketType' /\ ClientType' /\ StreamType'
    BY <1>3, MainType, ListAndWatchType, NodeActionsType DEF Next
  <2> QED
    BY <1>1, <2>1 DEF TypeOK, NodeType, UsedType, PcType, ReadType, MemoryType, SocketType,
                      ClientType, StreamType
<1> QED
  BY <1>2, <1>3

\* Every reachable state of the GDRDRV plugins is well-typed: a socket in place and a
\* connection of the kubelet always belong to a process that still serves.
THEOREM GdrdrvPluginTypeCorrect == Spec => []TypeOK
  BY InitType, TypeInvariance, PTL DEF Spec

-----------------------------------------------------------------------------
(***************************************************************************)
(* The device file                                                         *)
(*                                                                         *)
(* FileHasOneOwner is inductive once the owner is known to be past Mknod,  *)
(* where a failure ends it without a look at the file.  FileIsFresh rests  *)
(* on more: as long as nothing unclean happened, whoever has read a major  *)
(* number has read the one of the loaded module, and a file has an owner.  *)
(***************************************************************************)

Owned == /\ FileHasOneOwner
         /\ maker # NoPod => pc[maker] # "Mknod"

Current == ~unclean => /\ \A p \in Pods : pc[p] \in Committed => read[p] = major /\ major # 0
                       /\ file # 0 => file = major /\ maker # NoPod

LEMMA InitOwned == Init => Owned /\ Current
  BY GdrdrvDevicePluginAssumption DEF Init, Owned, FileHasOneOwner, Current, Committed, Watching, Serving

\* What a process does that neither makes nor removes the file nor ends.
LEMMA OwnedKept ==
    ASSUME TypeOK, Owned, NEW p \in Pods, UNCHANGED <<file, maker, createdDevFile>>,
           NEW step \in Committed \ {"Mknod"}, pc' = pc \/ pc' = [pc EXCEPT ![p] = step]
    PROVE  Owned'
  BY DEF TypeOK, Owned, FileHasOneOwner, Committed

\* A process that ends without the file.
LEMMA OwnedAtEnd ==
    ASSUME TypeOK, Owned, NEW p \in Pods, End(p), maker # p, UNCHANGED <<file, maker>>
    PROVE  Owned'
  BY DEF TypeOK, Owned, FileHasOneOwner, End, Goto

LEMMA MainOwned ==
    ASSUME TypeOK, Owned, NEW p \in Pods, Main(p)
    PROVE  Owned'
<1> USE DEF node
<1>1. CASE GetGdrdrvMajor(p)
  <2>1. maker # p
    BY <1>1, GdrdrvDevicePluginAssumption
       DEF GetGdrdrvMajor, Owned, FileHasOneOwner, Committed, Watching, Serving
  <2> QED
    BY <1>1, <2>1 DEF GetGdrdrvMajor, Goto, TypeOK, Owned, FileHasOneOwner
<1>2. CASE WaitInterrupted(p)
  <2>1. maker # p
    BY <1>2, GdrdrvDevicePluginAssumption
       DEF WaitInterrupted, Owned, FileHasOneOwner, Committed, Watching, Serving
  <2> QED
    BY <1>2, <2>1, OwnedAtEnd DEF WaitInterrupted
<1>3. CASE CreateGdrDrv(p)
  <2>1. CASE file # 0
    BY <1>3, <2>1, OwnedKept DEF CreateGdrDrv, Goto, Committed
  <2>2. CASE file = 0
    <3>1. \A q \in Pods : ~createdDevFile[q]
      BY <2>2, GdrdrvDevicePluginAssumption DEF Owned, FileHasOneOwner
    <3>2. /\ file' # 0 /\ maker' = p /\ pc'[p] = "Watch"
      BY <1>3, <2>2 DEF CreateGdrDrv, Goto, TypeOK
    <3>3. \A q \in Pods : createdDevFile'[q] <=> q = p
      BY <1>3, <2>2, <3>1 DEF CreateGdrDrv, TypeOK
    <3> QED
      BY <3>2, <3>3 DEF Owned, FileHasOneOwner, Committed
  <2> QED
    BY <2>1, <2>2
<1>4. CASE CreateFails(p)
  <2>1. maker # p
    BY <1>4, GdrdrvDevicePluginAssumption DEF CreateFails, Owned, FileHasOneOwner, Committed,
                                                Watching, Serving
  <2> QED
    BY <1>4, <2>1, OwnedAtEnd DEF CreateFails
<1>5. CASE DeleteGdrDrv(p)
  <2>1. CASE maker = p
    <3>1. maker' = NoPod
      BY <1>5, <2>1, GdrdrvDevicePluginAssumption DEF DeleteGdrDrv, Owned, FileHasOneOwner
    <3>2. \A q \in Pods : ~createdDevFile'[q]
      BY <1>5, <2>1 DEF DeleteGdrDrv, End, TypeOK, Owned, FileHasOneOwner
    <3> QED
      BY <3>1, <3>2, GdrdrvDevicePluginAssumption DEF Owned, FileHasOneOwner
  <2>2. CASE maker # p
    <3>1. UNCHANGED <<file, maker>> /\ End(p)
      BY <1>5, <2>2 DEF DeleteGdrDrv, Owned, FileHasOneOwner
    <3> QED
      BY <2>2, <3>1, OwnedAtEnd
  <2> QED
    BY <2>1, <2>2
<1>6. ASSUME AddWatch(p) \/ Listen(p) \/ Register(p) \/ ServeFails(p) \/ SelectCreate(p)
             \/ SelectHangup(p) \/ SelectTerm(p) \/ Stop(p)
      PROVE  Owned'
  <2>1. /\ UNCHANGED <<file, maker, createdDevFile>>
        /\ \E step \in {"Listen", "Register", "Select", "Unlink", "Stop"} : Goto(p, step)
    BY <1>6 DEF AddWatch, Listen, Register, ServeFails, SelectCreate, SelectHangup, SelectTerm, Stop
  <2> QED
    BY <2>1, OwnedKept DEF Goto, Committed, Watching, Serving
<1> QED
  BY <1>1, <1>2, <1>3, <1>4, <1>5, <1>6 DEF Main

LEMMA NodeOwned ==
    ASSUME TypeOK, Owned, Node
    PROVE  Owned'
<1>1. ASSUME UNCHANGED <<file, maker, createdDevFile, pc>>
      PROVE  Owned'
  BY <1>1 DEF Owned, FileHasOneOwner
<1>2. ASSUME \/ \E m \in Majors : Load(m)
             \/ Unload \/ KubeletRestarts
             \/ \E p \in Pods : Delete(p) \/ \E s \in {"HUP", "TERM"} : Signal(p, s)
      PROVE  UNCHANGED <<file, maker, createdDevFile, pc>>
  BY <1>2 DEF Load, Unload, KubeletRestarts, Delete, Signal, node, process
<1>3. ASSUME NEW p \in Pods, Start(p)
      PROVE  Owned'
  <2>1. maker # p
    BY <1>3, GdrdrvDevicePluginAssumption DEF Start, Owned, FileHasOneOwner, Committed, Watching, Serving
  <2> QED
    BY <1>3, <2>1 DEF Start, Goto, node, TypeOK, Owned, FileHasOneOwner
<1>4. ASSUME NEW p \in Pods, Kill(p)
      PROVE  Owned'
  <2>1. CASE maker = p
    <3>1. maker' = NoPod
      BY <1>4, <2>1 DEF Kill
    <3>2. \A q \in Pods : ~createdDevFile'[q]
      BY <1>4, <2>1 DEF Kill, End, TypeOK, Owned, FileHasOneOwner
    <3> QED
      BY <3>1, <3>2, GdrdrvDevicePluginAssumption DEF Owned, FileHasOneOwner
  <2>2. CASE maker # p
    BY <1>4, <2>2, OwnedAtEnd DEF Kill
  <2> QED
    BY <2>1, <2>2
<1> QED
  BY <1>1, <1>2, <1>3, <1>4 DEF Node

LEMMA OwnedInvariance ==
    ASSUME TypeOK, Owned, [Next]_vars
    PROVE  Owned'
<1>1. CASE UNCHANGED vars \/ ListAndWatch
  <2>1. UNCHANGED <<file, maker, createdDevFile, pc>>
    BY <1>1 DEF ListAndWatch, Read, Send, vars, node, process
  <2> QED
    BY <2>1 DEF Owned, FileHasOneOwner
<1> QED
  BY <1>1, MainOwned, NodeOwned DEF Next

\* Steps after which nothing unclean has happened, if nothing had before.
LEMMA CurrentKept ==
    ASSUME TypeOK, Current, NEW p \in Pods, UNCHANGED <<major, file, maker, unclean>>,
           \/ UNCHANGED <<read, pc>>
           \/ \E step \in Committed : /\ pc[p] \in Committed
                                     /\ read' = read /\ Goto(p, step)
           \/ \E step \in PCs \ Committed : Goto(p, step) /\ \A q \in Pods \ {p} : read'[q] = read[q]
    PROVE  Current'
  BY DEF TypeOK, Current, Goto

LEMMA MainCurrent ==
    ASSUME TypeOK, Owned, Current, NEW p \in Pods, Main(p)
    PROVE  Current'
<1> USE DEF node
<1>1. UNCHANGED <<major, unclean>>
  BY DEF Main, GetGdrdrvMajor, WaitInterrupted, CreateGdrDrv, CreateFails, DeleteGdrDrv, AddWatch,
         Listen, Register, ServeFails, SelectCreate, SelectHangup, SelectTerm, Stop, used, Fault
<1>2. CASE GetGdrdrvMajor(p)
  BY <1>1, <1>2 DEF GetGdrdrvMajor, Goto, TypeOK, Current
<1>3. CASE WaitInterrupted(p) \/ CreateFails(p)
  <2>1. UNCHANGED <<file, maker>> /\ Goto(p, "off") /\ \A q \in Pods \ {p} : read'[q] = read[q]
    BY <1>3 DEF WaitInterrupted, CreateFails, End, TypeOK
  <2> QED
    BY <1>1, <2>1, CurrentKept DEF PCs, Committed, Watching, Serving
<1>4. CASE CreateGdrDrv(p)
  <2>1. pc[p] \in Committed /\ read' = read /\ Goto(p, "Watch") /\ "Watch" \in Committed
    BY <1>4 DEF CreateGdrDrv, Committed
  <2>2. CASE file # 0
    BY <1>1, <1>4, <2>1, <2>2, CurrentKept DEF CreateGdrDrv
  <2>3. CASE file = 0
    <3>1. file' = read[p] /\ maker' = p
      BY <1>4, <2>3 DEF CreateGdrDrv
    <3> QED
      BY <1>1, <2>1, <3>1, GdrdrvDevicePluginAssumption DEF Goto, TypeOK, Current
  <2> QED
    BY <2>2, <2>3
<1>5. CASE DeleteGdrDrv(p)
  <2>1. Goto(p, "off") /\ \A q \in Pods \ {p} : read'[q] = read[q]
    BY <1>5 DEF DeleteGdrDrv, End, TypeOK
  <2>2. UNCHANGED <<file, maker>> \/ file' = 0
    BY <1>5 DEF DeleteGdrDrv
  <2> QED
    BY <1>1, <2>1, <2>2 DEF Goto, TypeOK, Current, Committed, Watching, Serving
<1>6. ASSUME AddWatch(p) \/ Listen(p) \/ Register(p) \/ ServeFails(p) \/ SelectCreate(p)
             \/ SelectHangup(p) \/ SelectTerm(p) \/ Stop(p)
      PROVE  Current'
  <2>1. /\ UNCHANGED <<file, maker, read>> /\ pc[p] \in Committed
        /\ \E step \in {"Listen", "Register", "Select", "Unlink", "Stop"} : Goto(p, step)
    BY <1>6 DEF AddWatch, Listen, Register, ServeFails, SelectCreate, SelectHangup, SelectTerm, Stop,
                Committed, Watching, Serving
  <2> QED
    BY <1>1, <2>1, CurrentKept DEF Committed, Watching, Serving
<1> QED
  BY <1>2, <1>3, <1>4, <1>5, <1>6 DEF Main

LEMMA NodeCurrent ==
    ASSUME TypeOK, Owned, Current, Node
    PROVE  Current'
<1> USE DEF node, process, used
<1>1. ASSUME NEW m \in Majors, Load(m)
      PROVE  Current'
  <2>1. ~unclean => /\ \A p \in Pods : pc[p] \notin Committed
                    /\ file = 0
    BY <1>1, GdrdrvDevicePluginAssumption DEF Load, Current
  <2> QED
    BY <1>1, <2>1 DEF Load, Current
<1>2. CASE Unload
  <2>1. CASE unclean'
    BY <2>1 DEF Current
  <2>2. CASE ~unclean'
    <3>1. ~unclean /\ UNCHANGED <<file, maker, read, pc>> /\ \A p \in Pods : pc[p] \notin Committed
      BY <1>2, <2>2 DEF Unload, Unclean
    <3>2. file = 0
      BY <3>1 DEF TypeOK, Current, Owned, FileHasOneOwner
    <3> QED
      BY <3>1, <3>2 DEF Current
  <2> QED
    BY <2>1, <2>2
<1>3. CASE KubeletRestarts
  BY <1>3 DEF KubeletRestarts, Fault, Current
<1>4. ASSUME NEW p \in Pods, Start(p)
      PROVE  Current'
  <2>1. UNCHANGED <<major, file, maker, unclean, read>> /\ Goto(p, "Wait")
    BY <1>4 DEF Start
  <2> QED
    BY <2>1, CurrentKept DEF PCs, Running, Committed, Watching, Serving
<1>5. ASSUME NEW p \in Pods, Delete(p) \/ \E s \in {"HUP", "TERM"} : Signal(p, s)
      PROVE  Current'
  BY <1>5 DEF Delete, Signal, Fault, Current
<1>6. ASSUME NEW p \in Pods, Kill(p)
      PROVE  Current'
  BY <1>6 DEF Kill, Unclean, Current
<1> QED
  BY <1>1, <1>2, <1>3, <1>4, <1>5, <1>6 DEF Node

LEMMA CurrentInvariance ==
    ASSUME TypeOK, Owned, Current, [Next]_vars
    PROVE  Current'
<1>1. CASE UNCHANGED vars \/ ListAndWatch
  <2>1. UNCHANGED <<major, file, maker, unclean, read, pc>>
    BY <1>1 DEF ListAndWatch, Read, Send, vars, node, process, used
  <2> QED
    BY <2>1 DEF Current
<1> QED
  BY <1>1, MainCurrent, NodeCurrent DEF Next

LEMMA OwnedAlways == Spec => [](Owned /\ Current)
<1>1. Init => Owned /\ Current
  BY InitOwned
<1>2. TypeOK /\ Owned /\ Current /\ [Next]_vars => (Owned /\ Current)'
  BY OwnedInvariance, CurrentInvariance
<1> QED
  BY <1>1, <1>2, GdrdrvPluginTypeCorrect, PTL DEF Spec

\* However many plugin processes overlap, at most one takes the device file for its own,
\* and it made it: none removes the file of another, none that ends leaves its own.
THEOREM OneOwner == Spec => []FileHasOneOwner
<1>1. Owned => FileHasOneOwner
  BY DEF Owned
<1> QED
  BY <1>1, OwnedAlways, PTL

\* Without kills and without unloads under a working process, the file always has the
\* major number of the loaded module.
THEOREM FileStaysFresh == Spec => []FileIsFresh
<1>1. Current => FileIsFresh
  BY DEF Current, FileIsFresh
<1> QED
  BY <1>1, OwnedAlways, PTL

-----------------------------------------------------------------------------
(***************************************************************************)
(* Reports                                                                 *)
(*                                                                         *)
(* What the handler is about to send is outdated only if an event of the   *)
(* file waits in its watcher, whichever process made or removed the file.  *)
(***************************************************************************)

ReportInv == /\ lw = "Send" /\ changes = 0 => found = (file # 0)
             /\ ReportIsCurrent

\* The handler runs on and nothing it looks at changes, or it ends.
LEMMA ReportKept ==
    ASSUME ReportInv, UNCHANGED <<file, view, stream>> \/ lw' \in {"none", "Read"}
    PROVE  ReportInv'
  BY DEF ReportInv, ReportIsCurrent, stream

\* A file that is made or removed is an event in the watcher of the handler.
LEMMA ReportEvent ==
    ASSUME TypeOK, ReportInv, FileEvent, UNCHANGED lw
    PROVE  ReportInv'
<1>1. lw \in {"Send", "Wait"} => changes' # 0
  BY DEF TypeOK, FileEvent
<1> QED
  BY <1>1 DEF ReportInv, ReportIsCurrent

LEMMA ServerEnds ==
    ASSUME NEW p \in Pods, EndServer(p)
    PROVE  UNCHANGED <<view, stream>> \/ lw' = "none"
  BY DEF EndServer, Disconnect

LEMMA MainReports ==
    ASSUME TypeOK, ReportInv, NEW p \in Pods, Main(p)
    PROVE  ReportInv'
<1> USE DEF node, kubelet
<1>1. CASE \/ GetGdrdrvMajor(p) \/ WaitInterrupted(p) \/ CreateFails(p) \/ AddWatch(p)
           \/ Listen(p) \/ SelectCreate(p) \/ SelectHangup(p)
  <2>1. UNCHANGED <<file, view, stream>>
    BY <1>1 DEF GetGdrdrvMajor, WaitInterrupted, CreateFails, AddWatch, Listen, SelectCreate,
                SelectHangup
  <2> QED
    BY <2>1, ReportKept
<1>2. CASE CreateGdrDrv(p)
  <2>1. UNCHANGED <<view, lw, found>> /\ (FileEvent \/ UNCHANGED <<file, changes>>)
    BY <1>2 DEF CreateGdrDrv
  <2> QED
    BY <2>1, ReportEvent, ReportKept DEF stream
<1>3. CASE DeleteGdrDrv(p)
  <2>1. UNCHANGED <<view, lw, found>> /\ (FileEvent \/ UNCHANGED <<file, changes>>)
    BY <1>3 DEF DeleteGdrDrv
  <2> QED
    BY <2>1, ReportEvent, ReportKept DEF stream
<1>4. CASE ServeFails(p) \/ SelectTerm(p) \/ Stop(p)
  <2>1. UNCHANGED file /\ EndServer(p)
    BY <1>4 DEF ServeFails, SelectTerm, Stop, AbandonServer, StopServer
  <2> QED
    BY <2>1, ServerEnds, ReportKept
<1>5. CASE Register(p)
  BY <1>5, ReportKept DEF Register
<1> QED
  BY <1>1, <1>2, <1>3, <1>4, <1>5 DEF Main

LEMMA ReportStep ==
    ASSUME TypeOK, ReportInv, [Next]_vars
    PROVE  ReportInv'
<1>1. CASE Read
  <2>1. lw' = "Send" /\ found' = (file # 0) /\ UNCHANGED file
    BY <1>1 DEF Read, GetDevices, node
  <2> QED
    BY <2>1 DEF ReportInv, ReportIsCurrent
<1>2. CASE Send
  <2>1. lw = "Send" /\ lw' = "Wait" /\ view' = found /\ UNCHANGED <<file, changes>>
    BY <1>2 DEF Send, node
  <2> QED
    BY <2>1 DEF ReportInv, ReportIsCurrent
<1>3. CASE Node
  <2>1. UNCHANGED file
    BY <1>3 DEF Node, Load, Unload, KubeletRestarts, Start, Signal, Delete, Kill, node
  <2>2. UNCHANGED <<view, stream>> \/ lw' = "none"
    BY <1>3, ServerEnds
       DEF Node, Load, Unload, KubeletRestarts, Disconnect, Start, Signal, Delete, Kill,
           AbandonServer, kubelet
  <2> QED
    BY <2>1, <2>2, ReportKept
<1>4. CASE UNCHANGED vars
  BY <1>4, ReportKept DEF vars, node, kubelet
<1> QED
  BY <1>1, <1>2, <1>3, <1>4, MainReports DEF Next, ListAndWatch

\* A handler that has seen every event of the device file has told the kubelet
\* whether the file is there, whichever of the processes on the node makes it,
\* removes it, or takes over the socket and the connection.
THEOREM GdrdrvReportsAreCurrent == Spec => []ReportIsCurrent
<1>1. Init => ReportInv
  BY DEF Init, ReportInv, ReportIsCurrent
<1>2. ReportInv => ReportIsCurrent
  BY DEF ReportInv
<1>3. TypeOK /\ ReportInv /\ [Next]_vars => ReportInv'
  BY ReportStep
<1> QED
  BY <1>1, <1>2, <1>3, GdrdrvPluginTypeCorrect, PTL DEF Spec
=============================================================================
