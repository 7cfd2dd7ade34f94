-------------------------- MODULE GdrdrvDevicePlugin --------------------------
(***************************************************************************)
(* The GDRDRV device plugin (cmd/ocp-gdrdrv-device-plugin) on one node.    *)
(*                                                                         *)
(* A process waits for the kernel module, makes /dev/gdrdrv with the major *)
(* number the module got, serves the kubelet and removes the file again if *)
(* it is the one that made it.  Several processes may run on one node: a   *)
(* DaemonSet that is made anew does not wait for the pods of the old one.  *)
(* They share the device file, the socket, which has one name, and the     *)
(* kubelet, which keeps one connection per resource.                       *)
(*                                                                         *)
(* dpLoop, Serve and ListAndWatch are those of the EFA plugin.             *)
(* EfaDevicePlugin has every step of Serve and of a restart of the kubelet *)
(* for one process; here both are coarse and the processes are many.       *)
(***************************************************************************)
EXTENDS Naturals

CONSTANTS
    Pods,               \* the plugin pods of the node; a pod runs one process at a time
    NoPod,
    Majors,             \* the major numbers the kernel may give to the module
    MaxLoads,           \* bound: how often the module is loaded
    MaxFaults           \* bound: signals, kills, restarts of the kubelet, hot unloads,
                        \* and calls that fail or time out although they could succeed

ASSUME GdrdrvDevicePluginAssumption ==
    /\ NoPod \notin Pods \cup {"none", "stale"}
    /\ Pods \cap {"none", "stale"} = {}
    /\ Majors \subseteq Nat \ {0}
    /\ MaxLoads \in Nat /\ MaxFaults \in Nat

VARIABLES
    \* the node
    major,      \* the number of gdrdrv in /proc/devices, 0 while it is not loaded
    file,       \* the number of /dev/gdrdrv, 0 while there is none
    socket,     \* whose server listens on ocp-gdrdrv.sock: a pod, "stale" or "none"
    client,     \* the pod whose server the kubelet is connected to
    view,       \* whether the kubelet advertises the devices
    \* ListAndWatch of the client
    lw,         \* where the handler is, "none" when it does not run
    found,      \* whether its last Stat found the file
    changes,    \* events of /dev/gdrdrv in its watcher
    \* the processes
    deleted,    \* the pods that are deleted for good
    pc,         \* where main is
    read,       \* the major number getGdrdrvMajor returned
    createdDevFile, \* whether the process made the file
    created,    \* whether a Create event of kubelet.sock waits in the watcher
    sigChan,    \* the signal in the channel, "none" if it is empty
    \* history
    maker,      \* the process that made the file and is to remove it
    unclean,    \* whether a process was killed or the module unloaded under one
    loads, faults   \* for the bounds

kubelet == <<socket, client, view>>
stream  == <<lw, found, changes>>
process == <<pc, read, createdDevFile, created, sigChan>>
node    == <<major, file, maker>>
used    == <<unclean, loads, faults>>
vars    == <<node, kubelet, stream, deleted, process, used>>

\* Where a server runs, where the plugin directory is watched, where the
\* process has read a major number, and where there is a process at all.
Serving   == {"Register", "Select", "Stop"}
Watching  == {"Listen"} \cup Serving
Committed == {"Mknod", "Watch", "Unlink"} \cup Watching
Running   == {"Wait"} \cup Committed
PCs       == {"off"} \cup Running

TypeOK ==
    /\ major \in Majors \cup {0} /\ file \in Majors \cup {0}
    /\ socket \in Pods \cup {"none", "stale"}
    /\ socket \in Pods => pc[socket] \in Serving
    /\ client \in Pods \cup {NoPod}
    /\ client # NoPod => pc[client] \in Serving
    /\ client = NoPod => ~view /\ lw = "none"
    /\ view \in BOOLEAN
    /\ lw \in {"none", "Read", "Send", "Wait"} /\ found \in BOOLEAN /\ changes \in Nat
    /\ deleted \subseteq Pods
    /\ pc \in [Pods -> PCs]
    /\ read \in [Pods -> Majors \cup {0}]
    /\ \A p \in Pods : pc[p] = "Mknod" => read[p] # 0
    /\ createdDevFile \in [Pods -> BOOLEAN]
    /\ created \in [Pods -> BOOLEAN]
    /\ sigChan \in [Pods -> {"none", "HUP", "TERM"}]
    /\ maker \in Pods \cup {NoPod}
    /\ unclean \in BOOLEAN /\ loads \in Nat /\ faults \in Nat

Init ==
    /\ major \in Majors \cup {0} /\ file = 0 /\ maker = NoPod
    /\ socket \in {"none", "stale"} /\ client = NoPod /\ view = FALSE
    /\ lw = "none" /\ found = FALSE /\ changes = 0
    /\ deleted = {} /\ pc = [p \in Pods |-> "off"]
    /\ read = [p \in Pods |-> 0]
    /\ createdDevFile = [p \in Pods |-> FALSE]
    /\ created = [p \in Pods |-> FALSE]
    /\ sigChan = [p \in Pods |-> "none"]
    /\ unclean = FALSE /\ loads = 0 /\ faults = 0

Fault   == faults < MaxFaults /\ faults' = faults + 1 /\ UNCHANGED <<unclean, loads>>
Unclean == faults < MaxFaults /\ faults' = faults + 1 /\ unclean' = TRUE /\ UNCHANGED loads

Goto(p, step) == pc' = [pc EXCEPT ![p] = step]

-----------------------------------------------------------------------------
(***************************************************************************)
(* The device file and the server                                          *)
(***************************************************************************)

\* The handler's watcher is on /dev, which is always there.
FileEvent == changes' = IF lw \in {"Read", "Send", "Wait"} THEN changes + 1 ELSE changes

\* The kubelet advertises no device of a plugin that is gone.
Disconnect == /\ client' = NoPod /\ view' = FALSE
              /\ lw' = "none" /\ found' = FALSE /\ changes' = 0

EndServer(p) == IF client = p THEN Disconnect ELSE UNCHANGED <<client, view, stream>>

\* Slip: the socket is removed but the server runs on.
StopServerSocketOnly(p) == socket' = "none" /\ UNCHANGED <<client, view, stream>>

\* DeleteSocket removes the path, whoever listens on it.
StopServer(p) == EndServer(p) /\ socket' = "none"

\* A process that ends without Stop leaves its socket.
AbandonServer(p) == EndServer(p) /\ socket' = IF socket = p THEN "stale" ELSE socket

\* The process is gone, and what it knew.
End(p) ==
    /\ Goto(p, "off")
    /\ read' = [read EXCEPT ![p] = 0]
    /\ createdDevFile' = [createdDevFile EXCEPT ![p] = FALSE]
    /\ created' = [created EXCEPT ![p] = FALSE]
    /\ sigChan' = [sigChan EXCEPT ![p] = "none"]

-----------------------------------------------------------------------------
(***************************************************************************)
(* createGdrDrvLoop and deleteGdrDrv                                       *)
(***************************************************************************)

\* The module is loaded: its major number is taken from /proc/devices.
GetGdrdrvMajor(p) ==
    /\ pc[p] = "Wait" /\ major # 0
    /\ read' = [read EXCEPT ![p] = major]
    /\ Goto(p, "Mknod")
    /\ UNCHANGED <<node, deleted, kubelet, stream, createdDevFile, created, sigChan, used>>

\* Any signal ends the wait for the module, and with it main.
WaitInterrupted(p) ==
    /\ pc[p] = "Wait" /\ major = 0 /\ sigChan[p] # "none"
    /\ End(p)
    /\ UNCHANGED <<node, deleted, kubelet, stream, used>>

\* Slip: a file that is there already is taken for one's own.
CreateGdrDrvTaken(p) ==
    /\ pc[p] = "Mknod"
    /\ createdDevFile' = [createdDevFile EXCEPT ![p] = TRUE]
    /\ IF file = 0
       THEN file' = read[p] /\ maker' = p /\ FileEvent
       ELSE UNCHANGED <<file, maker, changes>>
    /\ Goto(p, "Watch")
    /\ UNCHANGED <<major, deleted, kubelet, lw, found, read, created, sigChan, used>>

\* Slip: a file that is there already is an error.
CreateGdrDrvExclusive(p) ==
    /\ pc[p] = "Mknod"
    /\ IF file = 0
       THEN /\ file' = read[p] /\ maker' = p /\ FileEvent
            /\ createdDevFile' = [createdDevFile EXCEPT ![p] = TRUE]
            /\ Goto(p, "Watch") /\ UNCHANGED <<read, created, sigChan>>
       ELSE End(p) /\ UNCHANGED <<file, maker, changes>>
    /\ UNCHANGED <<major, deleted, kubelet, lw, found, used>>

\* A file that is there already is accepted, whatever its number.
CreateGdrDrv(p) ==
    /\ pc[p] = "Mknod"
    /\ IF file = 0
       THEN /\ file' = read[p] /\ maker' = p /\ FileEvent
            /\ createdDevFile' = [createdDevFile EXCEPT ![p] = TRUE]
       ELSE UNCHANGED <<file, maker, changes, createdDevFile>>
    /\ Goto(p, "Watch")
    /\ UNCHANGED <<major, deleted, kubelet, lw, found, read, created, sigChan, used>>

\* /proc/devices cannot be read, or Mknod fails: main ends.
CreateFails(p) ==
    /\ pc[p] \in {"Wait", "Mknod"} /\ Fault
    /\ End(p)
    /\ UNCHANGED <<node, deleted, kubelet, stream>>

\* main removes the file however dpLoop ended, but only one it made.
DeleteGdrDrv(p) ==
    /\ pc[p] = "Unlink"
    /\ IF createdDevFile[p] /\ file # 0
       THEN file' = 0 /\ maker' = NoPod /\ FileEvent
       ELSE UNCHANGED <<file, maker, changes>>
    /\ End(p)
    /\ UNCHANGED <<major, deleted, kubelet, lw, found, used>>

-----------------------------------------------------------------------------
(***************************************************************************)
(* dpLoop, Serve and Stop                                                  *)
(***************************************************************************)

\* The watch on the plugin directory, without which dpLoop returns.
AddWatch(p) ==
    /\ pc[p] = "Watch"
    /\ \/ Goto(p, "Listen") /\ UNCHANGED used
       \/ Goto(p, "Unlink") /\ Fault
    /\ UNCHANGED <<node, deleted, kubelet, stream, read, createdDevFile, created, sigChan>>

\* Serve up to the start of the server.
Listen(p) ==
    /\ pc[p] = "Listen"
    /\ Goto(p, "Register") /\ socket' = p
    /\ UNCHANGED <<node, deleted, client, view, stream, read, createdDevFile, created, sigChan, used>>

\* Slip: main returns with the error of dpLoop.
ServeFailsAtOnce(p) ==
    /\ pc[p] = "Register"
    /\ \/ socket \notin Pods /\ UNCHANGED used
       \/ Fault
    /\ AbandonServer(p) /\ End(p)
    /\ UNCHANGED <<node, deleted>>

\* Serve returns an error, and with it dpLoop: the server dies with main.
ServeFails(p) ==
    /\ pc[p] = "Register"
    /\ \/ socket \notin Pods /\ UNCHANGED used
       \/ Fault
    /\ AbandonServer(p) /\ Goto(p, "Unlink")
    /\ UNCHANGED <<node, deleted, read, createdDevFile, created, sigChan>>

\* The kubelet connects to the server that listens on the socket, in place of
\* the one it was connected to, and calls ListAndWatch.
Register(p) ==
    /\ pc[p] = "Register" /\ socket \in Pods
    /\ client' = socket /\ view' = FALSE
    /\ lw' = "Read" /\ found' = FALSE /\ changes' = 0
    /\ Goto(p, "Select")
    /\ UNCHANGED <<node, deleted, socket, read, createdDevFile, created, sigChan, used>>

SelectCreate(p) ==
    /\ pc[p] = "Select" /\ created[p]
    /\ created' = [created EXCEPT ![p] = FALSE] /\ Goto(p, "Stop")
    /\ UNCHANGED <<node, deleted, kubelet, stream, read, createdDevFile, sigChan, used>>

SelectHangup(p) ==
    /\ pc[p] = "Select" /\ sigChan[p] = "HUP"
    /\ sigChan' = [sigChan EXCEPT ![p] = "none"] /\ Goto(p, "Stop")
    /\ UNCHANGED <<node, deleted, kubelet, stream, read, createdDevFile, created, used>>

SelectTerm(p) ==
    /\ pc[p] = "Select" /\ sigChan[p] = "TERM"
    /\ sigChan' = [sigChan EXCEPT ![p] = "none"] /\ Goto(p, "Unlink")
    /\ StopServer(p)
    /\ UNCHANGED <<node, deleted, read, createdDevFile, created, used>>

Stop(p) ==
    /\ pc[p] = "Stop"
    /\ StopServer(p) /\ Goto(p, "Listen")
    /\ UNCHANGED <<node, deleted, read, createdDevFile, created, sigChan, used>>

Main(p) ==
    \/ GetGdrdrvMajor(p) \/ WaitInterrupted(p) \/ CreateGdrDrv(p) \/ CreateFails(p)
    \/ AddWatch(p) \/ Listen(p) \/ Register(p) \/ ServeFails(p)
    \/ SelectCreate(p) \/ SelectHangup(p) \/ SelectTerm(p) \/ Stop(p)
    \/ DeleteGdrDrv(p)

-----------------------------------------------------------------------------
(***************************************************************************)
(* ListAndWatch                                                            *)
(***************************************************************************)

\* Slip: any event of the file is taken for its creation.
GetDevicesAssumed == lw = "Wait" \/ file # 0

\* All 128 devices or none.
GetDevices == file # 0

\* The file is looked up at first and then for each of its events.
Read ==
    /\ \/ lw = "Read" /\ UNCHANGED changes
       \/ lw = "Wait" /\ changes > 0 /\ changes' = changes - 1
    /\ lw' = "Send" /\ found' = GetDevices
    /\ UNCHANGED <<node, deleted, kubelet, process, used>>

Send ==
    /\ lw = "Send"
    /\ lw' = "Wait" /\ view' = found
    /\ UNCHANGED <<node, deleted, socket, client, found, changes, process, used>>

ListAndWatch == Read \/ Send

-----------------------------------------------------------------------------
(***************************************************************************)
(* The node                                                                *)
(***************************************************************************)

Load(m) ==
    /\ major = 0 /\ loads < MaxLoads
    /\ major' = m /\ loads' = loads + 1
    /\ UNCHANGED <<file, maker, deleted, kubelet, stream, process, unclean, faults>>

\* An unload is hot when a process goes on with the number it has read.
Unload ==
    /\ major # 0
    /\ \/ (\A p \in Pods : pc[p] \notin Committed) /\ UNCHANGED used
       \/ (\E p \in Pods : pc[p] \in Committed) /\ Unclean
    /\ major' = 0
    /\ UNCHANGED <<file, maker, deleted, kubelet, stream, process>>

KubeletRestarts ==
    /\ Fault
    /\ socket' = "none" /\ Disconnect
    /\ created' = [p \in Pods |-> created[p] \/ pc[p] \in Watching]
    /\ UNCHANGED <<node, deleted, pc, read, createdDevFile, sigChan>>

\* The container is started, or started again after its process ended.
Start(p) ==
    /\ pc[p] = "off" /\ p \notin deleted
    /\ Goto(p, "Wait")
    /\ UNCHANGED <<node, kubelet, stream, deleted, read, createdDevFile, created, sigChan, used>>

\* signal.Notify drops a signal that finds the channel full.
Receive(p, s) == sigChan' = [sigChan EXCEPT ![p] = IF @ = "none" THEN s ELSE @]

Signal(p, s) ==
    /\ pc[p] \in Running /\ Fault
    /\ Receive(p, s)
    /\ UNCHANGED <<node, kubelet, stream, deleted, pc, read, createdDevFile, created>>

\* The pod is deleted, as by the garbage collector after its DaemonSet.
Delete(p) ==
    /\ pc[p] \in Running /\ p \notin deleted /\ Fault
    /\ deleted' = deleted \cup {p} /\ Receive(p, "TERM")
    /\ UNCHANGED <<node, kubelet, stream, pc, read, createdDevFile, created>>

\* SIGKILL, for want of memory or at the end of the grace period: nothing is
\* cleaned up and the file belongs to nobody.
Kill(p) ==
    /\ pc[p] \in Running /\ Unclean
    /\ AbandonServer(p) /\ End(p)
    /\ maker' = IF maker = p THEN NoPod ELSE maker
    /\ UNCHANGED <<major, deleted, file>>

Node ==
    \/ \E m \in Majors : Load(m)
    \/ Unload \/ KubeletRestarts
    \/ \E p \in Pods : Start(p) \/ Kill(p) \/ Delete(p) \/ \E s \in {"HUP", "TERM"} : Signal(p, s)

Next == (\E p \in Pods : Main(p)) \/ ListAndWatch \/ Node

Spec == Init /\ [][Next]_vars

(***************************************************************************)
(* The goroutines run on, and the container of a pod that is not deleted   *)
(* is started again by the kubelet when its process has ended.             *)
(***************************************************************************)
Fairness ==
    /\ \A p \in Pods : WF_vars(Main(p)) /\ WF_vars(Start(p))
    /\ WF_vars(ListAndWatch)

FairSpec == Spec /\ Fairness

-----------------------------------------------------------------------------
(***************************************************************************)
(* Properties                                                              *)
(***************************************************************************)

\* However processes overlap, at most one takes the file for its own, it is the
\* one that made it, and it is still there to remove it: a process that ends,
\* whether by a signal or by an error of dpLoop, leaves no file behind and takes
\* away no other's (createGdrDrv, deleteGdrDrv, main).
FileHasOneOwner ==
    /\ \A p \in Pods : createdDevFile[p] <=> maker = p
    /\ maker # NoPod => file # 0 /\ pc[maker] \in Committed

\* As long as no process is killed and the module stays while one works with its
\* number, the file has the number of the loaded module: what one process leaves
\* cannot mislead the next one, which accepts any file it finds.
FileIsFresh == ~unclean /\ file # 0 => file = major

\* When ListAndWatch waits and has seen every event, the kubelet advertises
\* devices exactly if the file is there.
ReportIsCurrent == lw = "Wait" /\ changes = 0 => view = (file # 0)

\* A hand-over: a deleted process still runs next to one that stays.
HandOver == \E p \in deleted, q \in Pods \ deleted : pc[p] # "off" /\ pc[q] # "off"

\* Once the module and a pod stay, the devices end up advertised ("exposes
\* fms.io/gdrdrv for user pods", README.md, line 3), after kills, reloads and
\* failures, and although processes take the file, the socket and the
\* registration from one another.  It does not hold through a hand-over: a
\* process that accepted the file of another makes none when that one removes it.
Advertised ==
    []~HandOver /\ <>[](major # 0 /\ deleted # Pods) => <>[]view
=============================================================================
