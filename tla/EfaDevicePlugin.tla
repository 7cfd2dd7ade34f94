--------------------------- MODULE EfaDevicePlugin ---------------------------
(***************************************************************************)
(* The EFA device plugin (cmd/ocp-efa-device-plugin) on one node.          *)
(*                                                                         *)
(* dpLoop serves a socket in the kubelet's device plugin directory and     *)
(* registers it; for the kubelet, ListAndWatch reports the devices found   *)
(* in /dev/infiniband.  A kubelet that starts wipes the directory and      *)
(* creates kubelet.sock again, which is how the plugin learns that it has  *)
(* to register again.  Devices, the kubelet and signals change while the   *)
(* plugin is anywhere in Serve or in ListAndWatch.                         *)
(***************************************************************************)
EXTENDS Naturals

CONSTANTS
    Devices,           \* the uverbs devices a node may have
    DirAlways,         \* whether /dev/infiniband exists without any device in it
    MaxKubeletStops,   \* bound: how often the kubelet stops
    MaxSignals,        \* bound: signals sent to the plugin
    MaxDeviceChanges,  \* bound: devices that come and go
    MaxTimeouts        \* bound: calls of Serve that time out although they could succeed

ASSUME DevicePluginAssumption ==
    /\ DirAlways \in BOOLEAN
    /\ MaxKubeletStops \in Nat /\ MaxSignals \in Nat
    /\ MaxDeviceChanges \in Nat /\ MaxTimeouts \in Nat

VARIABLES
    \* the node
    devices,    \* the devices in /dev/infiniband
    socket,     \* ocp-efa.sock: "none", "mine" (of the running server) or "stale"
    kubelet,    \* "up", "down" or "starting"
    connected,  \* whether the kubelet is connected to the plugin's server
    view,       \* the devices the kubelet advertises
    \* dpLoop
    pc,         \* where dpLoop is
    created,    \* Create events of kubelet.sock in the watcher
    sigChan,    \* the signal in the channel, "none" if it is empty
    conn,       \* whether the connection of Serve to the kubelet is up
    \* ListAndWatch of the current server
    lw,         \* where the handler is, "none" when it does not run
    devs,       \* the devices it is about to send
    changes,    \* device events in its watcher
    lost,       \* whether the directory it watches has been removed
    \* history, for the bounds
    used

node   == <<devices, socket, kubelet>>
seen   == <<connected, view>>
loop   == <<pc, created, sigChan, conn>>
stream == <<lw, devs, changes, lost>>
vars   == <<node, seen, loop, stream, used>>

\* Where a server is running, and where the process is.
Serving == {"DialSelf", "DialKubelet", "Register", "Select", "Stop"}
Running == {"Start", "Listen"} \cup Serving
PCs     == Running \cup {"exited", "terminated"}

TypeOK ==
    /\ devices \subseteq Devices
    /\ socket \in {"none", "mine", "stale"}
    /\ socket = "mine" => pc \in Serving
    /\ kubelet \in {"up", "down", "starting"}
    /\ connected \in BOOLEAN /\ (connected => kubelet = "up" /\ pc \in Serving)
    /\ view \subseteq Devices
    /\ pc \in PCs
    /\ created \in Nat
    /\ sigChan \in {"none", "HUP", "TERM"}
    /\ conn \in BOOLEAN /\ (conn => kubelet = "up")
    /\ lw \in {"none", "Watch", "Read", "Send", "Wait"}
    /\ lw # "none" => pc \in Serving
    /\ devs \subseteq Devices
    /\ changes \in Nat
    /\ lost \in BOOLEAN
    /\ used \in [{"stops", "signals", "changes", "timeouts"} -> Nat]

Init ==
    /\ devices \in SUBSET Devices
    /\ socket \in {"none", "stale"}
    /\ kubelet = "up"
    /\ connected = FALSE /\ view = {}
    /\ pc = "Start" /\ created = 0 /\ sigChan = "none" /\ conn = FALSE
    /\ lw = "none" /\ devs = {} /\ changes = 0 /\ lost = FALSE
    /\ used = [c \in {"stops", "signals", "changes", "timeouts"} |-> 0]

Spend(c, max) == used[c] < max /\ used' = [used EXCEPT ![c] = @ + 1]

-----------------------------------------------------------------------------
(***************************************************************************)
(* dpLoop, Serve and Stop                                                  *)
(***************************************************************************)

\* The kubelet's connection to the server is gone: it advertises no device.
Disconnect == connected' = FALSE /\ view' = {}

\* The server ends, and with it the handler of the kubelet's stream.
EndServer == /\ Disconnect
             /\ lw' = "none" /\ devs' = {} /\ changes' = 0 /\ lost' = FALSE

Goto(step) == pc' = step /\ UNCHANGED <<created, sigChan>>

\* Serve returns an error: dpLoop and main return, the container exits.
Exit ==
    /\ EndServer
    /\ pc' = "exited" /\ created' = 0 /\ sigChan' = "none" /\ conn' = FALSE
    /\ socket' = IF socket = "none" THEN "none" ELSE "stale"
    /\ UNCHANGED <<devices, kubelet>>

\* The watch on the plugin directory is in place before the first Serve.
Start == pc = "Start" /\ Goto("Listen") /\ UNCHANGED <<node, seen, conn, stream, used>>

\* Slip: the socket of the old server stays.
StopKeepsSocket ==
    /\ pc = "Stop"
    /\ Goto("Listen") /\ EndServer
    /\ UNCHANGED <<node, conn, used>>

\* Stop of the old server: its socket goes with it.
Stop ==
    /\ pc = "Stop"
    /\ Goto("Listen") /\ EndServer
    /\ socket' = "none"
    /\ UNCHANGED <<devices, kubelet, conn, used>>

\* NewEfaDevicePlugin and Serve up to the start of the server.
Listen ==
    /\ pc = "Listen"
    /\ Goto("DialSelf")
    /\ socket' = "mine"
    /\ UNCHANGED <<devices, kubelet, seen, conn, stream, used>>

TimesOut == Exit /\ Spend("timeouts", MaxTimeouts)

\* A blocking dial of its own socket: the kubelet may have wiped it.
DialSelf ==
    /\ pc = "DialSelf"
    /\ \/ socket = "mine" /\ Goto("DialKubelet") /\ UNCHANGED <<node, seen, conn, stream, used>>
       \/ socket # "mine" /\ Exit /\ UNCHANGED used
       \/ TimesOut

\* The dial waits for a kubelet that is not there until its time is up.
DialKubelet ==
    /\ pc = "DialKubelet"
    /\ \/ kubelet = "up" /\ Goto("Register") /\ conn' = TRUE /\ UNCHANGED <<node, seen, stream, used>>
       \/ kubelet # "up" /\ Exit /\ UNCHANGED used
       \/ TimesOut

\* The kubelet connects to the socket and calls ListAndWatch.
Connect == connected' = TRUE /\ view' = {} /\ lw' = "Watch" /\ UNCHANGED <<devs, changes, lost>>

\* Slip: the error of Register is dropped.
RegisterUnchecked ==
    /\ pc = "Register"
    /\ \/ conn /\ socket = "mine" /\ Connect /\ UNCHANGED used
       \/ ~(conn /\ socket = "mine") /\ UNCHANGED <<seen, stream, used>>
       \/ UNCHANGED <<seen, stream>> /\ Spend("timeouts", MaxTimeouts)
    /\ Goto("Select") /\ conn' = FALSE /\ UNCHANGED node

Register ==
    /\ pc = "Register"
    /\ \/ conn /\ socket = "mine" /\ Connect
          /\ Goto("Select") /\ conn' = FALSE /\ UNCHANGED <<node, used>>
       \/ ~(conn /\ socket = "mine") /\ Exit /\ UNCHANGED used
       \/ TimesOut

\* Any of the channels that are ready.
SelectCreate ==
    /\ pc = "Select" /\ created > 0
    /\ pc' = "Stop" /\ created' = created - 1
    /\ UNCHANGED <<node, seen, sigChan, conn, stream, used>>

SelectHangup ==
    /\ pc = "Select" /\ sigChan = "HUP"
    /\ pc' = "Stop" /\ sigChan' = "none"
    /\ UNCHANGED <<node, seen, created, conn, stream, used>>

SelectTerm ==
    /\ pc = "Select" /\ sigChan = "TERM"
    /\ EndServer
    /\ pc' = "terminated" /\ sigChan' = "none" /\ created' = 0
    /\ socket' = "none"
    /\ UNCHANGED <<devices, kubelet, conn, used>>

DpLoop ==
    \/ Start \/ Stop \/ Listen \/ DialSelf \/ DialKubelet \/ Register
    \/ SelectCreate \/ SelectHangup \/ SelectTerm

-----------------------------------------------------------------------------
(***************************************************************************)
(* ListAndWatch                                                            *)
(***************************************************************************)

DirExists == DirAlways \/ devices # {}

\* Slip: the directory is watched only once the first report is sent.
WatchingLate == lw = "Wait" /\ ~lost

\* Whether the handler's watcher sees what happens to the devices.
Watching == lw \in {"Read", "Send", "Wait"} /\ ~lost

\* No directory to watch: the handler returns, which ends the stream.
AddWatch ==
    /\ lw = "Watch"
    /\ IF DirExists
       THEN lw' = "Read" /\ UNCHANGED seen
       ELSE lw' = "none" /\ Disconnect
    /\ UNCHANGED <<node, loop, devs, changes, lost, used>>

\* Slip: an event is answered with the devices found before.
GetDevicesCached == IF devs # {} THEN devs ELSE devices

GetDevices == devices

\* The devices are read at first and then for each device event.
Read ==
    /\ \/ lw = "Read" /\ UNCHANGED changes
       \/ lw = "Wait" /\ changes > 0 /\ changes' = changes - 1
    /\ lw' = "Send" /\ devs' = GetDevices
    /\ UNCHANGED <<node, seen, loop, lost, used>>

\* Send fails when the kubelet is gone.
Send ==
    /\ lw = "Send"
    /\ IF connected
       THEN lw' = "Wait" /\ view' = devs /\ UNCHANGED changes
       ELSE lw' = "none" /\ changes' = 0 /\ UNCHANGED view
    /\ UNCHANGED <<node, connected, loop, devs, lost, used>>

ListAndWatch == AddWatch \/ Read \/ Send

-----------------------------------------------------------------------------
(***************************************************************************)
(* The node                                                                *)
(***************************************************************************)

\* A device comes or goes.  Unless something else keeps it, the directory goes
\* with its last device, and with it the watch.
DeviceChanges(d) ==
    /\ Spend("changes", MaxDeviceChanges)
    /\ devices' = IF d \in devices THEN devices \ {d} ELSE devices \cup {d}
    /\ changes' = IF Watching THEN changes + 1 ELSE changes
    /\ lost' = (lost \/ (Watching /\ ~DirExists'))
    /\ UNCHANGED <<socket, kubelet, seen, loop, lw, devs>>

KubeletStops ==
    /\ kubelet = "up"
    /\ Spend("stops", MaxKubeletStops)
    /\ kubelet' = "down" /\ conn' = FALSE
    /\ Disconnect
    /\ UNCHANGED <<devices, socket, pc, created, sigChan, stream>>

\* A kubelet that starts first removes every socket in the directory.
KubeletWipes ==
    /\ kubelet = "down"
    /\ kubelet' = "starting" /\ socket' = "none"
    /\ UNCHANGED <<devices, seen, loop, stream, used>>

KubeletListens ==
    /\ kubelet = "starting"
    /\ kubelet' = "up"
    /\ created' = IF pc \in Running \ {"Start"} THEN created + 1 ELSE created
    /\ UNCHANGED <<devices, socket, seen, pc, sigChan, conn, stream, used>>

\* signal.Notify drops a signal that finds the channel full.
Signal(s) ==
    /\ pc \in Running \ {"Start"}
    /\ Spend("signals", MaxSignals)
    /\ sigChan' = IF sigChan = "none" THEN s ELSE sigChan
    /\ UNCHANGED <<node, seen, pc, created, conn, stream>>

ContainerRestarts == pc = "exited" /\ Goto("Start") /\ UNCHANGED <<node, seen, conn, stream, used>>

Node ==
    \/ \E d \in Devices : DeviceChanges(d)
    \/ KubeletStops \/ KubeletWipes \/ KubeletListens \/ ContainerRestarts
    \/ \E s \in {"HUP", "TERM"} : Signal(s)

Next == DpLoop \/ ListAndWatch \/ Node

Spec == Init /\ [][Next]_vars

(***************************************************************************)
(* The goroutines of the plugin run on; a kubelet that stopped is started  *)
(* again, as is a container that exited.                                   *)
(***************************************************************************)
Fairness ==
    /\ WF_vars(DpLoop)
    /\ WF_vars(ListAndWatch)
    /\ WF_vars(KubeletWipes) /\ WF_vars(KubeletListens) /\ WF_vars(ContainerRestarts)

FairSpec == Spec /\ Fairness

-----------------------------------------------------------------------------
(***************************************************************************)
(* Properties                                                              *)
(***************************************************************************)

\* Whenever dpLoop waits with no Create event before it and the kubelet is up,
\* the socket of the running server is in place and the kubelet is connected to
\* it: no restart of the kubelet goes unnoticed, however it falls into Serve.
RegisteredWhenQuiet ==
    pc = "Select" /\ created = 0 /\ kubelet = "up" => socket = "mine" /\ connected

\* When ListAndWatch waits and has seen every event, the kubelet advertises the
\* devices the node has: none that came or went while the handler was starting,
\* reading or sending is missed.
ReportIsCurrent == connected /\ lw = "Wait" /\ changes = 0 => view = devices

\* Unless the plugin is terminated, the kubelet ends up advertising the devices
\* of the node ("let user pods access the special device functionality ... via a
\* custom resource fms.io/efa", README.md, line 3).
Advertised == <>[](view = devices) \/ <>(pc = "terminated")
=============================================================================
