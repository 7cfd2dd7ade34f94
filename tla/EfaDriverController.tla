------------------------ MODULE EfaDriverController ------------------------
(***************************************************************************)
(* The EfaDriver controller of ocp-efa-operator: Reconcile, taken from     *)
(* DriverReconciler, with the CreateCluster and DeleteCluster of an        *)
(* EfaDriver, on a cluster where node feature discovery labels the nodes   *)
(* and counts their EFA devices.                                           *)
(***************************************************************************)
EXTENDS DriverReconciler

CONSTANTS
    EfaNodes,         \* the nodes that have an EFA device
    Kernels,          \* kernel versions (major.minor) nodes may run
    NoKernel          \* a node feature discovery has not labelled at all

(***************************************************************************)
(* The objects an EfaDriver deploys: NodeFeatureRule, dockerfile ConfigMap,*)
(* KMM Module, SecurityContextConstraints and device plugin DaemonSet.     *)
(***************************************************************************)
EfaKinds  == {"nfr", "cm", "kmm", "scc", "ds"}
EfaLabels == [kernel : Kernels \cup {NoKernel}, counted : BOOLEAN]

ASSUME ObjectsAssumption ==
    Kinds = EfaKinds /\ Modules = {"kmm"} /\ Dockerfiles = {"cm"} /\ Builds = Kernels
ASSUME NodesAssumption ==
    EfaNodes \subseteq Nodes /\ NoKernel \notin Kernels /\ Labels = EfaLabels

\* The objects the operator is to deploy on a cluster that has EFA devices; the
\* SecurityContextConstraints only on OpenShift.
Required == IF OpenShift THEN Kinds ELSE Kinds \ {"scc"}

\* Feature discovery may or may not have labelled the nodes with a kernel version.
Init == StartOn({l \in Labels : ~l.counted})

-----------------------------------------------------------------------------
(***************************************************************************)
(* CreateCluster                                                           *)
(***************************************************************************)

CreateNFR ==
    /\ At("CreateCluster")
    /\ Ensure("nfr", {}, "CreateKmmDockerfile", "CreateKmmDockerfile", "Error")

\* Slip: the error of Create is tested the wrong way round.
CreateKmmDockerfileUnchecked ==
    /\ At("CreateKmmDockerfile")
    /\ Ensure("cm", {}, "GetNodeStatus", "Error", "GetNodeStatus")

CreateKmmDockerfile ==
    /\ At("CreateKmmDockerfile")
    /\ Ensure("cm", {}, "GetNodeStatus", "GetNodeStatus", "Error")

\* A node without kernel labels is skipped; one whose devices have not been
\* counted yet is waited for.
Discovered   == {m \in Nodes : node[m].kernel # NoKernel}
Waiting      == {m \in Discovered : ~node[m].counted}
EfaKernels   == {node[m].kernel : m \in Discovered \cap EfaNodes}

\* Slip: nodes that feature discovery has not scanned are skipped.
GetNodeStatusNoWait ==
    /\ At("GetNodeStatus")
    /\ pc' = "CreateKmm"
    /\ kernelVers' = {node[m].kernel : m \in (Discovered \ Waiting) \cap EfaNodes}
    /\ UNCHANGED <<store, caches, control, req, efa, fresh, used>>

GetNodeStatus ==
    /\ At("GetNodeStatus")
    /\ UNCHANGED <<efa, fresh>>
    /\ \/ ReadFails /\ UNCHANGED kernelVers
       \/ /\ IF Waiting # {}
             THEN pc' = "DeviceDiscovery" /\ UNCHANGED kernelVers
             ELSE pc' = "CreateKmm" /\ kernelVers' = EfaKernels
          /\ UNCHANGED <<store, caches, control, req, used>>

\* No Module when no node has an EFA device.
CreateKmm ==
    /\ At("CreateKmm")
    /\ IF kernelVers = {}
       THEN Skip("CraeteDevicePluginScc")
       ELSE Ensure("kmm", kernelVers, "CraeteDevicePluginScc", "CraeteDevicePluginScc", "Error")

CraeteDevicePluginScc ==
    /\ At("CraeteDevicePluginScc")
    /\ IF OpenShift
       THEN Ensure("scc", {}, "CreateDevicePlugin", "CreateDevicePlugin", "Error")
       ELSE Skip("CreateDevicePlugin")

\* The test of the Create error is the reverse of the other ones:
\* AlreadyExists is returned as an error and every other error is dropped.
CreateDevicePlugin ==
    /\ At("CreateDevicePlugin")
    /\ Ensure("ds", {}, "Ready", "Error", "Ready")

-----------------------------------------------------------------------------
(***************************************************************************)
(* DeleteCluster                                                           *)
(***************************************************************************)

DeleteDevicePlugin ==
    At("DeleteDevicePlugin") /\ RemoveCached("ds", "DeleteDevicePluginScc")

DeleteDevicePluginScc ==
    /\ At("DeleteDevicePluginScc")
    /\ IF OpenShift THEN RemoveCached("scc", "DeleteKmm") ELSE Skip("DeleteKmm")

DeleteKmm == At("DeleteKmm") /\ Remove({"kmm"}, "DeleteConfigMap")

DeleteConfigMap == At("DeleteConfigMap") /\ Remove({"cm"}, "DeleteNFR")

DeleteNFR == At("DeleteNFR") /\ RemoveCached("nfr", "RemoveFinalizer")

Reconcile ==
    \/ OutsideCluster
    \/ CreateNFR \/ CreateKmmDockerfile \/ GetNodeStatus \/ CreateKmm
    \/ CraeteDevicePluginScc \/ CreateDevicePlugin
    \/ DeleteDevicePlugin \/ DeleteDevicePluginScc \/ DeleteKmm
    \/ DeleteConfigMap \/ DeleteNFR

-----------------------------------------------------------------------------
(***************************************************************************)
(* Node feature discovery                                                  *)
(***************************************************************************)

\* Node feature discovery counts the devices of a node for the rules of a
\* NodeFeatureRule, and takes the count back when the rules are gone.  Nodes
\* have no EfaDriver owner: their changes enqueue nothing.
CountDevices(m) ==
    /\ node[m].kernel # NoKernel /\ ~node[m].counted
    /\ \E n \in Names : child[n]["nfr"] # 0
    /\ SetNode(m, [node[m] EXCEPT !.counted = TRUE]) /\ UNCHANGED used

DropCount(m) ==
    /\ node[m].counted
    /\ \A n \in Names : child[n]["nfr"] = 0
    /\ SetNode(m, [node[m] EXCEPT !.counted = FALSE]) /\ UNCHANGED used

\* A node gets its first kernel labels, or is upgraded to another kernel.
KernelChanges(m, v) ==
    /\ node[m].kernel # v
    /\ Spend("nodeChanges", MaxNodeChanges)
    /\ SetNode(m, [node[m] EXCEPT !.kernel = v])

Cluster ==
    \/ \E n \in Names, k \in Kinds : CollectGarbage(n, k)
    \/ \E m \in Nodes : CountDevices(m) \/ DropCount(m)
    \/ \E m \in Nodes, v \in Kernels : KernelChanges(m, v)

Next == Reconcile \/ User \/ Watch \/ Cluster \/ Restart

Spec == Init /\ [][Next]_vars

\* The worker does not stop, and neither does node feature discovery.
Fairness ==
    /\ WF_vars(Reconcile)
    /\ SharedFairness
    /\ \A m \in Nodes : WF_vars(CountDevices(m))

FairSpec == Spec /\ Fairness

-----------------------------------------------------------------------------
(***************************************************************************)
(* Properties                                                              *)
(***************************************************************************)

\* The objects an EfaDriver must have.  The Module only if a labelled node has
\* an EFA device, and only while no node has changed its kernel labels: a Ready
\* driver is not told of nodes that are labelled later, and gets no Module for
\* them (GetNodeStatus, line 308).
Due == IF EfaKernels # {} /\ used.nodeChanges = 0 THEN Required ELSE Required \ {"kmm"}

\* No wake-up is lost: the controller never comes to rest over an active
\* driver that is not Ready, whose deletion is unfinished, that lacks one of
\* the objects it must have or whose back-off was not reset.  (Errors recorded
\* in the status return nil, and user deletions are repaired, because a watch
\* event or a requeue is always on its way.)
RestsOnlyWhenDone == RestsOnlyWith(Due)

\* When the controller rests over an active driver, its Module builds the kernel
\* module for the kernel of every node that has an EFA device and is labelled,
\* as long as no node has changed its kernel labels.
KernelsCovered ==
    used.nodeChanges = 0 =>
        \A n \in Names : Active(n) /\ AtRest(n) => EfaKernels \subseteq mapped[n]["kmm"]

\* When users and faults leave it alone, the cluster converges: an EfaDriver is
\* Ready with all the objects it must have, the Module among them if a labelled
\* node has an EFA device, or is gone with all its objects.
Converges == <>[](\A n \in Names : Concluded(n, Due))

-----------------------------------------------------------------------------
(***************************************************************************)
(* Statements of the documentation, the tests and the messages that the    *)
(* code does not keep                                                      *)
(***************************************************************************)

\* At most one EfaDriver at a time is deployed: the other ones are "Ignored
\* since an active resource is already deployed" (Reconcile, line 128).
SingleActive ==
    \A n, m \in Names : n # m /\ Active(n) /\ Active(m) =>
        (\A k \in Kinds : child[n][k] # cr[n].uid) \/ (\A k \in Kinds : child[m][k] # cr[m].uid)

\* An EfaDriver that is Ready while the controller is at rest has its device
\* plugin DaemonSet: one a user deletes is created again ("should successfully
\* reconcile creating a custom resource for EfaDriver at random user deletion",
\* efadriver_controller_test.go, line 195).
ReadyHasDevicePlugin ==
    \A n \in Names : AtRest(n) /\ cr[n].cond = "Ready" => child[n]["ds"] # 0

\* Drivers are "Ignored since an active resource is already deployed" (Reconcile,
\* line 128): when the controller rests and no driver has been removed, at least
\* one of the drivers is not Ignored.
IgnoredForAnActiveOne ==
    (\A n \in Names : AtRest(n) /\ Exists(cr[n])) => \E n \in Names : Active(n)
=============================================================================
