----------------------- MODULE GdrdrvDriverController -----------------------
(***************************************************************************)
(* The GdrdrvDriver controller of ocp-efa-operator: Reconcile, taken from  *)
(* DriverReconciler, with the CreateCluster and DeleteCluster of a         *)
(* GdrdrvDriver, which deploys one dockerfile and one KMM Module for each  *)
(* version of the CUDA driver found on the nodes.                          *)
(***************************************************************************)
EXTENDS DriverReconciler, Functions

CONSTANTS
    Kernels,       \* kernel versions (major.minor) nodes may run
    NoKernel,      \* a node feature discovery has not labelled
    Versions,      \* versions of the CUDA driver
    NoVersion,     \* a node that is not labelled with a version
    DockerfileOf,  \* DockerfileOf[v]: the dockerfile ConfigMap for version v
    ModuleOf       \* ModuleOf[v]: the KMM Module for version v

GdrLabels == [kernel : Kernels \cup {NoKernel}, cuda : Versions \cup {NoVersion}]

(***************************************************************************)
(* What a GdrdrvDriver deploys: a dockerfile ConfigMap and a KMM Module    *)
(* for each version, SecurityContextConstraints and the device plugin      *)
(* DaemonSet.  The name of the version is part of the name of the object.  *)
(***************************************************************************)
ASSUME ObjectsAssumption ==
    /\ Kinds = Modules \cup Dockerfiles \cup {"scc", "ds"}
    /\ DockerfileOf \in Injection(Versions, Dockerfiles) /\ ModuleOf \in Injection(Versions, Modules)
    /\ Modules \cap Dockerfiles = {} /\ (Modules \cup Dockerfiles) \cap {"scc", "ds"} = {}
    /\ Builds = Versions \X Kernels
ASSUME NodesAssumption ==
    NoKernel \notin Kernels /\ NoVersion \notin Versions /\ Labels = GdrLabels

\* What the operator is to deploy on every cluster.
Required == IF OpenShift THEN {"scc", "ds"} ELSE {"ds"}

Init == StartOn(Labels)

-----------------------------------------------------------------------------
(***************************************************************************)
(* CreateCluster                                                           *)
(***************************************************************************)

\* A node without kernel labels is skipped, one without a version needs nothing.
Discovered == {m \in Nodes : node[m].kernel # NoKernel}
Equipped   == {m \in Discovered : node[m].cuda # NoVersion}
CudaDrvVers == {<<node[m].cuda, node[m].kernel>> : m \in Equipped}

\* The loop goes on with any version that is left.
Loop(left) == IF left = {} THEN "CraeteDevicePluginScc" ELSE "CreateKmmDockerfile"

\* Slip: the kernels of a version are replaced by the ones of the next node.
GetNodeStatusReplaced ==
    /\ At("CreateCluster")
    /\ \E found \in SUBSET CudaDrvVers :
          /\ \A p, q \in found : p[1] = q[1] => p = q
          /\ \A p \in CudaDrvVers : \E q \in found : p[1] = q[1]
          /\ pc' = Loop(found) /\ kernelVers' = found
    /\ UNCHANGED <<store, caches, control, req, efa, fresh, used>>

\* waitingCount is never incremented: there is nothing to wait for.
GetNodeStatus ==
    /\ At("CreateCluster")
    /\ UNCHANGED <<efa, fresh>>
    /\ \/ ReadFails /\ UNCHANGED kernelVers
       \/ /\ pc' = Loop(CudaDrvVers)
          /\ kernelVers' = CudaDrvVers
          /\ UNCHANGED <<store, caches, control, req, used>>

CreateKmmDockerfile(v) ==
    /\ At("CreateKmmDockerfile")
    /\ \E pair \in kernelVers : pair[1] = v
    /\ Ensure(DockerfileOf[v], {}, ModuleOf[v], ModuleOf[v], "Error")

Of(v) == {pair \in kernelVers : pair[1] = v}

CreateKmm(v) ==
    /\ At(ModuleOf[v])
    /\ LET next == Loop(kernelVers \ Of(v))
       IN  Ensure(ModuleOf[v], Of(v), next, next, "Error")

CraeteDevicePluginScc ==
    /\ At("CraeteDevicePluginScc")
    /\ IF OpenShift
       THEN Ensure("scc", {}, "CreateDevicePlugin", "CreateDevicePlugin", "Error")
       ELSE Skip("CreateDevicePlugin")

\* As in the other controller, AlreadyExists is the only error that is returned.
CreateDevicePlugin ==
    /\ At("CreateDevicePlugin")
    /\ Ensure("ds", {}, "Ready", "Error", "Ready")

-----------------------------------------------------------------------------
(***************************************************************************)
(* DeleteCluster                                                           *)
(***************************************************************************)

DeleteDevicePlugin ==
    At("DeleteDevicePlugin") /\ RemoveCached("ds", "DeleteDevicePluginScc")

DeleteDevicePluginScc ==
    /\ At("DeleteDevicePluginScc")
    /\ IF OpenShift THEN RemoveCached("scc", "DeleteKmm") ELSE Skip("DeleteKmm")

\* Slip: only the Modules for the versions that are on the nodes are deleted.
DeleteKmmCurrent ==
    /\ At("DeleteKmm")
    /\ Remove({ModuleOf[pair[1]] : pair \in CudaDrvVers}, "DeleteConfigMap")

\* DeleteAllOf by the label of the driver, whatever versions the nodes have now.
DeleteKmm == At("DeleteKmm") /\ Remove(Modules, "DeleteConfigMap")

DeleteConfigMap == At("DeleteConfigMap") /\ Remove(Dockerfiles, "RemoveFinalizer")

Reconcile ==
    \/ OutsideCluster
    \/ GetNodeStatus \/ CraeteDevicePluginScc \/ CreateDevicePlugin
    \/ \E v \in Versions : CreateKmmDockerfile(v) \/ CreateKmm(v)
    \/ DeleteDevicePlugin \/ DeleteDevicePluginScc \/ DeleteKmm \/ DeleteConfigMap

-----------------------------------------------------------------------------
(***************************************************************************)
(* The nodes                                                               *)
(***************************************************************************)

\* A node is labelled, upgraded to another kernel or given another CUDA driver.
\* Nodes have no owner: their changes enqueue nothing.
Relabelled(m, labels) ==
    node[m] # labels /\ Spend("nodeChanges", MaxNodeChanges) /\ SetNode(m, labels)

Cluster ==
    \/ \E n \in Names, k \in Kinds : CollectGarbage(n, k)
    \/ \E m \in Nodes, labels \in Labels : Relabelled(m, labels)

Next == Reconcile \/ User \/ Watch \/ Cluster \/ Restart

Spec == Init /\ [][Next]_vars

-----------------------------------------------------------------------------
(***************************************************************************)
(* Properties                                                              *)
(***************************************************************************)

\* The driver n has a dockerfile and a Module for the version of every node that
\* is labelled with one, and the Module has a mapping for the kernel of the node.
Covers(n) ==
    \A m \in Equipped :
        LET v == node[m].cuda
        IN  /\ child[n][DockerfileOf[v]] # 0 /\ child[n][ModuleOf[v]] # 0
            /\ <<v, node[m].kernel>> \in mapped[n][ModuleOf[v]]

\* No matter which call of the loop over the versions fails and where the loop
\* takes up again, the controller rests over an active driver only when the
\* driver is set up and covers all nodes, as long as these keep their labels.
RestsOnlyCovered ==
    /\ RestsOnlyWith(Required)
    /\ used.nodeChanges = 0 => \A n \in Names : Active(n) /\ AtRest(n) => Covers(n)

\* "The operator automatically detect EFA devices and CUDA drivers in a cluster
\* and deploys required kernel modules" (README.md, line 8): the controller rests
\* over an active driver only when it covers all nodes.
CudaDriversDetected == \A n \in Names : Active(n) /\ AtRest(n) => Covers(n)
=============================================================================
