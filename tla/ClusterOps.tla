----------------------------- MODULE ClusterOps -----------------------------
(***************************************************************************)
(* Cluster operations on top of node operations: the Cluster controller    *)
(* (src/internal/controller/cluster_controller*.go) composed with the Node *)
(* controller of module NodeOps.                                           *)
(*                                                                         *)
(* A cluster operation turns into a plan, a sequence of node operations    *)
(* that runSubOperations starts one by one.  It starts one by writing the  *)
(* node's status and then records the start in the cluster's status; it    *)
(* learns the result from the node's phase in the informer cache.  The two *)
(* controllers share nothing but the Node objects: op, cached, provisioned *)
(* and answers of NodeOps.  The cluster is bootstrapped.                   *)
(***************************************************************************)
EXTENDS NodeOps, NodeList, Sequences, FiniteSets

CONSTANTS
    NodeOrder,          \* the nodes as listEligibleNodes sorts them
    ControlPlanes,      \* those with the role controlplane, first in NodeOrder
    ClusterUserTypes,   \* the cluster operations users request in this instance
    AutomaticTypes,     \* the cluster operations the maintenance window triggers
    MaxClusterRequests, \* bound on cluster operations
    MaxClusterFaults    \* bound on reconciles cut off between two writes

ClusterOperationTypes ==
    {"RollingReboot", "RollingApply", "KubernetesUpgrade", "Bootstrap"}

\* The type of the node operations in a plan.
SubOpType(type) ==
    CASE type = "RollingReboot"     -> "Reboot"
      [] type = "RollingApply"      -> "Apply"
      [] type = "KubernetesUpgrade" -> "KubernetesComponentUpgrade"
      [] type = "Bootstrap"         -> "Bootstrap"
      [] OTHER                      -> "None"

ASSUME ClusterConstantsAssumption ==
    /\ NodeOrder \in Seq(Nodes)
    /\ \A n \in Nodes : \E i \in DOMAIN NodeOrder : NodeOrder[i] = n
    /\ ControlPlanes \subseteq Nodes
    /\ ClusterUserTypes \subseteq ClusterOperationTypes
    /\ AutomaticTypes \subseteq {"RollingApply", "KubernetesUpgrade"}
    /\ {SubOpType(t) : t \in ClusterUserTypes \union AutomaticTypes} \subseteq ClusterTypes
    /\ MaxClusterRequests \in Nat
    /\ MaxClusterFaults \in Nat

VARIABLES
    clusterRequest,   \* cluster.Operation, the operation a user asks for
    clusterOp,        \* cluster.Status.Operation, with its plan
    clusterWorker,    \* the reconcile of the Cluster controller in progress
    clusterRequests,  \* cluster operations so far
    clusterFaults     \* reconciles cut off so far

clusterVars == <<clusterRequest, clusterOp, clusterWorker, clusterRequests, clusterFaults>>

allVars == <<vars, clusterVars>>

ClusterPhases == {"Pending", "InProgress", "Postflight", "Done", "Failed"}

\* A step of the plan (ClusterManagedNodeOperationStatus), whose node operation
\* has type SubOpType; late: the phase timeout and two minutes have passed
\* since the step was started.
PlanSteps == [node : Nodes, late : BOOLEAN,
              phase : {"Pending", "Applying", "Done", "Failed"}]

\* No operation yet counts as a successful one.
NoClusterOperation == [type |-> "None", phase |-> "Done", steps |-> <<>>]

-----------------------------------------------------------------------------
listEligibleNodes(role) == PickNodes(NodeOrder, {n \in role : provisioned[n]})

otherOpsInProgress(nodes) ==
    \E i \in DOMAIN nodes : cached[nodes[i]] \notin Complete \union {"None"}

\* The nodes of the plan in order.  A Kubernetes upgrade takes API server,
\* controller manager and scheduler of each control plane, then every kubelet.
PlanNodes(type) ==
    LET cps == listEligibleNodes(ControlPlanes)
        all == listEligibleNodes(Nodes)
    IN CASE type \in {"RollingReboot", "RollingApply"} -> all
         [] type = "KubernetesUpgrade" -> cps \o cps \o cps \o all
         [] type = "Bootstrap" -> IF cps = <<>> THEN <<>> ELSE <<Head(cps)>>

Plan(type) ==
    [i \in DOMAIN PlanNodes(type) |->
        [node |-> PlanNodes(type)[i], late |-> FALSE, phase |-> "Pending"]]

\* updateStatus runs before anything else in Reconcile and lists the etcd
\* directory of the first control plane, not empty in a bootstrapped cluster;
\* an error ends the reconcile.
updateStatusSucceeds ==
    LET cps == listEligibleNodes(ControlPlanes)
    IN cps # <<>> => answers[Head(cps)]

\* A reconcile that gets past intake and triggers to the operation.
Dispatched ==
    /\ clusterWorker = Idle
    /\ updateStatusSucceeds
    /\ clusterRequest = "None"

SetPhase(p) == clusterOp' = [clusterOp EXCEPT !.phase = p]

\* Mutant: the last step is not looked at.
AllButLastStepDone ==
    \A i \in 1..(Len(clusterOp.steps) - 1) : clusterOp.steps[i].phase = "Done"

AllStepsDone == \A i \in DOMAIN clusterOp.steps : clusterOp.steps[i].phase = "Done"

\* The step runSubOperations works on, on a node that r.Get finds: the first one
\* that is not Done.
Current(i) ==
    /\ clusterOp.phase = "InProgress"
    /\ clusterOp.steps[i].phase # "Done"
    /\ clusterOp.steps[i].node \in Nodes
    /\ \A j \in 1..(i - 1) : clusterOp.steps[j].phase = "Done"

-----------------------------------------------------------------------------
RequestClusterOp(t) ==
    /\ clusterRequests < MaxClusterRequests
    /\ clusterRequest' = t
    /\ clusterRequests' = clusterRequests + 1
    /\ UNCHANGED <<vars, clusterOp, clusterWorker, clusterFaults>>

\* The intake, in two writes like the node's.
ClusterIntakeCopy ==
    /\ clusterWorker = Idle
    /\ updateStatusSucceeds
    /\ clusterRequest # "None"
    /\ clusterOp' = [type |-> clusterRequest, phase |-> "Pending", steps |-> <<>>]
    /\ clusterWorker' = [pc |-> "clear"]
    /\ UNCHANGED <<vars, clusterRequest, clusterRequests, clusterFaults>>

ClusterIntakeClear ==
    /\ clusterWorker.pc = "clear"
    /\ clusterRequest' = "None"
    /\ clusterWorker' = Idle
    /\ UNCHANGED <<vars, clusterOp, clusterRequests, clusterFaults>>

\* Mutant: a failed operation does not stop the automation.
MaintenanceTriggerAfterFailure(t) ==
    /\ Dispatched
    /\ clusterOp.phase \in {"Done", "Failed"}
    /\ clusterRequests < MaxClusterRequests
    /\ clusterOp' = [type |-> t, phase |-> "Pending", steps |-> <<>>]
    /\ clusterRequests' = clusterRequests + 1
    /\ UNCHANGED <<vars, clusterRequest, clusterWorker, clusterFaults>>

\* In a maintenance window nodes are out of sync or behind: an operation
\* starts by itself if the last one was successful.
MaintenanceTrigger(t) ==
    /\ Dispatched
    /\ clusterOp.phase = "Done"
    /\ clusterRequests < MaxClusterRequests
    /\ clusterOp' = [type |-> t, phase |-> "Pending", steps |-> <<>>]
    /\ clusterRequests' = clusterRequests + 1
    /\ UNCHANGED <<vars, clusterRequest, clusterWorker, clusterFaults>>

\* A plan is refused while a node operation is not finished; a bootstrap looks at
\* the control planes only, and needs one.
Refuses(type) ==
    \/ otherOpsInProgress(listEligibleNodes(IF type = "Bootstrap" THEN ControlPlanes ELSE Nodes))
    \/ type = "Bootstrap" /\ PlanNodes(type) = <<>>

\* The Pending case of the four handlers: refuse, or make the plan.  Unready
\* nodes, drifted or unsynced configurations (not modelled) refuse all but a
\* rolling reboot.
MakePlan ==
    /\ Dispatched
    /\ clusterOp.phase = "Pending"
    /\ \/ /\ Refuses(clusterOp.type) \/ clusterOp.type # "RollingReboot"
          /\ SetPhase("Failed")
       \/ /\ ~Refuses(clusterOp.type)
          /\ clusterOp' = [clusterOp EXCEPT !.phase = "InProgress",
                                            !.steps = Plan(clusterOp.type)]
    /\ UNCHANGED <<vars, clusterRequest, clusterWorker, clusterRequests, clusterFaults>>

\* runSubOperations, first write of a start: the node's status ...
SubOpBegin(i) ==
    /\ Dispatched
    /\ Current(i)
    /\ clusterOp.steps[i].phase = "Pending"
    /\ SubOpStart(clusterOp.steps[i].node, SubOpType(clusterOp.type))
    /\ clusterWorker' = [pc |-> "record", step |-> i]
    /\ UNCHANGED <<clusterRequest, clusterOp, clusterRequests, clusterFaults>>

\* ... second write: the step of the plan.
SubOpRecord ==
    /\ clusterWorker.pc = "record"
    /\ clusterOp' = [clusterOp EXCEPT !.steps[clusterWorker.step].phase = "Applying"]
    /\ clusterWorker' = Idle
    /\ UNCHANGED <<vars, clusterRequest, clusterRequests, clusterFaults>>

\* Mutants: any phase is taken for a result; a failure is taken for a success.
SubOpMonitorUnfinished(i) ==
    /\ Dispatched
    /\ Current(i)
    /\ clusterOp.steps[i].phase = "Applying"
    /\ clusterOp' = [clusterOp EXCEPT !.steps[i].phase = cached[clusterOp.steps[i].node],
                                      !.steps[i].late = FALSE]
    /\ UNCHANGED <<vars, clusterRequest, clusterWorker, clusterRequests, clusterFaults>>

SubOpMonitorFailureIsDone(i) ==
    /\ Dispatched
    /\ Current(i)
    /\ clusterOp.steps[i].phase = "Applying"
    /\ cached[clusterOp.steps[i].node] \in Complete
    /\ clusterOp' = [clusterOp EXCEPT !.steps[i].phase = "Done", !.steps[i].late = FALSE]
    /\ UNCHANGED <<vars, clusterRequest, clusterWorker, clusterRequests, clusterFaults>>

\* The cached node has a finished operation: its phase is the step's result,
\* and the reconcile goes on to fail the operation if it is Failed.
SubOpMonitor(i) ==
    /\ Dispatched
    /\ Current(i)
    /\ clusterOp.steps[i].phase = "Applying"
    /\ LET result == cached[clusterOp.steps[i].node]
       IN /\ result \in Complete
          /\ clusterOp' = [clusterOp EXCEPT !.steps[i].phase = result,
                                            !.steps[i].late = FALSE]
          /\ clusterWorker' = IF result = "Failed" THEN [pc |-> "fail"] ELSE Idle
    /\ UNCHANGED <<vars, clusterRequest, clusterRequests, clusterFaults>>

\* Mutant: a node operation that never gets its turn does not time out.
SubOpTimeoutStarted(i) ==
    /\ Dispatched
    /\ Current(i)
    /\ clusterOp.steps[i].phase = "Applying"
    /\ cached[clusterOp.steps[i].node] \notin notInProgressPhases
    /\ clusterOp.steps[i].late
    /\ SetPhase("Failed")
    /\ UNCHANGED <<vars, clusterRequest, clusterWorker, clusterRequests, clusterFaults>>

\* The node is still at it, and the step's time is over.
SubOpTimeout(i) ==
    /\ Dispatched
    /\ Current(i)
    /\ clusterOp.steps[i].phase = "Applying"
    /\ cached[clusterOp.steps[i].node] \notin Complete
    /\ clusterOp.steps[i].late
    /\ SetPhase("Failed")
    /\ UNCHANGED <<vars, clusterRequest, clusterWorker, clusterRequests, clusterFaults>>

\* A failed step fails the operation, in the reconcile that recorded it or, if
\* that one was cut off, in a later one.
SubOpFailed(i) ==
    /\ clusterWorker.pc = "fail" \/ Dispatched
    /\ Current(i)
    /\ clusterOp.steps[i].phase = "Failed"
    /\ SetPhase("Failed")
    /\ clusterWorker' = Idle
    /\ UNCHANGED <<vars, clusterRequest, clusterRequests, clusterFaults>>

SubOpsDone ==
    /\ Dispatched
    /\ clusterOp.phase = "InProgress"
    /\ AllStepsDone
    /\ SetPhase("Postflight")
    /\ UNCHANGED <<vars, clusterRequest, clusterWorker, clusterRequests, clusterFaults>>

\* The Kubernetes upgrade re-applies the manifests, for which it needs a control
\* plane and a Kubernetes client, and drops its plan.
Postflight ==
    /\ Dispatched
    /\ clusterOp.phase = "Postflight"
    /\ clusterOp.type = "KubernetesUpgrade" /\ listEligibleNodes(ControlPlanes) # <<>>
       => kubernetes
    /\ clusterOp' =
         IF clusterOp.type = "KubernetesUpgrade"
         THEN [clusterOp EXCEPT
                  !.phase = IF listEligibleNodes(ControlPlanes) = <<>>
                            THEN "Failed" ELSE "Done",
                  !.steps = <<>>]
         ELSE [clusterOp EXCEPT !.phase = "Done"]
    /\ UNCHANGED <<vars, clusterRequest, clusterWorker, clusterRequests, clusterFaults>>

\* A reconcile of the Cluster controller ends between two writes.
ClusterAbort ==
    /\ clusterWorker # Idle
    /\ clusterFaults < MaxClusterFaults
    /\ clusterFaults' = clusterFaults + 1
    /\ clusterWorker' = Idle
    /\ UNCHANGED <<vars, clusterRequest, clusterOp, clusterRequests>>

\* The time of a running step passes.
StepElapse(i) ==
    /\ Current(i)
    /\ clusterOp.steps[i].phase = "Applying"
    /\ ~clusterOp.steps[i].late
    /\ clusterOp' = [clusterOp EXCEPT !.steps[i].late = TRUE]
    /\ UNCHANGED <<vars, clusterRequest, clusterWorker, clusterRequests, clusterFaults>>

ClusterInit ==
    /\ Init
    /\ clusterRequest = "None"
    /\ clusterOp = NoClusterOperation
    /\ clusterWorker = Idle
    /\ clusterRequests = 0
    /\ clusterFaults = 0

\* One run of the Cluster controller's worker.
ClusterReconcile ==
    \/ ClusterIntakeCopy
    \/ ClusterIntakeClear
    \/ MakePlan
    \/ SubOpRecord
    \/ SubOpsDone
    \/ Postflight
    \/ \E i \in DOMAIN clusterOp.steps :
          SubOpBegin(i) \/ SubOpMonitor(i) \/ SubOpTimeout(i) \/ SubOpFailed(i)

ClusterNext ==
    \/ NodeNext /\ UNCHANGED clusterVars
    \/ ClusterReconcile
    \/ \E t \in ClusterUserTypes : RequestClusterOp(t)
    \/ \E t \in AutomaticTypes : MaintenanceTrigger(t)
    \/ ClusterAbort
    \/ \E i \in DOMAIN clusterOp.steps : StepElapse(i)

ClusterSpec == ClusterInit /\ [][ClusterNext]_allVars

\* Both workers serve their queues for ever and time passes.  SF, because a
\* reconcile needs the first control plane to answer, and finds it so only
\* between two outages.
ClusterFairness ==
    /\ Fairness
    /\ SF_allVars(ClusterReconcile)
    /\ \A i \in 1..(4 * Len(NodeOrder)) :
          WF_allVars(i \in DOMAIN clusterOp.steps /\ StepElapse(i))

ClusterFairSpec == ClusterSpec /\ ClusterFairness

-----------------------------------------------------------------------------
(***************************************************************************)
(* Properties.                                                             *)
(***************************************************************************)
StartedTypes == ClusterUserTypes \union AutomaticTypes

ClusterTypeOK ==
    /\ clusterRequest \in StartedTypes \union {"None"}
    /\ clusterOp.type \in StartedTypes \union {"None"}
    /\ clusterOp.phase \in ClusterPhases
    /\ clusterOp.steps \in Seq(PlanSteps)
    /\ \/ clusterWorker \in [pc : {"idle", "clear", "fail"}]
       \/ clusterWorker \in [pc : {"record"}, step : DOMAIN clusterOp.steps]
    /\ clusterRequests \in Nat
    /\ clusterFaults \in Nat

\* "In the worst-case condition, the automation will only ever disrupt a single
\* node" (docs, 4.5): of the operations the maintenance window starts, never more
\* than one is unfinished or has failed, also when users run operations of
\* other kinds on all nodes meanwhile.  (A Bootstrap visits one node only: it
\* may leave a failed node as it is, and its success starts the automation anew.)
DisruptsOneNode ==
    LET disrupted == {n \in Nodes : /\ op[n].phase \notin {"Done", "None"}
                                    /\ op[n].type \in {SubOpType(t) : t \in AutomaticTypes}}
    IN  \A m, n \in disrupted : m = n

\* "The operator will wait for each node to come back online and be healthy
\* before proceeding to the next node" (docs, 4.2): runSubOperations takes a
\* step for Done only if the node did finish the operation that it started.
StepDoneIsReal ==
    [][\A i \in DOMAIN clusterOp.steps :
          /\ i \in DOMAIN clusterOp'.steps
          /\ clusterOp.steps[i].phase # "Done"
          /\ clusterOp'.steps[i].phase = "Done"
          => LET n == clusterOp.steps[i].node
             IN op[n].phase = "Done" /\ op[n].type = SubOpType(clusterOp.type)]_allVars

\* A rolling operation or upgrade that is over was successful on every node: the
\* last operation of each is the one of the plan, and it is Done.
DoneEverywhere ==
    clusterOp.phase \in {"Postflight", "Done"} /\ clusterOp.type \notin {"None", "Bootstrap"}
    => \A n \in Nodes : provisioned[n] =>
          op[n].phase = "Done" /\ op[n].type = SubOpType(clusterOp.type)

\* A cluster operation that runs comes to an end, if the outages of the control
\* planes do: every step is Done, Failed or timed out, whatever its node does.
ClusterOperationEnds ==
    (\A n \in ControlPlanes : []<>answers[n]) =>
        (clusterOp.phase = "InProgress" ~> clusterOp.phase # "InProgress")

=============================================================================
