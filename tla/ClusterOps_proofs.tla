-------------------------- MODULE ClusterOps_proofs --------------------------
(***************************************************************************)
(* The Cluster controller composed with the Node controller, for any       *)
(* nodes, plans, requests and faults: every behaviour of the composition   *)
(* is, for the nodes, a behaviour of NodeOps, so that what NodeOps_proofs  *)
(* proves of the lock holds while cluster operations run.                  *)
(***************************************************************************)
EXTENDS ClusterOps, NodeOps_proofs

\* Only operations somebody may start are ever under way, so that what a plan
\* starts on a node is one of ClusterTypes.
KnownOperation ==
    /\ clusterRequest \in StartedTypes \union {"None"}
    /\ clusterOp.type \in StartedTypes \union {"None"}
    /\ clusterOp.type = "None" => clusterOp.phase = "Done"
    /\ clusterOp = [type |-> clusterOp.type, phase |-> clusterOp.phase,
                    steps |-> clusterOp.steps]

\* A nil operation is of no type that anybody starts.
LEMMA StartedTypesAreNamed == "None" \notin StartedTypes
BY ClusterConstantsAssumption DEF StartedTypes, ClusterOperationTypes

\* No operation has been started yet.
LEMMA KnownInit == ClusterInit => KnownOperation
BY DEF ClusterInit, KnownOperation, NoClusterOperation

\* Requests and triggers are of the types that are started, and no step retypes.
LEMMA KnownNext ==
    ASSUME KnownOperation, [ClusterNext]_allVars PROVE KnownOperation'
<1> USE StartedTypesAreNamed DEF KnownOperation
<1>1. CASE UNCHANGED <<clusterRequest, clusterOp>>
  BY <1>1
<1>2. ASSUME NEW t \in ClusterUserTypes, RequestClusterOp(t) PROVE KnownOperation'
  BY <1>2 DEF RequestClusterOp, StartedTypes
<1>3. CASE ClusterIntakeCopy
  BY <1>3 DEF ClusterIntakeCopy
<1>4. CASE ClusterIntakeClear
  BY <1>4 DEF ClusterIntakeClear
<1>5. ASSUME NEW t \in AutomaticTypes, MaintenanceTrigger(t) PROVE KnownOperation'
  BY <1>5 DEF MaintenanceTrigger, StartedTypes
<1>6. CASE MakePlan
  <2>1. clusterOp.type # "None"
    BY <1>6 DEF MakePlan
  <2>2. UNCHANGED clusterRequest
    BY <1>6 DEF MakePlan
  <2>3. CASE clusterOp' = [clusterOp EXCEPT !.phase = "Failed"]
    BY <2>1, <2>2, <2>3
  <2>4. CASE clusterOp' = [clusterOp EXCEPT !.phase = "InProgress",
                                            !.steps = Plan(clusterOp.type)]
    BY <2>1, <2>2, <2>4
  <2> QED
    BY <1>6, <2>3, <2>4 DEF MakePlan, SetPhase
<1>7. CASE SubOpRecord
  <2>1. clusterWorker.pc = "record" /\ UNCHANGED clusterRequest
    BY <1>7 DEF SubOpRecord
  <2>2. clusterOp' = [clusterOp EXCEPT !.steps[clusterWorker.step].phase = "Applying"]
    BY <1>7 DEF SubOpRecord
  <2> QED
    BY <2>1, <2>2
<1>8. CASE SubOpsDone
  BY <1>8 DEF SubOpsDone, SetPhase
<1>9. CASE Postflight
  BY <1>9 DEF Postflight
<1>10. ASSUME NEW i \in DOMAIN clusterOp.steps, SubOpMonitor(i) PROVE KnownOperation'
  BY <1>10 DEF SubOpMonitor, Current
<1>11. ASSUME NEW i \in DOMAIN clusterOp.steps, SubOpTimeout(i) \/ SubOpFailed(i)
       PROVE  KnownOperation'
  BY <1>11 DEF SubOpTimeout, SubOpFailed, SetPhase, Current
<1>12. ASSUME NEW i \in DOMAIN clusterOp.steps, StepElapse(i) PROVE KnownOperation'
  BY <1>12 DEF StepElapse, Current
<1>13. ASSUME NEW i \in DOMAIN clusterOp.steps, SubOpBegin(i) PROVE KnownOperation'
  BY <1>13 DEF SubOpBegin
<1> QED
  BY <1>1, <1>2, <1>3, <1>4, <1>5, <1>6, <1>7, <1>8, <1>9, <1>10, <1>11, <1>12, <1>13
  DEF ClusterNext, ClusterReconcile, ClusterAbort, clusterVars, allVars

\* The one step of the Cluster controller that touches a node is the start of a
\* sub-operation, and NodeOps allows it.
LEMMA StartIsNodeStep ==
    ASSUME KnownOperation, NEW i \in DOMAIN clusterOp.steps, SubOpBegin(i) PROVE Next
<1>1. clusterOp.phase = "InProgress" /\ clusterOp.steps[i].node \in Nodes
  BY DEF SubOpBegin, Current
<1>2. clusterOp.type \in StartedTypes
  BY <1>1 DEF KnownOperation
<1>3. SubOpType(clusterOp.type) \in ClusterTypes
  BY <1>2, ClusterConstantsAssumption DEF StartedTypes
<1>4. SubOpStart(clusterOp.steps[i].node, SubOpType(clusterOp.type))
  BY SMTT(30) DEF SubOpBegin
<1> QED
  BY <1>1, <1>3, <1>4 DEF Next

\* Every step of the composition is one of NodeOps, or leaves the nodes alone.
LEMMA ClusterStep ==
    ASSUME KnownOperation, [ClusterNext]_allVars PROVE [Next]_vars
<1>1. CASE NodeNext
  BY <1>1 DEF Next
<1>2. ASSUME NEW i \in DOMAIN clusterOp.steps, SubOpBegin(i) PROVE [Next]_vars
  BY <1>2, StartIsNodeStep
<1>3. CASE UNCHANGED vars
  BY <1>3
<1> QED
  BY <1>1, <1>2, <1>3
  DEF ClusterNext, ClusterReconcile, ClusterAbort, allVars, RequestClusterOp,
      ClusterIntakeCopy, ClusterIntakeClear, MaintenanceTrigger, MakePlan, SubOpRecord,
      SubOpsDone, Postflight, SubOpMonitor, SubOpTimeout, SubOpFailed, StepElapse

\* What is proved of NodeOps holds of the composition: the Cluster controller
\* does nothing to a node but start operations on it.
LEMMA CompositionImplementsNodeOps == ClusterSpec => Spec
<1>1. ClusterInit => Init
  BY DEF ClusterInit
<1> QED
  BY <1>1, KnownInit, KnownNext, ClusterStep, PTL DEF ClusterSpec, Spec

\* While cluster operations run, crash and are replaced, and users start node
\* operations as they like, at most one node is worked on if no cache lags.
THEOREM ClusterMutualExclusion ==
    ASSUME CoherentCache = TRUE PROVE ClusterSpec => []OneNodeAtATime
BY CompositionImplementsNodeOps, MutualExclusion, PTL

=============================================================================
