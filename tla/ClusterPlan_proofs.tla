-------------------------- MODULE ClusterPlan_proofs --------------------------
(***************************************************************************)
(* The plans of the Cluster controller, for any nodes, roles and number of *)
(* operations, crashes and outages.                                        *)
(***************************************************************************)
EXTENDS ClusterOps_proofs, NodeList_proofs

-----------------------------------------------------------------------------
(***************************************************************************)
(* Types.                                                                  *)
(***************************************************************************)

\* The nodes that a plan is made of.
LEMMA Eligible ==
    ASSUME NEW role, role \subseteq Nodes
    PROVE  /\ listEligibleNodes(role) \in Seq({n \in role : provisioned[n]})
           /\ \A n \in role : provisioned[n] =>
                 \E i \in DOMAIN listEligibleNodes(role) : listEligibleNodes(role)[i] = n
<1> DEFINE S == {n \in role : provisioned[n]}
           picked == PickNodes(NodeOrder, S)
<1>1. NodeOrder \in Seq(Nodes) /\ \A n \in Nodes : \E i \in DOMAIN NodeOrder : NodeOrder[i] = n
  BY ClusterConstantsAssumption
<1>2. Nodes \cap S = S
  OBVIOUS
<1> HIDE DEF S
<1>3. /\ picked \in Seq(Nodes \cap S)
      /\ \A i \in DOMAIN NodeOrder : NodeOrder[i] \in S =>
            \E j \in DOMAIN picked : picked[j] = NodeOrder[i]
  BY <1>1, PickNodesPicks
<1> HIDE DEF picked
<1>4. \A n \in S : \E j \in DOMAIN picked : picked[j] = n
  <2> TAKE n \in S
  <2>1. PICK i \in DOMAIN NodeOrder : NodeOrder[i] = n
    BY <1>1, <1>2
  <2> QED
    BY <1>3, <2>1
<1>5. picked \in Seq(S)
  BY <1>2, <1>3
<1>6. listEligibleNodes(role) = picked
  BY DEF listEligibleNodes, picked, S
<1> QED
  BY <1>4, <1>5, <1>6 DEF S

\* The nodes that a plan of this type is about.
InRole(type) == IF type = "Bootstrap" THEN ControlPlanes ELSE Nodes

\* A plan names eligible nodes; one that is rolled over the cluster all of them.
LEMMA PlanNodesEligible ==
    ASSUME NEW type \in ClusterOperationTypes
    PROVE  /\ PlanNodes(type) \in Seq({n \in InRole(type) : provisioned[n]})
           /\ type # "Bootstrap" =>
                \A n \in Nodes : provisioned[n] =>
                   \E i \in DOMAIN PlanNodes(type) : PlanNodes(type)[i] = n
<1> DEFINE cps == listEligibleNodes(ControlPlanes)
           all == listEligibleNodes(Nodes)
           C == {n \in ControlPlanes : provisioned[n]}
           A == {n \in Nodes : provisioned[n]}
<1>1. ControlPlanes \subseteq Nodes /\ Nodes \subseteq Nodes
  BY ClusterConstantsAssumption
<1>2. cps \in Seq(C)
  BY <1>1, Eligible
<1>3. all \in Seq(A) /\ \A n \in Nodes : provisioned[n] => \E i \in DOMAIN all : all[i] = n
  BY <1>1, Eligible
<1>4. C \subseteq A
  BY <1>1
<1> HIDE DEF cps, all, C, A
<1>5. CASE type \in {"RollingReboot", "RollingApply"}
  <2>1. PlanNodes(type) = all
    BY <1>5 DEF PlanNodes, all
  <2> QED
    BY <1>3, <1>5, <2>1 DEF InRole, A
<1>6. CASE type = "KubernetesUpgrade"
  <2> DEFINE k == Len(cps) + Len(cps) + Len(cps)
  <2>1. PlanNodes(type) = cps \o cps \o cps \o all
    BY <1>6 DEF PlanNodes, all, cps
  <2>2. cps \in Seq(A)
    BY <1>2, <1>4
  <2>3. PlanNodes(type) \in Seq(A)
    BY <1>3, <2>1, <2>2
  <2>4. \A i \in DOMAIN all : k + i \in DOMAIN PlanNodes(type) /\ PlanNodes(type)[k + i] = all[i]
    BY <1>3, <2>1, <2>2
  <2> QED
    BY <1>3, <1>6, <2>3, <2>4 DEF InRole, A
<1>7. CASE type = "Bootstrap"
  <2>1. PlanNodes(type) = IF cps = <<>> THEN <<>> ELSE <<Head(cps)>>
    BY <1>7 DEF PlanNodes, cps
  <2>2. PlanNodes(type) \in Seq(C)
    BY <1>2, <2>1
  <2> QED
    BY <1>7, <2>2 DEF InRole, C
<1> QED
  BY <1>5, <1>6, <1>7 DEF ClusterOperationTypes

\* A plan is a list of steps on nodes.
LEMMA PlanType ==
    ASSUME NEW type \in ClusterOperationTypes
    PROVE  /\ Plan(type) \in Seq(PlanSteps)
           /\ DOMAIN Plan(type) = DOMAIN PlanNodes(type)
           /\ \A i \in DOMAIN Plan(type) : /\ Plan(type)[i].node = PlanNodes(type)[i]
                                           /\ Plan(type)[i].phase = "Pending"
<1> DEFINE A == {n \in InRole(type) : provisioned[n]}
<1>1. PlanNodes(type) \in Seq(A)
  BY PlanNodesEligible
<1>2. A \subseteq Nodes
  <2>1. ControlPlanes \subseteq Nodes
    BY ClusterConstantsAssumption
  <2> QED
    BY <2>1 DEF InRole
<1>3. \A i \in DOMAIN PlanNodes(type) : PlanNodes(type)[i] \in Nodes
  BY <1>1, <1>2
<1>4. \A i \in DOMAIN PlanNodes(type) :
         [node |-> PlanNodes(type)[i], late |-> FALSE, phase |-> "Pending"] \in PlanSteps
  BY <1>3 DEF PlanSteps
<1>5. Len(PlanNodes(type)) \in Nat /\ DOMAIN PlanNodes(type) = 1..Len(PlanNodes(type))
  BY <1>1
<1>6. Plan(type) \in [1..Len(PlanNodes(type)) -> PlanSteps]
  BY <1>4, <1>5 DEF Plan
<1>7. Plan(type) \in Seq(PlanSteps)
  BY <1>5, <1>6
<1> QED
  BY <1>7 DEF Plan

\* Reading the steps of a plan.
LEMMA StepFields ==
    ASSUME clusterOp.steps \in Seq(PlanSteps)
    PROVE  /\ DOMAIN clusterOp.steps \subseteq Nat
           /\ DOMAIN clusterOp.steps = 1..Len(clusterOp.steps)
           /\ \A i \in DOMAIN clusterOp.steps :
                 /\ clusterOp.steps[i].node \in Nodes
                 /\ clusterOp.steps[i].phase \in {"Pending", "Applying", "Done", "Failed"}
<1>1. \A i \in DOMAIN clusterOp.steps : clusterOp.steps[i] \in PlanSteps
  OBVIOUS
<1>2. \A v \in PlanSteps : v.node \in Nodes /\ v.phase \in {"Pending", "Applying", "Done", "Failed"}
  BY DEF PlanSteps
<1> QED
  BY <1>1, <1>2

\* A step that writes result p to step i of the plan.
StepWritten(i, p) ==
    /\ clusterOp'.type = clusterOp.type /\ clusterOp'.phase = clusterOp.phase
    /\ clusterOp'.steps \in Seq(PlanSteps)
    /\ DOMAIN clusterOp'.steps = DOMAIN clusterOp.steps
    /\ \A j \in DOMAIN clusterOp.steps :
          /\ clusterOp'.steps[j].node = clusterOp.steps[j].node
          /\ clusterOp'.steps[j].phase = IF j = i THEN p ELSE clusterOp.steps[j].phase

\* What a write to one step leaves of the others.
LEMMA StepsChange ==
    ASSUME KnownOperation, clusterOp.steps \in Seq(PlanSteps),
           NEW i \in DOMAIN clusterOp.steps, NEW v \in PlanSteps,
           v.node = clusterOp.steps[i].node,
           clusterOp' = [clusterOp EXCEPT !.steps = [clusterOp.steps EXCEPT ![i] = v]]
    PROVE  StepWritten(i, v.phase)
<1> DEFINE s == clusterOp.steps
           t == [s EXCEPT ![i] = v]
<1>1. clusterOp'.type = clusterOp.type /\ clusterOp'.phase = clusterOp.phase /\ clusterOp'.steps = t
  BY DEF KnownOperation
<1> HIDE DEF s
<1>2. s \in Seq(PlanSteps) /\ i \in DOMAIN s
  BY DEF s
<1>3. t \in Seq(PlanSteps) /\ DOMAIN t = DOMAIN s
  BY <1>2
<1>4. \A j \in DOMAIN s : t[j] = IF j = i THEN v ELSE s[j]
  BY <1>2
<1>5. v.node = s[i].node
  BY DEF s
<1> QED
  BY <1>1, <1>3, <1>4, <1>5 DEF StepWritten, s

\* The record of a start writes the phase of its step.
LEMMA RecordWrites ==
    ASSUME KnownOperation, clusterOp.steps \in Seq(PlanSteps), SubOpRecord,
           clusterWorker.step \in DOMAIN clusterOp.steps
    PROVE  StepWritten(clusterWorker.step, "Applying")
<1> DEFINE i == clusterWorker.step
           v == [clusterOp.steps[i] EXCEPT !.phase = "Applying"]
<1>1. clusterOp.steps[i] \in PlanSteps
  OBVIOUS
<1>2. v \in PlanSteps /\ v.node = clusterOp.steps[i].node /\ v.phase = "Applying"
  BY <1>1 DEF PlanSteps
<1>3. clusterOp' = [clusterOp EXCEPT !.steps = [clusterOp.steps EXCEPT ![i] = v]]
  BY DEF SubOpRecord, KnownOperation
<1> HIDE DEF v
<1> QED
  BY <1>2, <1>3, StepsChange

\* The monitor writes the phase of the current step.
LEMMA MonitorWrites ==
    ASSUME KnownOperation, clusterOp.steps \in Seq(PlanSteps),
           NEW i \in DOMAIN clusterOp.steps, SubOpMonitor(i)
    PROVE  /\ cached[clusterOp.steps[i].node] \in Complete
           /\ StepWritten(i, cached[clusterOp.steps[i].node])
<1> DEFINE result == cached[clusterOp.steps[i].node]
           v == [clusterOp.steps[i] EXCEPT !.phase = result, !.late = FALSE]
<1>1. clusterOp.steps[i] \in PlanSteps
  OBVIOUS
<1>2. result \in Complete
  BY DEF SubOpMonitor
<1>3. clusterOp' = [clusterOp EXCEPT !.steps = [clusterOp.steps EXCEPT ![i] = v]]
  BY DEF SubOpMonitor, KnownOperation
<1> HIDE DEF result
<1>4. v \in PlanSteps /\ v.node = clusterOp.steps[i].node /\ v.phase = result
  BY <1>1, <1>2 DEF PlanSteps, Complete
<1> HIDE DEF v
<1>5. StepWritten(i, v.phase)
  BY <1>3, <1>4, StepsChange
<1> QED
  BY <1>2, <1>4, <1>5 DEF result

\* The clock of a step only makes it late.
LEMMA ElapseWrites ==
    ASSUME KnownOperation, clusterOp.steps \in Seq(PlanSteps),
           NEW i \in DOMAIN clusterOp.steps, StepElapse(i)
    PROVE  StepWritten(i, clusterOp.steps[i].phase)
<1> DEFINE v == [clusterOp.steps[i] EXCEPT !.late = TRUE]
<1>1. clusterOp.steps[i] \in PlanSteps
  OBVIOUS
<1>2. v \in PlanSteps /\ v.node = clusterOp.steps[i].node /\ v.phase = clusterOp.steps[i].phase
  BY <1>1 DEF PlanSteps
<1>3. clusterOp' = [clusterOp EXCEPT !.steps = [clusterOp.steps EXCEPT ![i] = v]]
  BY DEF StepElapse, KnownOperation
<1> HIDE DEF v
<1>4. StepWritten(i, v.phase)
  BY <1>2, <1>3, StepsChange
<1> QED
  BY <1>2, <1>4

PlanTypeInv == KnownOperation /\ ClusterTypeOK

\* The initial states are well typed.
LEMMA ClusterTypeInit == ClusterInit => PlanTypeInv
<1> SUFFICES ASSUME ClusterInit PROVE ClusterTypeOK
  BY KnownInit DEF PlanTypeInv
<1>1. <<>> \in Seq(PlanSteps)
  OBVIOUS
<1> QED
  BY <1>1 DEF ClusterInit, ClusterTypeOK, NoClusterOperation, ClusterPhases, Idle

\* An operation under way is one that can be planned.
LEMMA Planable ==
    ASSUME KnownOperation, clusterOp.phase # "Done" PROVE clusterOp.type \in ClusterOperationTypes
BY ClusterConstantsAssumption DEF KnownOperation, StartedTypes, ClusterOperationTypes

\* Every step keeps the types.
LEMMA ClusterTypeNext ==
    ASSUME PlanTypeInv, [ClusterNext]_allVars PROVE PlanTypeInv'
<1> DEFINE WorkerOK(w, s) == \/ w \in [pc : {"idle", "clear", "fail"}]
                             \/ w \in [pc : {"record"}, step : DOMAIN s]
<1>0. KnownOperation /\ KnownOperation' /\ ClusterTypeOK
  BY KnownNext DEF PlanTypeInv
<1> SUFFICES ClusterTypeOK'
  BY <1>0 DEF PlanTypeInv
<1>a. ASSUME clusterOp'.phase \in ClusterPhases, clusterOp'.steps \in Seq(PlanSteps),
             WorkerOK(clusterWorker', clusterOp'.steps),
             clusterRequests' \in {clusterRequests, clusterRequests + 1},
             clusterFaults' \in {clusterFaults, clusterFaults + 1}
      PROVE  ClusterTypeOK'
  BY <1>0, <1>a DEF KnownOperation, ClusterTypeOK
<1>b. /\ clusterOp.phase \in ClusterPhases /\ clusterOp.steps \in Seq(PlanSteps)
      /\ WorkerOK(clusterWorker, clusterOp.steps)
      /\ <<>> \in Seq(PlanSteps) /\ \A s : WorkerOK(Idle, s)
  BY <1>0 DEF ClusterTypeOK, Idle
<1> HIDE DEF WorkerOK
<1>1. CASE UNCHANGED clusterVars
  BY <1>1, <1>a, <1>b DEF clusterVars
<1>2. ASSUME NEW t \in ClusterUserTypes, RequestClusterOp(t) PROVE ClusterTypeOK'
  BY <1>2, <1>a, <1>b DEF RequestClusterOp
<1>3. CASE ClusterIntakeCopy
  <2>1. WorkerOK(clusterWorker', clusterOp'.steps)
    BY <1>3 DEF ClusterIntakeCopy, WorkerOK
  <2> QED
    BY <1>3, <1>a, <1>b, <2>1 DEF ClusterIntakeCopy, ClusterPhases
<1>4. CASE ClusterIntakeClear \/ ClusterAbort
  BY <1>4, <1>a, <1>b DEF ClusterIntakeClear, ClusterAbort
<1>5. ASSUME NEW t \in AutomaticTypes, MaintenanceTrigger(t) PROVE ClusterTypeOK'
  BY <1>5, <1>a, <1>b DEF MaintenanceTrigger, Dispatched, ClusterPhases
<1>6. CASE MakePlan
  <2>1. clusterWorker' = Idle /\ UNCHANGED <<clusterRequests, clusterFaults>>
    BY <1>6 DEF MakePlan, Dispatched
  <2>2. CASE clusterOp' = [clusterOp EXCEPT !.phase = "Failed"]
    <3>1. clusterOp'.phase = "Failed" /\ clusterOp'.steps = clusterOp.steps
      BY <1>0, <2>2 DEF KnownOperation
    <3> QED
      BY <1>a, <1>b, <2>1, <3>1 DEF ClusterPhases
  <2>3. CASE clusterOp' = [clusterOp EXCEPT !.phase = "InProgress",
                                            !.steps = Plan(clusterOp.type)]
    <3>1. clusterOp'.phase = "InProgress" /\ clusterOp'.steps = Plan(clusterOp.type)
      BY <1>0, <2>3 DEF KnownOperation
    <3>2. Plan(clusterOp.type) \in Seq(PlanSteps)
      BY <1>0, <1>6, Planable, PlanType DEF MakePlan
    <3> QED
      BY <1>a, <1>b, <2>1, <3>1, <3>2 DEF ClusterPhases
  <2> QED
    BY <1>6, <2>2, <2>3 DEF MakePlan, SetPhase
<1>7. CASE SubOpRecord
  <2>1. clusterWorker.step \in DOMAIN clusterOp.steps
    BY <1>7, <1>b DEF SubOpRecord, WorkerOK
  <2>2. StepWritten(clusterWorker.step, "Applying")
    BY <1>0, <1>7, <1>b, <2>1, RecordWrites
  <2> QED
    BY <1>7, <1>a, <1>b, <2>2 DEF SubOpRecord, StepWritten
<1>8. CASE SubOpsDone
  BY <1>0, <1>8, <1>a, <1>b DEF SubOpsDone, SetPhase, KnownOperation, ClusterPhases
<1>9. CASE Postflight
  <2>1. /\ clusterOp'.phase \in {"Done", "Failed"}
        /\ clusterOp'.steps \in {clusterOp.steps, <<>>}
    BY <1>0, <1>9 DEF Postflight, KnownOperation
  <2>2. clusterWorker' = Idle /\ UNCHANGED <<clusterRequests, clusterFaults>>
    BY <1>9 DEF Postflight, Dispatched
  <2> QED
    BY <1>a, <1>b, <2>1, <2>2 DEF ClusterPhases
<1>10. ASSUME NEW i \in DOMAIN clusterOp.steps, SubOpMonitor(i) PROVE ClusterTypeOK'
  <2>1. \E p : StepWritten(i, p)
    BY <1>0, <1>10, <1>b, MonitorWrites
  <2>2. WorkerOK(clusterWorker', clusterOp'.steps) /\ UNCHANGED <<clusterRequests, clusterFaults>>
    BY <1>10, <1>b DEF SubOpMonitor, WorkerOK
  <2> QED
    BY <1>a, <1>b, <2>1, <2>2 DEF StepWritten
<1>11. ASSUME NEW i \in DOMAIN clusterOp.steps, SubOpTimeout(i) \/ SubOpFailed(i)
       PROVE  ClusterTypeOK'
  BY <1>0, <1>11, <1>a, <1>b
  DEF SubOpTimeout, SubOpFailed, SetPhase, KnownOperation, ClusterPhases, Dispatched
<1>12. ASSUME NEW i \in DOMAIN clusterOp.steps, StepElapse(i) PROVE ClusterTypeOK'
  <2>1. \E p : StepWritten(i, p)
    BY <1>0, <1>12, <1>b, ElapseWrites
  <2>2. WorkerOK(clusterWorker', clusterOp'.steps)
    BY <1>12, <1>b, <2>1 DEF StepElapse, WorkerOK, StepWritten
  <2> QED
    BY <1>12, <1>a, <1>b, <2>1, <2>2 DEF StepElapse, StepWritten
<1>13. ASSUME NEW i \in DOMAIN clusterOp.steps, SubOpBegin(i) PROVE ClusterTypeOK'
  <2>1. WorkerOK(clusterWorker', clusterOp'.steps)
    BY <1>13 DEF SubOpBegin, WorkerOK
  <2> QED
    BY <1>13, <1>a, <1>b, <2>1 DEF SubOpBegin
<1> QED
  BY <1>1, <1>2, <1>3, <1>4, <1>5, <1>6, <1>7, <1>8, <1>9, <1>10, <1>11, <1>12, <1>13
  DEF ClusterNext, ClusterReconcile, allVars

\* Whatever users and controllers do, the plan is a list of steps on nodes of the
\* cluster, and the worker records the start of a step that is in the plan.
THEOREM ClusterTypeCorrect == ClusterSpec => []ClusterTypeOK
<1>1. PlanTypeInv => ClusterTypeOK
  BY DEF PlanTypeInv
<1> QED
  BY <1>1, ClusterTypeInit, ClusterTypeNext, PTL DEF ClusterSpec

-----------------------------------------------------------------------------
(***************************************************************************)
(* Plans, where users leave single nodes alone (UserTypes = {}) and no     *)
(* cache lags.  The controllers never wait for each other, so that what a  *)
(* plan relies on has to be an invariant: what was looked at when the plan *)
(* was made is still so when one of its steps is started, watched or over. *)
(***************************************************************************)

\* Nobody but a plan starts node operations, and a plan does so on provisioned
\* nodes.  Provisioning and resets, which are not for plans, do not happen.
Undisturbed ==
    \A n \in Nodes : /\ request[n] = NoRequest
                     /\ op[n].type \notin {"Provision", "Reset"}
                     /\ op[n].type # "None" => provisioned[n]

\* A handler works on an operation of the type it has read that is not over.
HandlesLive ==
    worker.pc = "handle" => /\ ~isOperationComplete(op[worker.node])
                            /\ op[worker.node].type = worker.op.type

subType == SubOpType(clusterOp.type)

\* The nodes whose operations the Pending case looks at.
Looked(n) == provisioned[n] /\ n \in InRole(clusterOp.type)

StepsOfPlan ==
    clusterOp.phase = "InProgress" =>
        /\ \A i \in DOMAIN clusterOp.steps : Looked(clusterOp.steps[i].node)
        /\ clusterOp.type # "Bootstrap" =>
             \A n \in Nodes : provisioned[n] =>
                \E i \in DOMAIN clusterOp.steps : clusterOp.steps[i].node = n

InOrder ==
    clusterOp.phase = "InProgress" =>
        \A i, j \in DOMAIN clusterOp.steps :
           i < j /\ clusterOp.steps[j].phase # "Pending" => clusterOp.steps[i].phase = "Done"

\* A step that is watched is about an operation of the plan.
WatchesItsOwn ==
    clusterOp.phase = "InProgress" =>
        \A i \in DOMAIN clusterOp.steps :
           clusterOp.steps[i].phase = "Applying" => op[clusterOp.steps[i].node].type = subType

\* Of the nodes of the plan, only the one of the current step is busy, with an
\* operation of the plan.
OnlyCurrentRuns ==
    clusterOp.phase = "InProgress" =>
        \A n \in Nodes : Looked(n) /\ ~isOperationComplete(op[n]) =>
           /\ op[n].type = subType
           /\ \E i \in DOMAIN clusterOp.steps : Current(i) /\ clusterOp.steps[i].node = n

\* What a step has reached stays until the plan comes to the node again.
DoneStays ==
    clusterOp.phase = "InProgress" =>
        \A i \in DOMAIN clusterOp.steps : clusterOp.steps[i].phase = "Done" =>
           LET n == clusterOp.steps[i].node
           IN  \/ op[n].phase = "Done" /\ op[n].type = subType
               \/ \E j \in DOMAIN clusterOp.steps : Current(j) /\ clusterOp.steps[j].node = n

\* Between the two writes of a start.
Recording ==
    clusterWorker.pc = "record" =>
        /\ clusterWorker.step \in DOMAIN clusterOp.steps
        /\ Current(clusterWorker.step)
        /\ clusterOp.steps[clusterWorker.step].phase = "Pending"
        /\ op[clusterOp.steps[clusterWorker.step].node].type = subType

PlanFacts == /\ StepsOfPlan /\ InOrder /\ WatchesItsOwn /\ OnlyCurrentRuns
             /\ DoneStays /\ Recording /\ DoneEverywhere

PlanInv == LockInv /\ PlanTypeInv /\ Undisturbed /\ HandlesLive /\ PlanFacts

\* There is no plan yet.
LEMMA PlanInit == ClusterInit => PlanInv
<1> SUFFICES ASSUME ClusterInit PROVE PlanInv
  OBVIOUS
<1>1. Init /\ clusterOp.phase = "Done" /\ clusterOp.type = "None" /\ clusterWorker.pc = "idle"
  BY DEF ClusterInit, NoClusterOperation, Idle
<1>2. Undisturbed /\ HandlesLive
  BY <1>1 DEF Init, NoOperation, Undisturbed, HandlesLive, Idle
<1>3. PlanFacts
  BY <1>1 DEF PlanFacts, StepsOfPlan, InOrder, WatchesItsOwn, OnlyCurrentRuns, DoneStays,
              Recording, DoneEverywhere
<1> QED
  BY <1>1, <1>2, <1>3, LockInit, ClusterTypeInit DEF PlanInv

\* What the Node controller does to the nodes while only plans start operations:
\* it moves on operations that are not over, and nothing else.
NodesMoveOn ==
    /\ UNCHANGED provisioned
    /\ \A n \in Nodes : /\ op'[n].type = op[n].type
                        /\ isOperationComplete(op[n]) => op'[n].phase = op[n].phase

\* A step of the nodes moves operations on and starts none.
LEMMA NodeStepMovesOn ==
    ASSUME UserTypes = {}, TypeOK, Undisturbed, HandlesLive, NodeNext
    PROVE  NodesMoveOn /\ Undisturbed' /\ HandlesLive'
<1>a. ASSUME UNCHANGED <<op, provisioned>>, HandlesLive', \A n \in Nodes : request'[n] = NoRequest
      PROVE  NodesMoveOn /\ Undisturbed' /\ HandlesLive'
  BY <1>a DEF NodesMoveOn, Undisturbed
<1>b. ASSUME worker'.pc # "handle" PROVE HandlesLive'
  BY <1>b DEF HandlesLive
<1>c. \A n \in Nodes : request[n] = NoRequest
  BY DEF Undisturbed
<1>1. ~ \E n \in Nodes, r \in Requests : RequestOp(n, r)
  BY DEF RequestOp
<1>2. ~ \E n \in Nodes : IntakeCopy(n)
  BY <1>c DEF IntakeCopy
<1>3. CASE IntakeClear
  <2>1. worker.node \in Nodes
    BY <1>3, WorkerFields DEF IntakeClear
  <2>2. \A n \in Nodes : request'[n] = NoRequest
    BY <1>3, <1>c, <2>1 DEF IntakeClear, TypeOK
  <2> QED
    BY <1>3, <1>a, <1>b, <2>2 DEF IntakeClear, Idle
<1>4. ASSUME NEW n \in Nodes, Fetch(n) PROVE NodesMoveOn /\ Undisturbed' /\ HandlesLive'
  <2>1. HandlesLive'
    BY <1>4 DEF Fetch, HandlesLive
  <2> QED
    BY <1>4, <1>a, <1>c, <2>1 DEF Fetch
<1>5. CASE Handle
  <2>1. /\ worker.node \in Nodes /\ worker.op \in Operations /\ worker' = Idle
        /\ worker.pc = "handle" /\ UNCHANGED request
    BY <1>5, WorkerFields DEF Handle
  <2>2. HandlesLive'
    BY <2>1, <1>b DEF Idle
  <2>3. CASE UNCHANGED <<op, provisioned>>
    BY <1>a, <1>c, <2>1, <2>2, <2>3
  <2>4. CASE ~UNCHANGED <<op, provisioned>>
    <3>1. PICK p \in Phases :
             /\ Store(worker.node, [op[worker.node] EXCEPT !.phase = p, !.late = FALSE])
             /\ \E b \in ProvisionedAfter(worker.op, provisioned[worker.node], p) :
                   provisioned' = [provisioned EXCEPT ![worker.node] = b]
      BY <1>5, <2>4 DEF Handle
    <3> DEFINE n == worker.node
               o == [op[n] EXCEPT !.phase = p, !.late = FALSE]
    <3>2. o \in Operations /\ o.type = op[n].type
      BY <2>1, WrittenType DEF TypeOK
    <3>3. op' = [op EXCEPT ![n] = o]
      BY <3>1 DEF Store
    <3> HIDE DEF o
    <3>4. /\ op'[n].type = op[n].type
          /\ \A m \in Nodes : m # n => op'[m] = op[m]
      BY <2>1, <3>2, <3>3 DEF TypeOK
    <3>5. ~isOperationComplete(op[n]) /\ worker.op.type \notin {"Provision", "Reset"}
      BY <2>1 DEF HandlesLive, Undisturbed
    <3>6. ProvisionedAfter(worker.op, provisioned[n], p) = {provisioned[n]}
      BY <3>5 DEF ProvisionedAfter
    <3>7. UNCHANGED provisioned
      BY <2>1, <3>1, <3>6 DEF TypeOK
    <3>8. NodesMoveOn
      BY <3>4, <3>5, <3>7 DEF NodesMoveOn
    <3>9. Undisturbed'
      BY <1>c, <2>1, <3>4, <3>7 DEF Undisturbed
    <3> QED
      BY <2>2, <3>8, <3>9
  <2> QED
    BY <2>3, <2>4
<1>6. ~ \E n \in Nodes : DeletionCleanup(n)
  BY DEF DeletionCleanup
<1>7. CASE Abort
  <2>1. worker' = Idle /\ UNCHANGED <<op, request>>
    BY <1>7 DEF Abort
  <2>2. worker.pc = "handle" => worker.op.type \notin {"Provision", "Reset"}
    BY WorkerFields DEF HandlesLive, Undisturbed
  <2>3. UNCHANGED provisioned
    BY <1>7, <2>2 DEF Abort
  <2> QED
    BY <1>a, <1>b, <1>c, <2>1, <2>3 DEF Idle
<1>8. ASSUME NEW n \in Nodes, CacheSync(n) PROVE NodesMoveOn /\ Undisturbed' /\ HandlesLive'
  BY <1>8, <1>a, <1>c DEF CacheSync, HandlesLive
<1>9. ASSUME NEW n \in Nodes, Elapse(n) PROVE NodesMoveOn /\ Undisturbed' /\ HandlesLive'
  <2>1. /\ \A m \in Nodes : op'[m].phase = op[m].phase /\ op'[m].type = op[m].type
        /\ UNCHANGED <<worker, provisioned, request>>
    BY <1>9 DEF Elapse, TypeOK, Operations
  <2>2. HandlesLive'
    BY <2>1, WorkerFields DEF HandlesLive, isOperationComplete
  <2>3. Undisturbed'
    BY <2>1 DEF Undisturbed
  <2> QED
    BY <2>1, <2>2, <2>3 DEF NodesMoveOn
<1>10. ASSUME NEW n \in Nodes, MachineChange(n)
       PROVE  NodesMoveOn /\ Undisturbed' /\ HandlesLive'
  BY <1>10, <1>a, <1>c DEF MachineChange, HandlesLive
<1>11. CASE KubernetesChange \/ \E n \in Nodes : ConfigChange(n)
  BY <1>11, <1>a, <1>c DEF KubernetesChange, ConfigChange, HandlesLive
<1> QED
  BY <1>1, <1>2, <1>3, <1>4, <1>5, <1>6, <1>7, <1>8, <1>9, <1>10, <1>11 DEF NodeNext

\* The plan gets along with all that.
LEMMA MovingOnKeepsPlan ==
    ASSUME PlanFacts, TypeOK, ClusterTypeOK, NodesMoveOn, UNCHANGED <<clusterOp, clusterWorker>>
    PROVE  PlanFacts'
<1>1. /\ \A n : InRole(clusterOp'.type) = InRole(clusterOp.type) /\ Looked(n)' = Looked(n)
      /\ \A i : Current(i)' = Current(i)
      /\ subType' = subType
  BY DEF NodesMoveOn, Looked, Current, subType
<1>2. \A i \in DOMAIN clusterOp.steps : clusterOp.steps[i].node \in Nodes
  BY StepFields DEF ClusterTypeOK
<1>3. /\ \A n \in Nodes : op'[n].type = op[n].type
      /\ \A n \in Nodes : isOperationComplete(op[n]) => op'[n].phase = op[n].phase
      /\ UNCHANGED provisioned
  BY DEF NodesMoveOn
<1>4. StepsOfPlan' /\ InOrder'
  BY <1>1, <1>3 DEF StepsOfPlan, InOrder, PlanFacts
<1>5. WatchesItsOwn'
  BY <1>1, <1>2, <1>3 DEF WatchesItsOwn, PlanFacts
<1>6. OnlyCurrentRuns'
  BY <1>1, <1>3 DEF OnlyCurrentRuns, PlanFacts, isOperationComplete
<1>7. DoneStays'
  BY <1>1, <1>2, <1>3 DEF DoneStays, PlanFacts, isOperationComplete, Complete
<1>8. Recording'
  BY <1>1, <1>2, <1>3 DEF Recording, PlanFacts
<1>9. DoneEverywhere'
  BY <1>3 DEF DoneEverywhere, PlanFacts, isOperationComplete, Complete
<1> QED
  BY <1>4, <1>5, <1>6, <1>7, <1>8, <1>9 DEF PlanFacts

-----------------------------------------------------------------------------
(***************************************************************************)
(* The steps of the Cluster controller.                                    *)
(***************************************************************************)

\* There is one current step.
LEMMA OneCurrent ==
    ASSUME clusterOp.steps \in Seq(PlanSteps),
           NEW i \in DOMAIN clusterOp.steps, NEW j \in DOMAIN clusterOp.steps,
           Current(i), Current(j)
    PROVE  i = j
<1>1. i \in Nat /\ j \in Nat /\ i >= 1 /\ j >= 1
  BY StepFields
<1>2. i < j => i \in 1..(j - 1)
  BY <1>1
<1>3. j < i => j \in 1..(i - 1)
  BY <1>1
<1>4. ~(i < j) /\ ~(j < i)
  BY <1>2, <1>3 DEF Current
<1> QED
  BY <1>1, <1>4

\* No node changes and the plan is started.
LEMMA MakePlanKeepsPlan ==
    ASSUME PlanInv, MakePlan PROVE PlanFacts'
<1>1. clusterWorker'.pc = "idle" /\ UNCHANGED <<op, provisioned, clusterWorker>>
  BY DEF MakePlan, Dispatched, Idle, vars
<1>2. KnownOperation /\ clusterOp.steps \in Seq(PlanSteps) /\ Coherent /\ TypeOK
  BY DEF PlanInv, PlanTypeInv, ClusterTypeOK, LockInv
<1>3. CASE clusterOp' = [clusterOp EXCEPT !.phase = "Failed"]
  <2>1. clusterOp'.phase = "Failed"
    BY <1>2, <1>3 DEF KnownOperation
  <2>2. DoneEverywhere'
    BY <2>1 DEF DoneEverywhere
  <2> QED
    BY <1>1, <2>1, <2>2 DEF PlanFacts, StepsOfPlan, InOrder, WatchesItsOwn, OnlyCurrentRuns,
                            DoneStays, Recording
<1>4. CASE ~Refuses(clusterOp.type)
           /\ clusterOp' = [clusterOp EXCEPT !.phase = "InProgress",
                                             !.steps = Plan(clusterOp.type)]
  <2> DEFINE t == clusterOp.type
             list == listEligibleNodes(InRole(t))
  <2>1. clusterOp'.phase = "InProgress" /\ clusterOp'.type = t /\ clusterOp'.steps = Plan(t)
    BY <1>2, <1>4 DEF KnownOperation
  <2>2. t \in ClusterOperationTypes
    BY <1>2, Planable DEF MakePlan
  <2>3. /\ DOMAIN Plan(t) = DOMAIN PlanNodes(t)
        /\ \A i \in DOMAIN Plan(t) : /\ Plan(t)[i].node = PlanNodes(t)[i]
                                     /\ Plan(t)[i].phase = "Pending"
    BY <2>2, PlanType
  <2>4. /\ PlanNodes(t) \in Seq({n \in InRole(t) : provisioned[n]})
        /\ t # "Bootstrap" =>
             \A n \in Nodes : provisioned[n] =>
                \E i \in DOMAIN PlanNodes(t) : PlanNodes(t)[i] = n
    BY <2>2, PlanNodesEligible
  <2>5. \A i \in DOMAIN PlanNodes(t) : PlanNodes(t)[i] \in {n \in InRole(t) : provisioned[n]}
    BY <2>4
  <2>6. \A n \in InRole(t) : provisioned[n] => isOperationComplete(op[n])
    <3>1. InRole(t) \subseteq Nodes
      <4>1. ControlPlanes \subseteq Nodes
        BY ClusterConstantsAssumption
      <4> QED
        BY <4>1 DEF InRole
    <3>2. ~otherOpsInProgress(list)
      BY <1>4 DEF Refuses, InRole
    <3>3. \A n \in InRole(t) : provisioned[n] => \E i \in DOMAIN list : list[i] = n
      BY <3>1, Eligible
    <3>4. \A i \in DOMAIN list : cached[list[i]] \in Complete \union {"None"}
      BY <3>2 DEF otherOpsInProgress
    <3> HIDE DEF list
    <3>5. \A n \in InRole(t) : provisioned[n] => cached[n] \in Complete \union {"None"}
      BY <3>3, <3>4
    <3> QED
      BY <1>2, <3>1, <3>5 DEF Coherent, isOperationComplete
  <2>7. StepsOfPlan'
    BY <1>1, <2>1, <2>3, <2>4, <2>5 DEF StepsOfPlan, Looked
  <2>8. InOrder' /\ WatchesItsOwn' /\ DoneStays'
    BY <2>1, <2>3 DEF InOrder, WatchesItsOwn, DoneStays
  <2>9. OnlyCurrentRuns'
    BY <1>1, <2>1, <2>6 DEF OnlyCurrentRuns, Looked
  <2>10. Recording' /\ DoneEverywhere'
    BY <1>1, <2>1 DEF Recording, DoneEverywhere
  <2> QED
    BY <2>7, <2>8, <2>9, <2>10 DEF PlanFacts
<1> QED
  BY <1>3, <1>4 DEF MakePlan, SetPhase

\* A step of the plan is written that was not Done and is not Done now.
LEMMA CurrentKept ==
    ASSUME clusterOp.steps \in Seq(PlanSteps),
           NEW i \in DOMAIN clusterOp.steps, NEW p, StepWritten(i, p),
           (p = "Done") = (clusterOp.steps[i].phase = "Done")
    PROVE  \A j \in DOMAIN clusterOp.steps : Current(j)' = Current(j)
<1> SUFFICES ASSUME NEW j \in DOMAIN clusterOp.steps PROVE Current(j)' = Current(j)
  OBVIOUS
<1>1. \A k \in DOMAIN clusterOp.steps :
         (clusterOp'.steps[k].phase = "Done") = (clusterOp.steps[k].phase = "Done")
  BY DEF StepWritten
<1>2. \A k \in 1..(j - 1) : k \in DOMAIN clusterOp.steps
  BY StepFields
<1> QED
  BY <1>1, <1>2 DEF StepWritten, Current

\* ... so that the same node is the one that may be busy.
LEMMA WrittenKeepsRuns ==
    ASSUME PlanInv, NEW i \in DOMAIN clusterOp.steps, NEW p, StepWritten(i, p),
           (p = "Done") = (clusterOp.steps[i].phase = "Done"), UNCHANGED <<op, provisioned>>
    PROVE  StepsOfPlan' /\ OnlyCurrentRuns' /\ DoneStays' /\ DoneEverywhere'
<1>1. clusterOp.steps \in Seq(PlanSteps) /\ PlanFacts
  BY DEF PlanInv, PlanTypeInv, ClusterTypeOK
<1>2. \A j \in DOMAIN clusterOp.steps : Current(j)' = Current(j)
  BY <1>1, CurrentKept
<1>3. /\ clusterOp'.phase = clusterOp.phase /\ clusterOp'.type = clusterOp.type
      /\ subType' = subType /\ \A n : Looked(n)' = Looked(n)
      /\ DOMAIN clusterOp'.steps = DOMAIN clusterOp.steps
      /\ \A j \in DOMAIN clusterOp.steps :
            /\ clusterOp'.steps[j].node = clusterOp.steps[j].node
            /\ clusterOp'.steps[j].phase = "Done" <=> clusterOp.steps[j].phase = "Done"
  BY DEF StepWritten, subType, Looked
<1>4. StepsOfPlan'
  BY <1>1, <1>3 DEF PlanFacts, StepsOfPlan
<1>5. OnlyCurrentRuns'
  BY <1>1, <1>2, <1>3 DEF PlanFacts, OnlyCurrentRuns
<1>6. DoneStays'
  BY <1>1, <1>2, <1>3 DEF PlanFacts, DoneStays
<1>7. DoneEverywhere'
  BY <1>1, <1>3 DEF PlanFacts, DoneEverywhere
<1> QED
  BY <1>4, <1>5, <1>6, <1>7

\* The second write of a start keeps the facts about the plan.
LEMMA RecordKeepsPlan ==
    ASSUME PlanInv, SubOpRecord PROVE PlanFacts'
<1> DEFINE i == clusterWorker.step
<1>1. /\ clusterOp.steps \in Seq(PlanSteps) /\ PlanFacts /\ KnownOperation
      /\ UNCHANGED <<op, provisioned>> /\ clusterWorker'.pc = "idle"
  BY DEF PlanInv, PlanTypeInv, ClusterTypeOK, SubOpRecord, vars, Idle
<1>2. /\ i \in DOMAIN clusterOp.steps /\ Current(i) /\ clusterOp.steps[i].phase = "Pending"
      /\ op[clusterOp.steps[i].node].type = subType
  BY <1>1 DEF PlanFacts, Recording, SubOpRecord
<1>3. StepWritten(i, "Applying")
  BY <1>1, <1>2, RecordWrites
<1> HIDE DEF i
<1>4. StepsOfPlan' /\ OnlyCurrentRuns' /\ DoneStays' /\ DoneEverywhere'
  BY <1>1, <1>2, <1>3, WrittenKeepsRuns
<1>5. InOrder'
  <2> SUFFICES ASSUME NEW j \in DOMAIN clusterOp.steps, NEW k \in DOMAIN clusterOp.steps,
                      j < k, clusterOp'.steps[k].phase # "Pending"
               PROVE  clusterOp'.steps[j].phase = "Done"
    BY <1>3 DEF InOrder, StepWritten
  <2>1. j \in Nat /\ k \in Nat /\ j >= 1
    BY <1>1, StepFields
  <2>2. CASE k = i
    <3>1. j \in 1..(i - 1) /\ j # i
      BY <2>1, <2>2
    <3> QED
      BY <1>2, <1>3, <3>1 DEF Current, StepWritten
  <2>3. CASE k # i
    <3>1. clusterOp.steps[j].phase = "Done"
      BY <1>1, <1>2, <1>3, <2>3 DEF PlanFacts, InOrder, StepWritten, Current
    <3> QED
      BY <1>2, <1>3, <3>1 DEF StepWritten
  <2> QED
    BY <2>2, <2>3
<1>6. WatchesItsOwn'
  <2>1. subType' = subType
    BY <1>3 DEF StepWritten, subType
  <2> QED
    BY <1>1, <1>2, <1>3, <2>1 DEF PlanFacts, WatchesItsOwn, StepWritten
<1>7. Recording'
  BY <1>1 DEF Recording
<1> QED
  BY <1>4, <1>5, <1>6, <1>7 DEF PlanFacts

\* Time passes for a step.
LEMMA ElapseKeepsPlan ==
    ASSUME PlanInv, NEW i \in DOMAIN clusterOp.steps, StepElapse(i) PROVE PlanFacts'
<1>1. /\ clusterOp.steps \in Seq(PlanSteps) /\ PlanFacts /\ KnownOperation
      /\ UNCHANGED <<op, provisioned, clusterWorker>>
  BY DEF PlanInv, PlanTypeInv, ClusterTypeOK, StepElapse, vars
<1>2. StepWritten(i, clusterOp.steps[i].phase)
  BY <1>1, ElapseWrites
<1>3. StepsOfPlan' /\ OnlyCurrentRuns' /\ DoneStays' /\ DoneEverywhere'
  BY <1>1, <1>2, WrittenKeepsRuns
<1>4. \A j \in DOMAIN clusterOp.steps : Current(j)' = Current(j)
  BY <1>1, <1>2, CurrentKept
<1>5. /\ DOMAIN clusterOp'.steps = DOMAIN clusterOp.steps
      /\ \A j \in DOMAIN clusterOp.steps :
            /\ clusterOp'.steps[j].phase = clusterOp.steps[j].phase
            /\ clusterOp'.steps[j].node = clusterOp.steps[j].node
      /\ clusterOp'.phase = clusterOp.phase /\ subType' = subType
  BY <1>2 DEF StepWritten, subType
<1>6. InOrder' /\ WatchesItsOwn'
  BY <1>1, <1>5 DEF PlanFacts, InOrder, WatchesItsOwn
<1>7. Recording'
  BY <1>1, <1>4, <1>5 DEF PlanFacts, Recording
<1> QED
  BY <1>3, <1>6, <1>7 DEF PlanFacts

\* The operation of a watched step is over: then every node of the plan is idle.
LEMMA MonitorSeesIdle ==
    ASSUME PlanInv, NEW i \in DOMAIN clusterOp.steps, SubOpMonitor(i)
    PROVE  /\ clusterOp.phase = "InProgress"
           /\ \A n \in Nodes : Looked(n) => isOperationComplete(op[n])
           /\ op[clusterOp.steps[i].node].phase = cached[clusterOp.steps[i].node]
           /\ op[clusterOp.steps[i].node].phase \in Complete
           /\ op[clusterOp.steps[i].node].type = subType
<1>1. /\ clusterOp.steps \in Seq(PlanSteps) /\ PlanFacts /\ Coherent
  BY DEF PlanInv, PlanTypeInv, ClusterTypeOK, LockInv
<1>2. /\ Current(i) /\ clusterOp.phase = "InProgress" /\ clusterOp.steps[i].phase = "Applying"
      /\ cached[clusterOp.steps[i].node] \in Complete /\ clusterOp.steps[i].node \in Nodes
  BY DEF SubOpMonitor, Current
<1>3. op[clusterOp.steps[i].node].phase = cached[clusterOp.steps[i].node]
  BY <1>1, <1>2 DEF Coherent
<1>4. op[clusterOp.steps[i].node].type = subType
  BY <1>1, <1>2 DEF PlanFacts, WatchesItsOwn
<1>5. ASSUME NEW n \in Nodes, Looked(n), ~isOperationComplete(op[n]) PROVE FALSE
  <2>1. PICK j \in DOMAIN clusterOp.steps : Current(j) /\ clusterOp.steps[j].node = n
    BY <1>1, <1>2, <1>5 DEF PlanFacts, OnlyCurrentRuns
  <2>2. j = i
    BY <1>1, <1>2, <2>1, OneCurrent
  <2> QED
    BY <1>2, <1>3, <1>5, <2>1, <2>2 DEF isOperationComplete
<1> QED
  BY <1>2, <1>3, <1>4, <1>5

\* So does the monitor that finds the step Done.
LEMMA MonitorKeepsPlan ==
    ASSUME PlanInv, NEW i \in DOMAIN clusterOp.steps, SubOpMonitor(i) PROVE PlanFacts'
<1> DEFINE result == op[clusterOp.steps[i].node].phase
<1>1. /\ clusterOp.steps \in Seq(PlanSteps) /\ PlanFacts /\ KnownOperation
      /\ UNCHANGED <<op, provisioned>> /\ clusterWorker'.pc # "record"
      /\ Current(i)
  BY DEF PlanInv, PlanTypeInv, ClusterTypeOK, SubOpMonitor, vars, Idle
<1>2. /\ clusterOp.phase = "InProgress" /\ result \in Complete
      /\ op[clusterOp.steps[i].node].type = subType
      /\ \A n \in Nodes : Looked(n) => isOperationComplete(op[n])
  BY MonitorSeesIdle
<1>3. StepWritten(i, result)
  BY <1>1, MonitorSeesIdle, MonitorWrites
<1>4. /\ clusterOp'.phase = "InProgress" /\ clusterOp'.type = clusterOp.type
      /\ subType' = subType /\ \A n : Looked(n)' = Looked(n)
      /\ DOMAIN clusterOp'.steps = DOMAIN clusterOp.steps
      /\ \A j \in DOMAIN clusterOp.steps :
            /\ clusterOp'.steps[j].node = clusterOp.steps[j].node
            /\ clusterOp'.steps[j].phase = IF j = i THEN result ELSE clusterOp.steps[j].phase
  BY <1>1, <1>2, <1>3 DEF StepWritten, subType, Looked
<1> HIDE DEF result
<1>5. StepsOfPlan'
  BY <1>1, <1>2, <1>4 DEF PlanFacts, StepsOfPlan
<1>6. OnlyCurrentRuns'
  BY <1>1, <1>2, <1>4 DEF OnlyCurrentRuns
<1>7. InOrder'
  <2> SUFFICES ASSUME NEW j \in DOMAIN clusterOp.steps, NEW k \in DOMAIN clusterOp.steps,
                      j < k, clusterOp'.steps[k].phase # "Pending"
               PROVE  clusterOp'.steps[j].phase = "Done"
    BY <1>4 DEF InOrder
  <2>1. j \in Nat /\ k \in Nat /\ j >= 1
    BY <1>1, StepFields
  <2>2. CASE k = i
    <3>1. j \in 1..(i - 1) /\ j # i
      BY <2>1, <2>2
    <3> QED
      BY <1>1, <1>4, <3>1 DEF Current
  <2>3. CASE k # i
    <3>1. clusterOp.steps[j].phase = "Done"
      BY <1>1, <1>2, <1>4, <2>3 DEF PlanFacts, InOrder
    <3>2. j # i
      BY <1>1, <3>1 DEF Current
    <3> QED
      BY <1>4, <3>1, <3>2
  <2> QED
    BY <2>2, <2>3
<1>8. WatchesItsOwn'
  BY <1>1, <1>2, <1>4 DEF PlanFacts, WatchesItsOwn, Complete
<1>9. DoneStays'
  <2> SUFFICES ASSUME NEW j \in DOMAIN clusterOp.steps, clusterOp'.steps[j].phase = "Done"
               PROVE  \/ /\ op[clusterOp.steps[j].node].phase = "Done"
                         /\ op[clusterOp.steps[j].node].type = subType
                      \/ \E k \in DOMAIN clusterOp.steps :
                            Current(k)' /\ clusterOp.steps[k].node = clusterOp.steps[j].node
    BY <1>1, <1>4 DEF DoneStays
  <2>1. CASE result = "Failed"
    <3>1. \A k \in DOMAIN clusterOp.steps : Current(k)' = Current(k)
      <4>1. (result = "Done") = (clusterOp.steps[i].phase = "Done")
        BY <1>1, <2>1 DEF Current
      <4> QED
        BY <1>1, <1>3, <4>1, CurrentKept
    <3>2. clusterOp.steps[j].phase = "Done"
      BY <1>4, <2>1
    <3> QED
      BY <1>1, <1>2, <3>1, <3>2 DEF PlanFacts, DoneStays
  <2>2. CASE result = "Done" /\ clusterOp.steps[j].node = clusterOp.steps[i].node
    BY <1>2, <2>2 DEF result
  <2>3. CASE result = "Done" /\ clusterOp.steps[j].node # clusterOp.steps[i].node
    <3>1. clusterOp.steps[j].phase = "Done"
      BY <1>4, <2>3
    <3>2. ASSUME NEW k \in DOMAIN clusterOp.steps, Current(k),
                 clusterOp.steps[k].node = clusterOp.steps[j].node
          PROVE  FALSE
      BY <1>1, <2>3, <3>2, OneCurrent
    <3> QED
      BY <1>1, <1>2, <3>1, <3>2 DEF PlanFacts, DoneStays
  <2> QED
    BY <1>2, <2>1, <2>2, <2>3 DEF Complete
<1>10. Recording' /\ DoneEverywhere'
  BY <1>1, <1>4 DEF Recording, DoneEverywhere
<1> QED
  BY <1>5, <1>6, <1>7, <1>8, <1>9, <1>10 DEF PlanFacts

\* What a plan starts on a node is a step's operation, Pending; it takes nobody's
\* place but that of an operation that is over or of its own first start.
LEMMA BeginStarts ==
    ASSUME PlanInv, NEW i \in DOMAIN clusterOp.steps, SubOpBegin(i)
    PROVE  LET n == clusterOp.steps[i].node
           IN  /\ n \in Nodes /\ Looked(n) /\ Current(i) /\ clusterOp.steps[i].phase = "Pending"
               /\ clusterOp.phase = "InProgress"
               /\ isOperationComplete(op[n]) \/ op[n].type = subType
               /\ op'[n].phase = "Pending" /\ op'[n].type = subType
               /\ \A m \in Nodes : m # n => op'[m] = op[m]
               /\ UNCHANGED <<provisioned, worker, request, clusterOp>>
               /\ clusterWorker' = [pc |-> "record", step |-> i]
<1> DEFINE n == clusterOp.steps[i].node
<1>1. /\ n \in Nodes /\ Current(i) /\ clusterOp.steps[i].phase = "Pending"
      /\ clusterOp.phase = "InProgress" /\ UNCHANGED <<provisioned, worker, request, clusterOp>>
      /\ clusterWorker' = [pc |-> "record", step |-> i]
  BY DEF SubOpBegin, Current, SubOpStart
<1>2. PlanFacts /\ op \in [Nodes -> Operations]
  BY DEF PlanInv, LockInv, TypeOK
<1>3. Looked(n)
  BY <1>1, <1>2 DEF PlanFacts, StepsOfPlan
<1>4. isOperationComplete(op[n]) \/ op[n].type = subType
  BY <1>1, <1>2, <1>3 DEF PlanFacts, OnlyCurrentRuns
<1>5. op' = [op EXCEPT ![n] = [type |-> subType, unsafe |-> FALSE,
                                phase |-> "Pending", late |-> FALSE]]
  BY DEF SubOpBegin, SubOpStart, Store, Initialized, subType
<1>6. /\ op'[n].phase = "Pending" /\ op'[n].type = subType
      /\ \A m \in Nodes : m # n => op'[m] = op[m]
  BY <1>1, <1>2, <1>5
<1> QED
  BY <1>1, <1>3, <1>4, <1>6

\* No plan provisions or resets.
LEMMA SubTypesAreHarmless == subType \notin {"Provision", "Reset"}
BY DEF subType, SubOpType

\* The first write of a start keeps the facts about the plan.
LEMMA BeginKeepsPlan ==
    ASSUME PlanInv, NEW i \in DOMAIN clusterOp.steps, SubOpBegin(i)
    PROVE  PlanFacts' /\ Undisturbed' /\ HandlesLive'
<1> DEFINE n == clusterOp.steps[i].node
<1>1. /\ n \in Nodes /\ Looked(n) /\ Current(i) /\ clusterOp.steps[i].phase = "Pending"
      /\ clusterOp.phase = "InProgress"
      /\ isOperationComplete(op[n]) \/ op[n].type = subType
      /\ op'[n].phase = "Pending" /\ op'[n].type = subType
      /\ \A m \in Nodes : m # n => op'[m] = op[m]
      /\ UNCHANGED <<provisioned, worker, request, clusterOp>>
      /\ clusterWorker' = [pc |-> "record", step |-> i]
  BY BeginStarts
<1>2. /\ PlanFacts /\ TypeOK /\ Undisturbed /\ HandlesLive /\ ClusterTypeOK
      /\ \A j \in DOMAIN clusterOp.steps : clusterOp.steps[j].node \in Nodes
  BY StepFields DEF PlanInv, LockInv, PlanTypeInv, ClusterTypeOK
<1>3. /\ subType' = subType /\ \A m : Looked(m)' = Looked(m)
      /\ \A j : Current(j)' = Current(j)
  BY <1>1 DEF subType, Looked, Current
<1> HIDE DEF n
<1>n. n = clusterOp.steps[i].node
  BY DEF n
<1>4. StepsOfPlan' /\ InOrder' /\ DoneEverywhere'
  BY <1>1, <1>2, <1>3 DEF PlanFacts, StepsOfPlan, InOrder, DoneEverywhere
<1>5. WatchesItsOwn'
  BY <1>1, <1>2, <1>3 DEF PlanFacts, WatchesItsOwn
<1>6. OnlyCurrentRuns'
  BY <1>1, <1>2, <1>3, <1>n DEF PlanFacts, OnlyCurrentRuns
<1>7. DoneStays'
  BY <1>1, <1>2, <1>3, <1>n DEF PlanFacts, DoneStays
<1>8. Recording'
  BY <1>1, <1>3, <1>n DEF Recording
<1>9. Undisturbed'
  BY <1>1, <1>2, SubTypesAreHarmless DEF Undisturbed, Looked
<1>10. HandlesLive'
  <2> SUFFICES ASSUME worker.pc = "handle"
               PROVE  ~isOperationComplete(op'[worker.node]) /\ op'[worker.node].type = worker.op.type
    BY <1>1 DEF HandlesLive
  <2>1. /\ worker.node \in Nodes /\ ~isOperationComplete(op[worker.node])
        /\ op[worker.node].type = worker.op.type
    BY <1>2, WorkerFields DEF HandlesLive
  <2>2. CASE worker.node = n
    BY <1>1, <2>1, <2>2 DEF isOperationComplete, Complete
  <2>3. CASE worker.node # n
    BY <1>1, <2>1, <2>3
  <2> QED
    BY <2>2, <2>3
<1> QED
  BY <1>4, <1>5, <1>6, <1>7, <1>8, <1>9, <1>10 DEF PlanFacts

\* All steps are Done: so is the operation, on every node.
LEMMA DoneKeepsPlan ==
    ASSUME PlanInv, SubOpsDone PROVE PlanFacts'
<1>1. /\ clusterOp.phase = "InProgress" /\ PlanFacts /\ KnownOperation
      /\ clusterOp' = [clusterOp EXCEPT !.phase = "Postflight"]
      /\ UNCHANGED <<op, provisioned>> /\ clusterWorker'.pc = "idle"
      /\ \A i \in DOMAIN clusterOp.steps : clusterOp.steps[i].phase = "Done"
  BY DEF PlanInv, PlanTypeInv, SubOpsDone, SetPhase, AllStepsDone, Dispatched, Idle, vars
<1>2. clusterOp'.phase = "Postflight" /\ clusterOp'.type = clusterOp.type
  BY <1>1 DEF KnownOperation
<1>3. \A i \in DOMAIN clusterOp.steps : ~Current(i)
  BY <1>1 DEF Current
<1>4. \A i \in DOMAIN clusterOp.steps :
         op[clusterOp.steps[i].node].phase = "Done" /\ op[clusterOp.steps[i].node].type = subType
  BY <1>1, <1>3 DEF PlanFacts, DoneStays
<1>5. DoneEverywhere'
  BY <1>1, <1>2, <1>4 DEF PlanFacts, StepsOfPlan, DoneEverywhere, subType
<1> QED
  BY <1>1, <1>2, <1>5
  DEF PlanFacts, StepsOfPlan, InOrder, WatchesItsOwn, OnlyCurrentRuns, DoneStays, Recording

\* The other steps of the Cluster controller end an operation or replace it.
LEMMA EndKeepsPlan ==
    ASSUME PlanInv, UNCHANGED <<op, provisioned>>, clusterWorker'.pc # "record",
           \/ clusterOp'.phase \in {"Pending", "Failed"}
           \/ /\ clusterOp.phase = "Postflight" /\ clusterOp'.phase = "Done"
              /\ clusterOp'.type = clusterOp.type
    PROVE  PlanFacts'
<1>1. DoneEverywhere'
  BY DEF PlanInv, PlanFacts, DoneEverywhere
<1> QED
  BY <1>1
  DEF PlanFacts, StepsOfPlan, InOrder, WatchesItsOwn, OnlyCurrentRuns, DoneStays, Recording

\* ... or leave it alone.
LEMMA SameKeepsPlan ==
    ASSUME PlanInv, UNCHANGED <<op, provisioned, clusterOp>>,
           clusterWorker' = clusterWorker \/ clusterWorker'.pc # "record"
    PROVE  PlanFacts'
<1>1. PlanFacts
  BY DEF PlanInv
<1>2. /\ subType' = subType /\ \A m : Looked(m)' = Looked(m)
      /\ \A j : Current(j)' = Current(j)
  BY DEF subType, Looked, Current
<1>3. StepsOfPlan' /\ InOrder' /\ DoneEverywhere' /\ WatchesItsOwn'
  BY <1>1, <1>2 DEF PlanFacts, StepsOfPlan, InOrder, DoneEverywhere, WatchesItsOwn
<1>4. OnlyCurrentRuns' /\ DoneStays'
  BY <1>1, <1>2 DEF PlanFacts, OnlyCurrentRuns, DoneStays
<1>5. Recording'
  BY <1>1, <1>2 DEF PlanFacts, Recording
<1> QED
  BY <1>3, <1>4, <1>5 DEF PlanFacts

\* Every step keeps the invariant about plans.
LEMMA PlanNext ==
    ASSUME UserTypes = {}, CoherentCache = TRUE
    PROVE  PlanInv /\ [ClusterNext]_allVars => PlanInv'
<1> SUFFICES ASSUME PlanInv, [ClusterNext]_allVars PROVE PlanInv'
  OBVIOUS
<1> DEFINE Goal == PlanFacts' /\ Undisturbed' /\ HandlesLive'
<1>0. /\ LockInv /\ TypeOK /\ PlanTypeInv /\ KnownOperation /\ ClusterTypeOK
      /\ Undisturbed /\ HandlesLive /\ PlanFacts
  BY DEF PlanInv, LockInv, PlanTypeInv
<1>i. LockInv' /\ PlanTypeInv'
  BY <1>0, ClusterStep, LockNext, ClusterTypeNext
<1> SUFFICES Goal
  BY <1>i DEF PlanInv
<1>a. ASSUME UNCHANGED vars, PlanFacts' PROVE Goal
  BY <1>0, <1>a DEF vars, Undisturbed, HandlesLive
<1>1. CASE NodeNext /\ UNCHANGED clusterVars
  <2>1. NodesMoveOn /\ Undisturbed' /\ HandlesLive'
    BY <1>0, <1>1, NodeStepMovesOn
  <2>2. UNCHANGED <<clusterOp, clusterWorker>>
    BY <1>1 DEF clusterVars
  <2> QED
    BY <1>0, <2>1, <2>2, MovingOnKeepsPlan
<1>2. CASE \/ ClusterIntakeClear \/ ClusterAbort \/ UNCHANGED allVars
           \/ \E t \in ClusterUserTypes : RequestClusterOp(t)
  <2>1. /\ UNCHANGED vars /\ UNCHANGED <<op, provisioned, clusterOp>>
        /\ clusterWorker' = clusterWorker \/ clusterWorker'.pc # "record"
    BY <1>2 DEF ClusterIntakeClear, ClusterAbort, RequestClusterOp, Idle, vars, allVars, clusterVars
  <2> QED
    BY <1>a, <2>1, SameKeepsPlan
<1>3. CASE ClusterIntakeCopy \/ \E t \in AutomaticTypes : MaintenanceTrigger(t)
  <2>1. /\ UNCHANGED vars /\ UNCHANGED <<op, provisioned>>
        /\ clusterOp'.phase = "Pending" /\ clusterWorker'.pc # "record"
    BY <1>3 DEF ClusterIntakeCopy, MaintenanceTrigger, Dispatched, Idle, vars
  <2> QED
    BY <1>a, <2>1, EndKeepsPlan
<1>4. CASE MakePlan
  <2>1. UNCHANGED vars
    BY <1>4 DEF MakePlan
  <2> QED
    BY <1>4, <1>a, <2>1, MakePlanKeepsPlan
<1>5. CASE SubOpRecord
  BY <1>5, <1>a, RecordKeepsPlan DEF SubOpRecord
<1>6. CASE SubOpsDone
  BY <1>6, <1>a, DoneKeepsPlan DEF SubOpsDone
<1>7. CASE Postflight
  <2>1. /\ UNCHANGED vars /\ UNCHANGED <<op, provisioned>> /\ clusterWorker'.pc # "record"
        /\ clusterOp.phase = "Postflight"
    BY <1>7 DEF Postflight, Dispatched, Idle, vars
  <2>2. clusterOp'.phase \in {"Done", "Failed"} /\ clusterOp'.type = clusterOp.type
    BY <1>0, <1>7 DEF Postflight, KnownOperation
  <2> QED
    BY <1>a, <2>1, <2>2, EndKeepsPlan
<1>8. ASSUME NEW i \in DOMAIN clusterOp.steps, SubOpBegin(i) PROVE Goal
  BY <1>8, BeginKeepsPlan
<1>9. ASSUME NEW i \in DOMAIN clusterOp.steps, SubOpMonitor(i) PROVE Goal
  BY <1>9, <1>a, MonitorKeepsPlan DEF SubOpMonitor
<1>10. ASSUME NEW i \in DOMAIN clusterOp.steps, SubOpTimeout(i) \/ SubOpFailed(i) PROVE Goal
  <2>1. /\ UNCHANGED vars /\ UNCHANGED <<op, provisioned>> /\ clusterWorker'.pc # "record"
    BY <1>10 DEF SubOpTimeout, SubOpFailed, Dispatched, Idle, vars
  <2>2. clusterOp'.phase = "Failed"
    BY <1>0, <1>10 DEF SubOpTimeout, SubOpFailed, SetPhase, KnownOperation
  <2> QED
    BY <1>a, <2>1, <2>2, EndKeepsPlan
<1>11. ASSUME NEW i \in DOMAIN clusterOp.steps, StepElapse(i) PROVE Goal
  BY <1>11, <1>a, ElapseKeepsPlan DEF StepElapse
<1> QED
  BY <1>1, <1>2, <1>3, <1>4, <1>5, <1>6, <1>7, <1>8, <1>9, <1>10, <1>11
  DEF ClusterNext, ClusterReconcile

\* A rolling operation or upgrade that is over was successful on every node, for
\* any number of nodes, operations, crashes of either controller and outages.
THEOREM DoneOnEveryNode ==
    ASSUME UserTypes = {}, CoherentCache = TRUE PROVE ClusterSpec => []DoneEverywhere
<1>1. PlanInv => DoneEverywhere
  BY DEF PlanInv, PlanFacts
<1> QED
  BY <1>1, PlanInit, PlanNext, PTL DEF ClusterSpec

\* StepDoneIsReal, as a formula about one step.
RealDone ==
    \A i \in DOMAIN clusterOp.steps :
       /\ i \in DOMAIN clusterOp'.steps
       /\ clusterOp.steps[i].phase # "Done"
       /\ clusterOp'.steps[i].phase = "Done"
       => LET n == clusterOp.steps[i].node
          IN op[n].phase = "Done" /\ op[n].type = SubOpType(clusterOp.type)

\* A step becomes Done only by its node's operation being Done.
LEMMA DoneIsReal ==
    ASSUME PlanInv, [ClusterNext]_allVars PROVE RealDone
<1>0. KnownOperation /\ clusterOp.steps \in Seq(PlanSteps)
  BY DEF PlanInv, PlanTypeInv, ClusterTypeOK
<1>a. ASSUME clusterOp'.steps = clusterOp.steps \/ clusterOp'.steps = <<>> PROVE RealDone
  BY <1>a DEF RealDone
<1>b. ASSUME NEW i \in DOMAIN clusterOp.steps, NEW p, StepWritten(i, p),
             \/ p # "Done" \/ clusterOp.steps[i].phase = "Done"
             \/ /\ op[clusterOp.steps[i].node].phase = "Done"
                /\ op[clusterOp.steps[i].node].type = subType
      PROVE  RealDone
  BY <1>b DEF RealDone, StepWritten, subType
<1>1. CASE UNCHANGED clusterOp
  BY <1>1, <1>a
<1>2. CASE ClusterIntakeCopy \/ \E t \in AutomaticTypes : MaintenanceTrigger(t)
  BY <1>2, <1>a DEF ClusterIntakeCopy, MaintenanceTrigger
<1>3. CASE MakePlan
  <2>1. CASE clusterOp' = [clusterOp EXCEPT !.phase = "Failed"]
    BY <1>0, <1>a, <2>1 DEF KnownOperation
  <2>2. CASE clusterOp' = [clusterOp EXCEPT !.phase = "InProgress",
                                            !.steps = Plan(clusterOp.type)]
    <3>1. clusterOp'.steps = Plan(clusterOp.type)
      BY <1>0, <2>2 DEF KnownOperation
    <3>2. \A i \in DOMAIN Plan(clusterOp.type) : Plan(clusterOp.type)[i].phase = "Pending"
      BY <1>0, <1>3, Planable, PlanType DEF MakePlan
    <3> QED
      BY <3>1, <3>2 DEF RealDone
  <2> QED
    BY <1>3, <2>1, <2>2 DEF MakePlan, SetPhase
<1>4. CASE SubOpRecord
  <2>1. clusterWorker.step \in DOMAIN clusterOp.steps
    BY <1>4 DEF PlanInv, PlanFacts, Recording, SubOpRecord
  <2>2. StepWritten(clusterWorker.step, "Applying")
    BY <1>0, <1>4, <2>1, RecordWrites
  <2> QED
    BY <1>b, <2>1, <2>2
<1>5. CASE SubOpsDone \/ Postflight
  BY <1>0, <1>5, <1>a DEF SubOpsDone, Postflight, SetPhase, KnownOperation
<1>6. ASSUME NEW i \in DOMAIN clusterOp.steps, SubOpMonitor(i) PROVE RealDone
  <2>1. /\ op[clusterOp.steps[i].node].phase = cached[clusterOp.steps[i].node]
        /\ op[clusterOp.steps[i].node].type = subType
    BY <1>6, MonitorSeesIdle
  <2>2. StepWritten(i, op[clusterOp.steps[i].node].phase)
    BY <1>0, <1>6, <2>1, MonitorWrites
  <2> QED
    BY <1>b, <2>1, <2>2
<1>7. ASSUME NEW i \in DOMAIN clusterOp.steps, SubOpTimeout(i) \/ SubOpFailed(i) PROVE RealDone
  BY <1>0, <1>7, <1>a DEF SubOpTimeout, SubOpFailed, SetPhase, KnownOperation
<1>8. ASSUME NEW i \in DOMAIN clusterOp.steps, StepElapse(i) PROVE RealDone
  <2>1. StepWritten(i, clusterOp.steps[i].phase)
    BY <1>0, <1>8, ElapseWrites
  <2> QED
    BY <1>b, <2>1
<1> QED
  BY <1>1, <1>2, <1>3, <1>4, <1>5, <1>6, <1>7, <1>8
  DEF ClusterNext, ClusterReconcile, ClusterIntakeClear, ClusterAbort, RequestClusterOp,
      SubOpBegin, allVars, clusterVars

\* A plan takes a step for Done only if its node did finish the operation that
\* the plan started, also when the start was repeated after a crash.
THEOREM StepsAreReal ==
    ASSUME UserTypes = {}, CoherentCache = TRUE PROVE ClusterSpec => StepDoneIsReal
<1>1. PlanInv /\ [ClusterNext]_allVars =>
        [\A i \in DOMAIN clusterOp.steps :
           /\ i \in DOMAIN clusterOp'.steps
           /\ clusterOp.steps[i].phase # "Done"
           /\ clusterOp'.steps[i].phase = "Done"
           => LET n == clusterOp.steps[i].node
              IN op[n].phase = "Done" /\ op[n].type = SubOpType(clusterOp.type)]_allVars
  BY DoneIsReal DEF RealDone
<1> QED
  BY <1>1, PlanInit, PlanNext, PTL DEF ClusterSpec, StepDoneIsReal

-----------------------------------------------------------------------------
(***************************************************************************)
(* Disruption.  An operation of the automation that fails stops it, until  *)
(* a cluster operation of a user is successful.  If that was one that ran  *)
(* on every node, nothing is left of the failure.  A bootstrap runs on one *)
(* node only, so that users are assumed not to repeat it.                  *)
(***************************************************************************)
Disrupted(n) == /\ op[n].phase \notin {"Done", "None"}
                /\ op[n].type \in {SubOpType(t) : t \in AutomaticTypes}

\* Nothing is disrupted when the automation may start, and when it plans.
CleanStart ==
    \/ clusterOp.phase \in {"Postflight", "Done"}
    \/ clusterOp.phase = "Pending" /\ clusterOp.type \in AutomaticTypes
    => \A n \in Nodes : ~Disrupted(n)

\* While it runs, only the node of the current step is.
DisruptsCurrent ==
    clusterOp.phase = "InProgress" /\ clusterOp.type \in AutomaticTypes =>
        \A n \in Nodes : Disrupted(n) =>
           \E i \in DOMAIN clusterOp.steps : Current(i) /\ clusterOp.steps[i].node = n

UsersAsk == clusterRequest \in ClusterUserTypes \union {"None"}

DisruptionInv == PlanInv /\ UsersAsk /\ CleanStart /\ DisruptsCurrent /\ DisruptsOneNode

\* Nothing is disrupted yet.
LEMMA DisruptionInit == ClusterInit => DisruptionInv
<1> SUFFICES ASSUME ClusterInit PROVE DisruptionInv
  OBVIOUS
<1>1. clusterOp.phase = "Done" /\ \A n \in Nodes : ~Disrupted(n)
  BY DEF ClusterInit, NoClusterOperation, Init, NoOperation, Disrupted
<1> QED
  BY <1>1, PlanInit DEF DisruptionInv, CleanStart, DisruptsCurrent, DisruptsOneNode, Disrupted,
                        UsersAsk, ClusterInit

\* The Node controller disrupts no further node.
LEMMA MovingOnDisruptsNobody ==
    ASSUME NodesMoveOn, NEW n \in Nodes, Disrupted(n)' PROVE Disrupted(n)
BY DEF NodesMoveOn, Disrupted, isOperationComplete, Complete

\* Operations of the automation and of others differ on the nodes, too.
LEMMA SubTypesDiffer ==
    ASSUME NEW t \in ClusterOperationTypes, NEW u \in AutomaticTypes, SubOpType(t) = SubOpType(u)
    PROVE  t = u
<1>1. u \in {"RollingApply", "KubernetesUpgrade"}
  BY ClusterConstantsAssumption
<1> QED
  BY <1>1 DEF ClusterOperationTypes, SubOpType

\* A finished operation that is not a bootstrap leaves nothing disrupted.
LEMMA CleanWhenDone ==
    ASSUME PlanInv, clusterOp.phase \in {"Postflight", "Done"},
           clusterOp.type \notin {"None", "Bootstrap"}
    PROVE  \A n \in Nodes : ~Disrupted(n)
<1> SUFFICES ASSUME NEW n \in Nodes, Disrupted(n) PROVE FALSE
  OBVIOUS
<1>1. DoneEverywhere /\ Undisturbed
  BY DEF PlanInv, PlanFacts
<1>2. op[n].type # "None"
  <2>1. "None" \notin {SubOpType(t) : t \in AutomaticTypes}
    BY ClusterConstantsAssumption DEF SubOpType
  <2> QED
    BY <2>1 DEF Disrupted
<1>3. provisioned[n]
  BY <1>1, <1>2 DEF Undisturbed
<1> QED
  BY <1>1, <1>3 DEF DoneEverywhere, Disrupted

\* Every step keeps the invariant about disruptions.
LEMMA DisruptionNext ==
    ASSUME UserTypes = {}, CoherentCache = TRUE,
           "Bootstrap" \notin ClusterUserTypes, ClusterUserTypes \cap AutomaticTypes = {}
    PROVE  DisruptionInv /\ [ClusterNext]_allVars => DisruptionInv'
<1> SUFFICES ASSUME DisruptionInv, [ClusterNext]_allVars PROVE DisruptionInv'
  OBVIOUS
<1> DEFINE Goal == CleanStart' /\ DisruptsCurrent' /\ DisruptsOneNode'
<1>0. /\ PlanInv /\ PlanInv' /\ KnownOperation /\ KnownOperation'
      /\ clusterOp.steps \in Seq(PlanSteps) /\ PlanFacts /\ UsersAsk
      /\ CleanStart /\ DisruptsCurrent /\ DisruptsOneNode
  BY PlanNext, SMTT(30) DEF DisruptionInv, PlanInv, PlanTypeInv, ClusterTypeOK
<1>u. UsersAsk'
  BY <1>0 DEF UsersAsk, ClusterNext, ClusterReconcile, RequestClusterOp, ClusterIntakeCopy,
              ClusterIntakeClear, MaintenanceTrigger, MakePlan, SubOpBegin, SubOpRecord,
              SubOpMonitor, SubOpTimeout, SubOpFailed, SubOpsDone, Postflight, ClusterAbort,
              StepElapse, allVars, clusterVars
<1> SUFFICES Goal
  BY <1>0, <1>u DEF DisruptionInv
<1>b. clusterOp.type # "Bootstrap"
  BY <1>0, ClusterConstantsAssumption DEF KnownOperation, StartedTypes
<1>d. \A m, n \in Nodes : Disrupted(m) /\ Disrupted(n) => m = n
  BY <1>0 DEF DisruptsOneNode, Disrupted
<1>e. ASSUME \A m, n \in Nodes : Disrupted(m)' /\ Disrupted(n)' => m = n PROVE DisruptsOneNode'
  BY <1>e DEF DisruptsOneNode, Disrupted
<1>f. ASSUME \A n \in Nodes : Disrupted(n)' => Disrupted(n), CleanStart', DisruptsCurrent' PROVE Goal
  BY <1>d, <1>e, <1>f
<1>g. ASSUME UNCHANGED op, CleanStart', DisruptsCurrent' PROVE Goal
  BY <1>f, <1>g DEF Disrupted
<1>h. ASSUME UNCHANGED op, \A n \in Nodes : ~Disrupted(n) PROVE Goal
  BY <1>g, <1>h DEF Disrupted, CleanStart, DisruptsCurrent
<1>i. ASSUME UNCHANGED op, clusterOp'.phase = "Failed" PROVE Goal
  BY <1>g, <1>i DEF CleanStart, DisruptsCurrent
<1>j. ASSUME \A n \in Nodes : Disrupted(n)' => Disrupted(n), UNCHANGED clusterOp PROVE Goal
  <2>1. \A i : Current(i)' = Current(i)
    BY <1>j DEF Current
  <2> QED
    BY <1>0, <1>f, <1>j, <2>1 DEF CleanStart, DisruptsCurrent
<1>k. ASSUME UNCHANGED op, NEW i \in DOMAIN clusterOp.steps, NEW p, StepWritten(i, p),
             (p = "Done") = (clusterOp.steps[i].phase = "Done")
      PROVE  Goal
  <2>1. \A j \in DOMAIN clusterOp.steps : Current(j)' = Current(j)
    BY <1>0, <1>k, CurrentKept
  <2>2. \A n : Disrupted(n)' = Disrupted(n)
    BY <1>k DEF Disrupted
  <2> QED
    BY <1>0, <1>g, <1>k, <2>1, <2>2 DEF CleanStart, DisruptsCurrent, StepWritten
<1>1. CASE NodeNext /\ UNCHANGED clusterVars
  <2>1. NodesMoveOn
    BY <1>0, <1>1, NodeStepMovesOn DEF PlanInv, LockInv
  <2> QED
    BY <1>1, <1>j, <2>1, MovingOnDisruptsNobody DEF clusterVars
<1>2. CASE \/ ClusterIntakeClear \/ ClusterAbort \/ UNCHANGED allVars
           \/ \E t \in ClusterUserTypes : RequestClusterOp(t)
  <2>1. UNCHANGED <<op, clusterOp>>
    BY <1>2 DEF ClusterIntakeClear, ClusterAbort, RequestClusterOp, vars, allVars, clusterVars
  <2> QED
    BY <1>j, <2>1 DEF Disrupted
<1>3. CASE ClusterIntakeCopy
  <2>1. UNCHANGED op /\ clusterOp'.phase = "Pending" /\ clusterOp'.type \notin AutomaticTypes
    BY <1>0, <1>3 DEF ClusterIntakeCopy, UsersAsk, vars
  <2> QED
    BY <1>g, <2>1 DEF CleanStart, DisruptsCurrent
<1>4. ASSUME NEW t \in AutomaticTypes, MaintenanceTrigger(t) PROVE Goal
  BY <1>0, <1>4, <1>h DEF MaintenanceTrigger, vars, CleanStart
<1>5. CASE MakePlan
  <2>1. UNCHANGED op /\ clusterOp.phase = "Pending"
    BY <1>5 DEF MakePlan, vars
  <2>2. CASE clusterOp.type \in AutomaticTypes
    BY <1>0, <1>h, <2>1, <2>2 DEF CleanStart
  <2>3. CASE clusterOp.type \notin AutomaticTypes
    <3>1. clusterOp'.type = clusterOp.type /\ clusterOp'.phase \in {"Failed", "InProgress"}
      BY <1>0, <1>5 DEF MakePlan, SetPhase, KnownOperation
    <3> QED
      BY <1>g, <2>1, <2>3, <3>1 DEF CleanStart, DisruptsCurrent
  <2> QED
    BY <2>2, <2>3
<1>6. CASE SubOpRecord
  <2>1. /\ clusterWorker.step \in DOMAIN clusterOp.steps
        /\ clusterOp.steps[clusterWorker.step].phase = "Pending"
    BY <1>0, <1>6 DEF PlanFacts, Recording, SubOpRecord
  <2>2. StepWritten(clusterWorker.step, "Applying")
    BY <1>0, <1>6, <2>1, RecordWrites
  <2> QED
    BY <1>6, <1>k, <2>1, <2>2 DEF SubOpRecord, vars
<1>7. CASE SubOpsDone
  <2>1. /\ clusterOp.phase = "InProgress" /\ UNCHANGED op
        /\ clusterOp' = [clusterOp EXCEPT !.phase = "Postflight"]
    BY <1>7 DEF SubOpsDone, SetPhase, vars
  <2>2. /\ clusterOp'.phase = "Postflight" /\ clusterOp'.type = clusterOp.type
        /\ clusterOp'.type \notin {"None", "Bootstrap"}
    BY <1>0, <1>b, <2>1 DEF KnownOperation
  <2>3. \A n \in Nodes : ~Disrupted(n)'
    <3>1. (PlanInv /\ clusterOp.phase \in {"Postflight", "Done"}
            /\ clusterOp.type \notin {"None", "Bootstrap"} => \A n \in Nodes : ~Disrupted(n))'
      BY CleanWhenDone, PTL
    <3> QED
      BY <1>0, <2>2, <3>1
  <2> QED
    BY <1>h, <2>1, <2>3 DEF Disrupted
<1>8. CASE Postflight
  BY <1>0, <1>8, <1>h DEF Postflight, CleanStart, vars
<1>9. ASSUME NEW i \in DOMAIN clusterOp.steps, SubOpBegin(i) PROVE Goal
  <2> DEFINE n == clusterOp.steps[i].node
  <2>1. /\ n \in Nodes /\ Current(i) /\ clusterOp.phase = "InProgress" /\ UNCHANGED clusterOp
        /\ op'[n].type = subType /\ \A m \in Nodes : m # n => op'[m] = op[m]
    BY <1>0, <1>9, BeginStarts
  <2>2. \A m \in Nodes : m # n /\ Disrupted(m)' => Disrupted(m)
    BY <2>1 DEF Disrupted
  <2>3. CASE clusterOp.type \in AutomaticTypes
    <3>1. \A m \in Nodes : Disrupted(m) => m = n
      <4> SUFFICES ASSUME NEW m \in Nodes, Disrupted(m) PROVE m = n
        OBVIOUS
      <4>1. PICK j \in DOMAIN clusterOp.steps : Current(j) /\ clusterOp.steps[j].node = m
        BY <1>0, <2>1, <2>3 DEF DisruptsCurrent
      <4>2. j = i
        BY <1>0, <2>1, <4>1, OneCurrent
      <4> QED
        BY <4>1, <4>2
    <3>2. \A m \in Nodes : Disrupted(m)' => m = n
      BY <2>2, <3>1
    <3>3. DisruptsOneNode'
      BY <1>e, <3>2
    <3>4. Current(i)'
      BY <2>1 DEF Current
    <3> QED
      BY <2>1, <3>2, <3>3, <3>4 DEF CleanStart, DisruptsCurrent
  <2>4. CASE clusterOp.type \notin AutomaticTypes
    <3>1. clusterOp.type \in ClusterOperationTypes
      BY <1>0, <2>1, Planable
    <3>2. subType \notin {SubOpType(t) : t \in AutomaticTypes}
      BY <2>4, <3>1, SubTypesDiffer DEF subType
    <3>3. ~Disrupted(n)'
      BY <2>1, <3>2 DEF Disrupted
    <3> QED
      BY <1>j, <2>1, <2>2, <3>3
  <2> QED
    BY <2>3, <2>4
<1>10. ASSUME NEW i \in DOMAIN clusterOp.steps, SubOpMonitor(i) PROVE Goal
  <2> DEFINE result == op[clusterOp.steps[i].node].phase
  <2>1. /\ clusterOp.phase = "InProgress" /\ Current(i) /\ UNCHANGED op
        /\ clusterOp.steps[i].phase # "Done"
    BY <1>10 DEF SubOpMonitor, Current, vars
  <2>2. result \in Complete /\ result = cached[clusterOp.steps[i].node]
    BY <1>0, <1>10, MonitorSeesIdle
  <2>3. StepWritten(i, result)
    BY <1>0, <1>10, <2>2, MonitorWrites
  <2>4. CASE result = "Failed"
    BY <1>k, <2>1, <2>3, <2>4
  <2>5. CASE result = "Done" /\ clusterOp.type \in AutomaticTypes
    <3>1. \A n \in Nodes : ~Disrupted(n)
      <4> SUFFICES ASSUME NEW n \in Nodes, Disrupted(n) PROVE FALSE
        OBVIOUS
      <4>1. PICK j \in DOMAIN clusterOp.steps : Current(j) /\ clusterOp.steps[j].node = n
        BY <1>0, <2>1, <2>5 DEF DisruptsCurrent
      <4>2. j = i
        BY <1>0, <2>1, <4>1, OneCurrent
      <4> QED
        BY <2>5, <4>1, <4>2 DEF Disrupted
    <3> QED
      BY <1>h, <2>1, <3>1
  <2>6. CASE clusterOp.type \notin AutomaticTypes
    BY <1>g, <2>1, <2>3, <2>6 DEF StepWritten, CleanStart, DisruptsCurrent
  <2> QED
    BY <2>2, <2>4, <2>5, <2>6 DEF Complete
<1>11. ASSUME NEW i \in DOMAIN clusterOp.steps, SubOpTimeout(i) \/ SubOpFailed(i) PROVE Goal
  BY <1>0, <1>11, <1>i DEF SubOpTimeout, SubOpFailed, SetPhase, KnownOperation, vars
<1>12. ASSUME NEW i \in DOMAIN clusterOp.steps, StepElapse(i) PROVE Goal
  <2>1. StepWritten(i, clusterOp.steps[i].phase) /\ UNCHANGED op
    BY <1>0, <1>12, ElapseWrites DEF StepElapse, vars
  <2> QED
    BY <1>k, <2>1
<1> QED
  BY <1>1, <1>2, <1>3, <1>4, <1>5, <1>6, <1>7, <1>8, <1>9, <1>10, <1>11, <1>12
  DEF ClusterNext, ClusterReconcile

\* The automation never has more than one node that it disrupted, for any number
\* of failures, crashes and operations of users on the whole cluster in between.
THEOREM AutomationDisruptsOneNode ==
    ASSUME UserTypes = {}, CoherentCache = TRUE,
           "Bootstrap" \notin ClusterUserTypes, ClusterUserTypes \cap AutomaticTypes = {}
    PROVE  ClusterSpec => []DisruptsOneNode
<1>1. DisruptionInv => DisruptsOneNode
  BY DEF DisruptionInv
<1> QED
  BY <1>1, DisruptionInit, DisruptionNext, PTL DEF ClusterSpec

=============================================================================
