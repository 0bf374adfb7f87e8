--------------------------- MODULE NodeOps_proofs ---------------------------
(***************************************************************************)
(* Proofs about NodeOps, for any set of nodes, any mix of operation types  *)
(* and any number of requests and faults:                                  *)
(*                                                                         *)
(*   - type correctness;                                                   *)
(*   - if no informer cache lags, at most one node is worked on, and the   *)
(*     nodes take turns as the abstract lock says, also when the Cluster   *)
(*     controller replaces operations;                                     *)
(*   - if only users start operations, a phase always belongs to its       *)
(*     operation, only provisioned nodes are worked on, and a finished     *)
(*     operation stays finished, also when the cache lags.                 *)
(***************************************************************************)
EXTENDS NodeOps, TLAPS

\* Reading fields of the reconcile in progress.
LEMMA WorkerFields ==
    ASSUME TypeOK
    PROVE  /\ worker.pc \in {"idle", "clear", "handle"}
           /\ worker.pc # "idle" => worker.node \in Nodes
           /\ worker.pc = "handle" => worker.op \in Operations
           /\ worker = Idle <=> worker.pc = "idle"
BY DEF TypeOK, Idle

\* The step of a handler leaves a Boolean in the Provisioned condition.
LEMMA ProvisionedAfterType ==
    ASSUME NEW o, NEW prov \in BOOLEAN, NEW p, NEW b \in ProvisionedAfter(o, prov, p)
    PROVE  b \in BOOLEAN
BY DEF ProvisionedAfter

\* Storing an operation keeps the types of the statuses and of the cache.
LEMMA StoreType ==
    ASSUME TypeOK, NEW n \in Nodes, NEW o \in Operations, Store(n, o)
    PROVE  op' \in [Nodes -> Operations] /\ cached' \in [Nodes -> Phases]
<1>1. o.phase \in Phases
  BY DEF Operations
<1> QED
  BY <1>1 DEF TypeOK, Store

\* A new operation is well typed.
LEMMA InitializedType ==
    ASSUME NEW r \in Requests
    PROVE  /\ Initialized(r) \in Operations
           /\ Initialized(r).type = r.type
           /\ Initialized(r).phase = "Pending"
BY DEF Requests, Initialized, Operations, Phases

\* So is one whose phase a handler wrote.
LEMMA WrittenType ==
    ASSUME NEW o \in Operations, NEW p \in Phases
    PROVE  /\ [o EXCEPT !.phase = p, !.late = FALSE] \in Operations
           /\ [o EXCEPT !.phase = p, !.late = FALSE].phase = p
           /\ [o EXCEPT !.phase = p, !.late = FALSE].type = o.type
BY DEF Operations

-----------------------------------------------------------------------------
\* The initial states are well typed.
LEMMA TypeInit == Init => TypeOK
<1> SUFFICES ASSUME Init PROVE TypeOK
  OBVIOUS
<1>1. NoOperation \in Operations /\ NoOperation.phase \in Phases
  BY DEF NoOperation, Operations, Phases, Complete
<1> QED
  BY <1>1 DEF Init, TypeOK, Idle

\* Every step keeps the types.
LEMMA TypeNext == TypeOK /\ [Next]_vars => TypeOK'
<1> SUFFICES ASSUME TypeOK, [Next]_vars PROVE TypeOK'
  OBVIOUS
<1> USE WorkerFields DEF outside
<1>1. ASSUME NEW n \in Nodes, NEW r \in Requests, RequestOp(n, r) PROVE TypeOK'
  BY <1>1 DEF TypeOK, RequestOp
<1>2. ASSUME NEW n \in Nodes, IntakeCopy(n) PROVE TypeOK'
  <2>1. Initialized(request[n]) \in Operations
    BY <1>2, InitializedType DEF TypeOK, IntakeCopy
  <2> QED
    BY <1>2, <2>1, StoreType DEF TypeOK, IntakeCopy
<1>3. CASE IntakeClear
  BY <1>3 DEF TypeOK, IntakeClear, Idle
<1>4. ASSUME NEW n \in Nodes, Fetch(n) PROVE TypeOK'
  BY <1>4 DEF TypeOK, Fetch
<1>5. CASE Handle
  <2>1. worker.node \in Nodes /\ worker.op \in Operations
    BY <1>5 DEF Handle
  <2>2. provisioned' \in [Nodes -> BOOLEAN]
    BY <1>5, <2>1, ProvisionedAfterType DEF TypeOK, Handle
  <2>3. op' \in [Nodes -> Operations] /\ cached' \in [Nodes -> Phases]
    <3>1. ASSUME NEW p \in Phases,
                 Store(worker.node, [op[worker.node] EXCEPT !.phase = p, !.late = FALSE])
          PROVE  op' \in [Nodes -> Operations] /\ cached' \in [Nodes -> Phases]
      <4>1. [op[worker.node] EXCEPT !.phase = p, !.late = FALSE] \in Operations
        BY <2>1, WrittenType DEF TypeOK
      <4> QED
        BY <2>1, <3>1, <4>1, StoreType
    <3> QED
      BY <1>5, <3>1 DEF TypeOK, Handle
  <2> QED
    BY <1>5, <2>2, <2>3 DEF TypeOK, Handle, Idle
<1>6. ASSUME NEW n \in Nodes, DeletionCleanup(n) PROVE TypeOK'
  <2>1. [type |-> "Reset", unsafe |-> FALSE] \in Requests
    BY DEF Requests, OperationTypes
  <2> QED
    BY <1>6, <2>1, InitializedType, StoreType DEF TypeOK, DeletionCleanup
<1>7. ASSUME NEW n \in Nodes, NEW t \in ClusterTypes, SubOpStart(n, t) PROVE TypeOK'
  <2>1. [type |-> t, unsafe |-> FALSE] \in Requests
    BY ConstantsAssumption DEF Requests
  <2> QED
    BY <1>7, <2>1, InitializedType, StoreType DEF TypeOK, SubOpStart
<1>8. CASE Abort
  <2>1. worker.node \in Nodes
    BY <1>8 DEF Abort
  <2>2. provisioned' \in [Nodes -> BOOLEAN]
    BY <1>8, <2>1, ProvisionedAfterType DEF TypeOK, Abort
  <2> QED
    BY <1>8, <2>2 DEF TypeOK, Abort, Idle
<1>9. ASSUME NEW n \in Nodes, CacheSync(n) PROVE TypeOK'
  BY <1>9 DEF TypeOK, CacheSync, Operations
<1>10. ASSUME NEW n \in Nodes, Elapse(n) PROVE TypeOK'
  BY <1>10, ZenonT(40) DEF TypeOK, Elapse, Operations
<1>11. ASSUME NEW n \in Nodes, MachineChange(n) PROVE TypeOK'
  BY <1>11 DEF TypeOK, MachineChange
<1>12. CASE KubernetesChange
  BY <1>12 DEF TypeOK, KubernetesChange
<1>13. ASSUME NEW n \in Nodes, ConfigChange(n) PROVE TypeOK'
  BY <1>13 DEF TypeOK, ConfigChange
<1>14. CASE UNCHANGED vars
  BY <1>14 DEF TypeOK, vars
<1> QED
  BY <1>1, <1>2, <1>3, <1>4, <1>5, <1>6, <1>7, <1>8, <1>9, <1>10, <1>11, <1>12,
     <1>13, <1>14
  DEF Next, NodeNext

\* Every reachable state of the Node controller is well typed.
THEOREM TypeCorrect == Spec => []TypeOK
BY TypeInit, TypeNext, PTL DEF Spec

-----------------------------------------------------------------------------
(***************************************************************************)
(* The lock.  OneNodeAtATime is not inductive by itself: a handler writes  *)
(* an active phase long after it looked at the other nodes.  HasTurn says  *)
(* that what it saw still holds, which needs a cache that does not lag.    *)
(***************************************************************************)
Coherent == \A n \in Nodes : cached[n] = op[n].phase

HasTurn ==
    worker.pc = "handle" /\ worker.op.type # "Provision" =>
        \A m \in Nodes : m # worker.node => ~Active(m)

LockInv == TypeOK /\ Coherent /\ HasTurn /\ OneNodeAtATime

\* A phase that does not hold the cluster.
Passive == notInProgressPhases \union ProvisionPhases

\* The provisioning handler never writes a phase that holds the cluster.
LEMMA ProvisionStaysPassive ==
    ASSUME NEW o, NEW prov, NEW up, NEW kube, NEW p \in Phases,
           o.type = "Provision", Step(o, prov, up, kube, p)
    PROVE  p \in Passive
BY DEF Step, NeedsClient, HandlerStep, ProvisionStep, ProvisionPending, ProvisionApply, ProvisionVerify,
       Passive, notInProgressPhases, ProvisionPhases,
       Complete, Phases, UpgradePhases

\* Storing a passive operation, or any operation while no other node is
\* active, keeps the exclusion, and is a step of the lock.
LEMMA StoreKeepsLock ==
    ASSUME CoherentCache = TRUE, LockInv,
           NEW n \in Nodes, NEW o \in Operations, Store(n, o),
           o.phase \in Passive \/ \A m \in Nodes : m # n => ~Active(m)
    PROVE  /\ Coherent'
           /\ OneNodeAtATime'
           /\ \A m \in Nodes : m # n => Active(m)' = Active(m)
           /\ [Lock!Next]_holding
<1>1. /\ op' = [op EXCEPT ![n] = o]
      /\ cached' = [cached EXCEPT ![n] = o.phase]
      /\ op \in [Nodes -> Operations]
      /\ cached \in [Nodes -> Phases]
  BY DEF Store, LockInv, TypeOK
<1>2. Coherent'
  BY <1>1 DEF Coherent, LockInv
<1>3. \A m \in Nodes : m # n => Active(m)' = Active(m)
  BY <1>1 DEF Active, InProgress
<1>4. Active(n)' => o.phase \notin Passive
  BY <1>1 DEF Active, InProgress, Passive
<1>5. OneNodeAtATime'
  BY <1>3, <1>4 DEF OneNodeAtATime, LockInv
<1>6. CASE o.phase \in Passive
  <2>1. holding' = holding \ {n}
    BY <1>3, <1>4, <1>6 DEF holding
  <2> QED
    BY <1>2, <1>3, <1>5, <2>1 DEF Lock!Next, Lock!Release
<1>7. CASE \A m \in Nodes : m # n => ~Active(m)
  <2>1. holding \in {{}, {n}} /\ holding' \in {{}, {n}}
    BY <1>3, <1>7 DEF holding
  <2> QED
    BY <1>2, <1>3, <1>5, <2>1 DEF Lock!Next, Lock!Release, Lock!Acquire
<1> QED
  BY <1>6, <1>7

\* A step that leaves every phase alone leaves the lock alone.
LEMMA SamePhasesKeepLock ==
    ASSUME LockInv, \A n \in Nodes : op'[n].phase = op[n].phase
    PROVE  /\ OneNodeAtATime'
           /\ \A m \in Nodes : Active(m)' = Active(m)
           /\ [Lock!Next]_holding
<1>1. \A m \in Nodes : Active(m)' = Active(m)
  BY DEF Active, InProgress
<1>2. holding' = holding
  BY <1>1 DEF holding
<1> QED
  BY <1>1, <1>2 DEF OneNodeAtATime, LockInv

\* Nobody holds the cluster yet.
LEMMA LockInit == Init => LockInv /\ Lock!Init
<1> SUFFICES ASSUME Init PROVE LockInv /\ Lock!Init
  OBVIOUS
<1>1. \A n \in Nodes : ~Active(n) /\ cached[n] = op[n].phase
  BY DEF Init, Active, InProgress, NoOperation, notInProgressPhases, Complete
<1>2. worker.pc = "idle"
  BY DEF Init, Idle
<1> QED
  BY <1>1, <1>2, TypeInit DEF LockInv, Coherent, HasTurn, OneNodeAtATime, Lock!Init, holding

\* Every step keeps the invariant, and is one of NodeLock or a stutter.
LEMMA LockNext ==
    ASSUME CoherentCache = TRUE
    PROVE  LockInv /\ [Next]_vars => LockInv' /\ [Lock!Next]_holding
<1> SUFFICES ASSUME LockInv, [Next]_vars PROVE LockInv' /\ [Lock!Next]_holding
  OBVIOUS
<1> DEFINE Goal == Coherent' /\ HasTurn' /\ OneNodeAtATime' /\ [Lock!Next]_holding
<1> SUFFICES Goal
  BY TypeNext DEF LockInv
<1>0. TypeOK /\ TypeOK'
  BY TypeNext DEF LockInv
<1>a. ASSUME UNCHANGED <<op, cached>>, HasTurn' PROVE Goal
  <2>1. Coherent'
    BY <1>a DEF Coherent, LockInv
  <2> QED
    BY <1>a, <2>1, SamePhasesKeepLock
<1>b. ASSUME UNCHANGED op, worker' = worker PROVE HasTurn'
  BY <1>b DEF HasTurn, LockInv, Active, InProgress
<1>c. ASSUME worker'.pc # "handle" PROVE HasTurn'
  BY <1>c DEF HasTurn
<1>1. ASSUME NEW n \in Nodes, NEW r \in Requests, RequestOp(n, r) PROVE Goal
  BY <1>1, <1>a, <1>b DEF RequestOp
<1>2. ASSUME NEW n \in Nodes, IntakeCopy(n) PROVE Goal
  <2>1. /\ Initialized(request[n]) \in Operations
        /\ Initialized(request[n]).phase \in Passive
    BY <1>0, <1>2, InitializedType DEF TypeOK, IntakeCopy, Passive, notInProgressPhases
  <2> QED
    BY <1>2, <2>1, <1>c, StoreKeepsLock DEF IntakeCopy
<1>3. CASE IntakeClear
  BY <1>3, <1>a, <1>c DEF IntakeClear, Idle
<1>4. ASSUME NEW n \in Nodes, Fetch(n) PROVE Goal
  <2>1. UNCHANGED <<op, cached>> /\ worker' = [pc |-> "handle", node |-> n, op |-> op[n]]
    BY <1>4 DEF Fetch
  <2>2. \/ op[n].type = "Provision"
        \/ \A m \in Nodes \ {n} : cached[m] \in notInProgressPhases
    BY <1>4 DEF Fetch, Runnable, areOtherOperationsInProgress
  <2>3. HasTurn'
    BY <2>1, <2>2 DEF HasTurn, LockInv, Coherent, Active, InProgress
  <2> QED
    BY <1>a, <2>1, <2>3
<1>5. CASE Handle
  <2>1. worker.node \in Nodes /\ worker.op \in Operations /\ worker' = Idle
    BY <1>0, <1>5, WorkerFields DEF Handle
  <2>2. HasTurn'
    BY <2>1, <1>c DEF Idle
  <2>3. CASE UNCHANGED <<op, cached>>
    BY <1>a, <2>2, <2>3
  <2>4. CASE \E p \in Phases :
                /\ Step(worker.op, provisioned[worker.node], answers[worker.node], kubernetes, p)
                /\ Store(worker.node, [op[worker.node] EXCEPT !.phase = p, !.late = FALSE])
    <3>1. PICK p \in Phases :
                /\ Step(worker.op, provisioned[worker.node], answers[worker.node], kubernetes, p)
                /\ Store(worker.node, [op[worker.node] EXCEPT !.phase = p, !.late = FALSE])
      BY <2>4
    <3> DEFINE o == [op[worker.node] EXCEPT !.phase = p, !.late = FALSE]
    <3>2. o \in Operations /\ o.phase = p
      BY <1>0, <2>1, WrittenType DEF TypeOK
    <3>3. o.phase \in Passive \/ \A m \in Nodes : m # worker.node => ~Active(m)
      BY <1>5, <3>1, <3>2, ProvisionStaysPassive DEF LockInv, HasTurn, Handle
    <3> QED
      BY <2>1, <2>2, <3>1, <3>2, <3>3, StoreKeepsLock
  <2> QED
    BY <1>5, <2>3, <2>4 DEF Handle
<1>6. ASSUME NEW n \in Nodes, NEW t, Store(n, Initialized([type |-> t, unsafe |-> FALSE])),
             [type |-> t, unsafe |-> FALSE] \in Requests, worker' = worker
      PROVE  Goal
  <2>1. /\ Initialized([type |-> t, unsafe |-> FALSE]) \in Operations
        /\ Initialized([type |-> t, unsafe |-> FALSE]).phase = "Pending"
    BY <1>6, InitializedType
  <2>2. "Pending" \in Passive
    BY DEF Passive, notInProgressPhases
  <2>3. Coherent' /\ OneNodeAtATime' /\ [Lock!Next]_holding
    BY <1>6, <2>1, <2>2, StoreKeepsLock
  <2>4. \A m \in Nodes : m # n => Active(m)' = Active(m)
    BY <1>6, <2>1, <2>2, StoreKeepsLock
  <2>5. ~Active(n)'
    BY <1>0, <1>6, <2>1 DEF Active, InProgress, Store, TypeOK, notInProgressPhases
  <2>6. HasTurn'
    BY <1>6, <2>4, <2>5 DEF HasTurn, LockInv
  <2> QED
    BY <2>3, <2>6
<1>7. ASSUME NEW n \in Nodes, DeletionCleanup(n) PROVE Goal
  BY <1>6, <1>7 DEF DeletionCleanup, Requests, OperationTypes
<1>8. ASSUME NEW n \in Nodes, NEW t \in ClusterTypes, SubOpStart(n, t) PROVE Goal
  BY <1>6, <1>8, ConstantsAssumption DEF SubOpStart, Requests
<1>9. CASE Abort
  BY <1>9, <1>a, <1>c DEF Abort, Idle
<1>10. ASSUME NEW n \in Nodes, CacheSync(n) PROVE Goal
  BY <1>10 DEF CacheSync, LockInv, Coherent
<1>11. ASSUME NEW n \in Nodes, Elapse(n) PROVE Goal
  <2>1. \A m \in Nodes : op'[m].phase = op[m].phase
    BY <1>0, <1>11 DEF Elapse, TypeOK, Operations
  <2>2. Coherent'
    BY <1>11, <2>1 DEF Elapse, Coherent, LockInv
  <2>3. HasTurn'
    BY <1>11, <2>1 DEF HasTurn, LockInv, Active, InProgress, Elapse
  <2> QED
    BY <2>1, <2>2, <2>3, SamePhasesKeepLock
<1>12. ASSUME NEW n \in Nodes, MachineChange(n) PROVE Goal
  BY <1>12, <1>a, <1>b DEF MachineChange
<1>13. CASE KubernetesChange \/ \E n \in Nodes : ConfigChange(n)
  BY <1>13, <1>a, <1>b DEF KubernetesChange, ConfigChange
<1>14. CASE UNCHANGED vars
  BY <1>14, <1>a, <1>b DEF vars
<1> QED
  BY <1>1, <1>2, <1>3, <1>4, <1>5, <1>7, <1>8, <1>9, <1>10, <1>11, <1>12, <1>13, <1>14
  DEF Next, NodeNext

\* With a cache that does not lag, the phases in the statuses keep the nodes
\* apart, whatever users, faults and the Cluster controller do.
THEOREM MutualExclusion ==
    ASSUME CoherentCache = TRUE PROVE Spec => []OneNodeAtATime
<1>1. LockInv => OneNodeAtATime
  BY DEF LockInv
<1> QED
  BY <1>1, LockInit, LockNext, PTL DEF Spec

\* ... and the statuses of the nodes implement the abstract lock.
THEOREM ImplementsLock ==
    ASSUME CoherentCache = TRUE PROVE Spec => LockSpec
BY LockInit, LockNext, PTL DEF Spec, LockSpec, Lock!Spec

-----------------------------------------------------------------------------
(***************************************************************************)
(* Operations started by users only.  What a handler has read is then      *)
(* still in the status when it writes (Snapshot), and the node it works on *)
(* is still provisioned (OnProvisioned): only the worker changes either.   *)
(***************************************************************************)
Snapshot ==
    worker.pc = "handle" =>
        /\ worker.op.type = op[worker.node].type
        /\ worker.op.phase = op[worker.node].phase
        /\ ~isOperationComplete(worker.op)

OnProvisioned ==
    worker.pc = "handle" /\ worker.op.type \notin {"Provision", "Reset"} =>
        provisioned[worker.node]

UserInv == TypeOK /\ Snapshot /\ OnProvisioned /\ PhaseOfType /\ ProvisionedFirst

\* A handler that is in one of its phases moves to another of its phases.
LEMMA StepPhaseOfType ==
    ASSUME NEW o \in Operations, NEW prov, NEW up, NEW kube, NEW p \in Phases,
           o.phase \in PhasesOf(o.type), Step(o, prov, up, kube, p)
    PROVE  p \in PhasesOf(o.type)
<1>0. HandlerStep(o, prov, up, p)
  BY DEF Step, Phases, UpgradePhases, ProvisionPhases, Complete
<1> USE DEF PhasesOf, Phases, Complete, UpgradePhases, ProvisionPhases, DrainStep
<1>1. CASE o.type = "Provision"
  BY <1>0, <1>1 DEF HandlerStep, ProvisionStep, ProvisionPending, ProvisionApply, ProvisionVerify
<1>2. CASE o.type = "Bootstrap"
  BY <1>0, <1>2 DEF HandlerStep, BootstrapStep
<1>3. CASE o.type = "Apply"
  BY <1>0, <1>3 DEF HandlerStep, ApplyStep, ApplyStart, ApplyFinish,
               UpgradeStep, UpgradePrepare, UpgradeInstall, UpgradeVerify
<1>4. CASE o.type = "Upgrade"
  BY <1>0, <1>4 DEF HandlerStep, UpgradeStep, UpgradePrepare, UpgradeInstall, UpgradeVerify
<1>5. CASE o.type \in {"Reboot", "Shutdown"}
  BY <1>0, <1>5 DEF HandlerStep, PowerStep
<1>6. CASE o.type = "Reset"
  BY <1>0, <1>6 DEF HandlerStep, ResetStep, ResetStart, ResetVerify
<1>7. CASE o.type = "KubernetesComponentUpgrade"
  BY <1>0, <1>7 DEF HandlerStep, KubernetesComponentUpgradeStep, ComponentPending,
      ComponentApply, ComponentVerify
<1> QED
  BY <1>0, <1>1, <1>2, <1>3, <1>4, <1>5, <1>6, <1>7 DEF HandlerStep

\* Only a reset clears the Provisioned condition.
LEMMA ProvisionedKept ==
    ASSUME NEW o, NEW prov \in BOOLEAN, NEW p, NEW b \in ProvisionedAfter(o, prov, p),
           o.type # "Reset", prov
    PROVE  b = TRUE
BY DEF ProvisionedAfter

\* Every new operation starts in Pending, which every handler knows.
LEMMA NewOperation ==
    ASSUME NEW n \in Nodes, NEW r \in Requests, TypeOK, Store(n, Initialized(r)),
           PhaseOfType, ProvisionedFirst, UNCHANGED provisioned
    PROVE  /\ PhaseOfType' /\ ProvisionedFirst'
           /\ op'[n].phase = "Pending" /\ op'[n].type \in OperationTypes
           /\ \A m \in Nodes : m # n => op'[m] = op[m]
<1>1. op' = [op EXCEPT ![n] = Initialized(r)]
  BY DEF Store
<1>2. op'[n].phase = "Pending" /\ op'[n].type \in OperationTypes
  BY <1>1, InitializedType DEF TypeOK, Requests
<1>3. \A m \in Nodes : m # n => op'[m] = op[m]
  BY <1>1 DEF TypeOK
<1>4. "Pending" \in PhasesOf(op'[n].type)
  BY DEF PhasesOf
<1> QED
  BY <1>2, <1>3, <1>4 DEF PhaseOfType, ProvisionedFirst, InProgress, notInProgressPhases

\* No operation has been started yet.
LEMMA UserInit == Init => UserInv
<1> SUFFICES ASSUME Init PROVE UserInv
  OBVIOUS
<1>1. worker.pc = "idle"
  BY DEF Init, Idle
<1>2. \A n \in Nodes : op[n].phase = "None" /\ op[n].type = "None"
  BY DEF Init, NoOperation
<1>3. "None" \in PhasesOf("None")
  BY DEF PhasesOf
<1> QED
  BY <1>1, <1>2, <1>3, TypeInit
  DEF UserInv, Snapshot, OnProvisioned, PhaseOfType, ProvisionedFirst,
      InProgress, notInProgressPhases

\* FinishedStaysFinished, as a formula about one step.
Finished(n) == isOperationComplete(op[n]) =>
    op'[n] = op[n] \/ (op'[n].phase = "Pending" /\ op'[n].type # "None")

\* Every step keeps the invariant, and finished operations.
LEMMA UserNext ==
    ASSUME ClusterTypes = {}
    PROVE  UserInv /\ [Next]_vars => UserInv' /\ \A n \in Nodes : Finished(n)
<1> SUFFICES ASSUME UserInv, [Next]_vars PROVE UserInv' /\ \A n \in Nodes : Finished(n)
  OBVIOUS
<1> DEFINE Goal == /\ Snapshot' /\ OnProvisioned' /\ PhaseOfType' /\ ProvisionedFirst'
                   /\ \A n \in Nodes : Finished(n)
<1>0. TypeOK /\ TypeOK' /\ PhaseOfType /\ ProvisionedFirst /\ Snapshot /\ OnProvisioned
  BY TypeNext DEF UserInv
<1> SUFFICES Goal
  BY <1>0 DEF UserInv
<1>n. "None" \notin OperationTypes
  BY DEF OperationTypes
<1>a. ASSUME worker'.pc # "handle" PROVE Snapshot' /\ OnProvisioned'
  BY <1>a DEF Snapshot, OnProvisioned
<1>b. ASSUME UNCHANGED <<op, provisioned>>
      PROVE  PhaseOfType' /\ ProvisionedFirst' /\ \A n \in Nodes : Finished(n)
  BY <1>0, <1>b DEF PhaseOfType, ProvisionedFirst, InProgress, Finished
<1>c. ASSUME UNCHANGED <<op, provisioned, worker>> PROVE Goal
  BY <1>0, <1>b, <1>c DEF Snapshot, OnProvisioned
<1>1. ASSUME NEW n \in Nodes, NEW r \in Requests, RequestOp(n, r) PROVE Goal
  BY <1>1, <1>c DEF RequestOp
<1>2. ASSUME NEW n \in Nodes, IntakeCopy(n) PROVE Goal
  <2>1. request[n] \in Requests
    BY <1>0, <1>2 DEF TypeOK, IntakeCopy
  <2> QED
    BY <1>0, <1>2, <1>a, <1>n, <2>1, NewOperation DEF IntakeCopy, Finished
<1>3. CASE IntakeClear
  BY <1>3, <1>a, <1>b DEF IntakeClear, Idle
<1>4. ASSUME NEW n \in Nodes, Fetch(n) PROVE Goal
  <2>1. Snapshot' /\ OnProvisioned'
    BY <1>4 DEF Fetch, Runnable, Snapshot, OnProvisioned
  <2> QED
    BY <1>4, <1>b, <2>1 DEF Fetch, Runnable
<1>5. CASE Handle
  <2>1. /\ worker.node \in Nodes /\ worker.op \in Operations /\ worker' = Idle
        /\ worker.pc = "handle"
    BY <1>0, <1>5, WorkerFields DEF Handle
  <2>2. Snapshot' /\ OnProvisioned'
    BY <2>1, <1>a DEF Idle
  <2>3. CASE UNCHANGED <<op, provisioned>>
    BY <1>b, <2>2, <2>3
  <2>4. CASE ~UNCHANGED <<op, provisioned>>
    <3>1. PICK p \in Phases :
             /\ Step(worker.op, provisioned[worker.node], answers[worker.node], kubernetes, p)
             /\ Store(worker.node, [op[worker.node] EXCEPT !.phase = p, !.late = FALSE])
             /\ \E b \in ProvisionedAfter(worker.op, provisioned[worker.node], p) :
                   provisioned' = [provisioned EXCEPT ![worker.node] = b]
      BY <1>5, <2>4 DEF Handle
    <3> DEFINE n == worker.node
               o == [op[n] EXCEPT !.phase = p, !.late = FALSE]
    <3>2. o \in Operations /\ o.phase = p /\ o.type = op[n].type
      BY <1>0, <2>1, WrittenType DEF TypeOK
    <3>3. op' = [op EXCEPT ![n] = o]
      BY <3>1 DEF Store
    <3> HIDE DEF o
    <3>4. /\ op'[n].phase = p /\ op'[n].type = op[n].type
          /\ \A m \in Nodes : m # n => op'[m] = op[m]
      BY <1>0, <2>1, <3>2, <3>3 DEF TypeOK
    <3>5. p \in PhasesOf(op[n].type)
      BY <1>0, <2>1, <3>1, StepPhaseOfType DEF Snapshot, PhaseOfType
    <3>6. PhaseOfType'
      BY <1>0, <3>4, <3>5 DEF PhaseOfType
    <3>7. /\ op[n].type \notin {"Provision", "Reset"} => provisioned'[n]
          /\ \A m \in Nodes : m # n => provisioned'[m] = provisioned[m]
      BY <1>0, <2>1, <3>1, ProvisionedKept DEF Snapshot, OnProvisioned, TypeOK
    <3>8. ProvisionedFirst'
      BY <1>0, <3>4, <3>7 DEF ProvisionedFirst, InProgress
    <3>9. \A m \in Nodes : Finished(m)
      BY <1>0, <2>1, <3>4 DEF Finished, Snapshot, isOperationComplete
    <3> QED
      BY <2>2, <3>6, <3>8, <3>9
  <2> QED
    BY <2>3, <2>4
<1>6. ASSUME NEW n \in Nodes, DeletionCleanup(n) PROVE Goal
  <2> DEFINE r == [type |-> "Reset", unsafe |-> FALSE]
  <2>1. r \in Requests
    BY DEF Requests, OperationTypes
  <2>2. Snapshot' /\ OnProvisioned'
    BY <1>6, <1>a DEF DeletionCleanup, Idle
  <2> QED
    BY <1>0, <1>6, <1>n, <2>1, <2>2, NewOperation DEF DeletionCleanup, Finished
<1>7. CASE Abort
  <2>1. worker.node \in Nodes /\ worker' = Idle /\ UNCHANGED op
    BY <1>0, <1>7, WorkerFields DEF Abort
  <2>2. Snapshot' /\ OnProvisioned'
    BY <2>1, <1>a DEF Idle
  <2>3. CASE UNCHANGED provisioned
    BY <1>b, <2>1, <2>2, <2>3
  <2>4. CASE ~UNCHANGED provisioned
    <3>1. /\ worker.op.type \in {"Provision", "Reset"} /\ worker.pc = "handle"
          /\ \A m \in Nodes : m # worker.node => provisioned'[m] = provisioned[m]
      BY <1>0, <1>7, <2>1, <2>4 DEF Abort, TypeOK
    <3>2. op[worker.node].type \in {"Provision", "Reset"}
      BY <1>0, <3>1 DEF Snapshot
    <3>3. ProvisionedFirst'
      BY <1>0, <2>1, <3>1, <3>2 DEF ProvisionedFirst, InProgress
    <3>4. PhaseOfType' /\ \A n \in Nodes : Finished(n)
      BY <1>0, <2>1 DEF PhaseOfType, Finished
    <3> QED
      BY <2>2, <3>3, <3>4
  <2> QED
    BY <2>3, <2>4
<1>8. ASSUME NEW n \in Nodes, CacheSync(n) PROVE Goal
  BY <1>8, <1>c DEF CacheSync
<1>9. ASSUME NEW n \in Nodes, Elapse(n) PROVE Goal
  <2>1. /\ \A m \in Nodes : op'[m].phase = op[m].phase /\ op'[m].type = op[m].type
        /\ \A m \in Nodes : m # n => op'[m] = op[m]
        /\ UNCHANGED <<worker, provisioned>>
    BY <1>0, <1>9 DEF Elapse, TypeOK, Operations
  <2>2. Snapshot' /\ OnProvisioned'
    BY <1>0, <2>1, WorkerFields DEF Snapshot, OnProvisioned
  <2>3. PhaseOfType' /\ ProvisionedFirst'
    BY <1>0, <2>1 DEF PhaseOfType, ProvisionedFirst, InProgress
  <2>4. ~isOperationComplete(op[n])
    BY <1>9 DEF Elapse, InProgress, isOperationComplete, notInProgressPhases
  <2> QED
    BY <2>1, <2>2, <2>3, <2>4 DEF Finished
<1>10. ASSUME NEW n \in Nodes, MachineChange(n) PROVE Goal
  BY <1>10, <1>c DEF MachineChange
<1>11. CASE KubernetesChange \/ \E n \in Nodes : ConfigChange(n)
  BY <1>11, <1>c DEF KubernetesChange, ConfigChange
<1>12. CASE UNCHANGED vars
  BY <1>12, <1>c DEF vars
<1> QED
  BY <1>1, <1>2, <1>3, <1>4, <1>5, <1>6, <1>7, <1>8, <1>9, <1>10, <1>11, <1>12
  DEF Next, NodeNext

\* Users alone never leave a node in a phase its handler does not know, which
\* would keep the whole cluster waiting for it.
THEOREM HandlersKnowTheirPhases ==
    ASSUME ClusterTypes = {} PROVE Spec => []PhaseOfType
<1>1. UserInv => PhaseOfType
  BY DEF UserInv
<1> QED
  BY <1>1, UserInit, UserNext, PTL DEF Spec

\* Operations that users start run only on nodes that are provisioned, also
\* when a provisioning begins anew.
THEOREM RunsOnProvisioned ==
    ASSUME ClusterTypes = {} PROVE Spec => []ProvisionedFirst
<1>1. UserInv => ProvisionedFirst
  BY DEF UserInv
<1> QED
  BY <1>1, UserInit, UserNext, PTL DEF Spec

\* A handler never touches an operation that is Done or Failed.
THEOREM FinishedForGood ==
    ASSUME ClusterTypes = {} PROVE Spec => FinishedStaysFinished
<1>1. UserInv /\ [Next]_vars =>
        [\A n \in Nodes : isOperationComplete(op[n]) =>
            \/ op'[n] = op[n]
            \/ op'[n].phase = "Pending" /\ op'[n].type # "None"]_vars
  BY UserNext DEF Finished
<1> QED
  BY <1>1, UserInit, UserNext, PTL DEF Spec, FinishedStaysFinished

=============================================================================
