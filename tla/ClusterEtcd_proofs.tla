-------------------------- MODULE ClusterEtcd_proofs --------------------------
(***************************************************************************)
(* Proofs about ClusterReconcile: type correctness, and one etcd for the   *)
(* control planes of a cluster.                                            *)
(***************************************************************************)
EXTENDS ClusterReconcile_proofs

\* The provisioned control planes are listed, all of them and no others.
LEMMA EligibleListed ==
    /\ listEligibleNodes \in Seq(Eligible)
    /\ \A n \in Eligible : \E i \in DOMAIN listEligibleNodes : listEligibleNodes[i] = n
<1>1. NodeOrder \in Seq(Nodes)
  BY ReconcileConstantsAssumption
<1>2. /\ listEligibleNodes \in Seq(Nodes \cap Eligible)
      /\ \A i \in DOMAIN NodeOrder : NodeOrder[i] \in Eligible =>
            \E j \in DOMAIN listEligibleNodes : listEligibleNodes[j] = NodeOrder[i]
  BY <1>1, PickNodesPicks DEF listEligibleNodes
<1>3. Nodes \cap Eligible = Eligible /\ \A n \in Eligible : \E i \in DOMAIN NodeOrder : NodeOrder[i] = n
  BY DEF Eligible, Nodes
<1> QED
  BY <1>2, <1>3

\* A bootstrap that has a control plane to run on finds one.
LEMMA HeadEligible ==
    ASSUME Eligible # {}
    PROVE  Head(listEligibleNodes) \in Nodes
<1> DEFINE list == listEligibleNodes
<1>1. list \in Seq(Eligible) /\ DOMAIN list # {}
  BY EligibleListed
<1> HIDE DEF list
<1>2. Head(list) \in Eligible
  BY <1>1
<1> QED
  BY <1>2 DEF Eligible, list

-----------------------------------------------------------------------------
(***************************************************************************)
(* Types.  Those of machines and credentials are part of CredentialsInv,   *)
(* those of the clock and the reconcile part of WindowInv; here are the    *)
(* statuses the controllers write.                                         *)
(***************************************************************************)

ClusterObject ==
    [named : BOOLEAN, bootstrapped : {"Unknown", "True", "False"},
     inSync : BOOLEAN, upToDate : BOOLEAN, next : Nat,
     type : {"None", "Bootstrap", "RollingApply", "KubernetesUpgrade"},
     phase : {"Pending", "InProgress"} \union Complete, on : Nodes,
     step : {"None", "Pending", "Applying"} \union Complete]

Writes == {"none", "provisioned", "bootstrapped", "reset"}

StatusTypes ==
    /\ node \in [Nodes -> NodeObject]
    /\ pending \in [Nodes -> Writes]
    /\ cluster \in ClusterObject
    /\ windowOn \in BOOLEAN
    /\ requests \in Nat /\ troubles \in Nat

TypesInv == CredentialsInv /\ WindowInv /\ StatusTypes

NodeTypes == {"None", "Provision", "Bootstrap", "Reset", "Apply", "KubernetesComponentUpgrade"}

NodePhases == {"Pending", "Provisioning", "ProvisionVerifying", "Applying", "Draining",
               "Verifying", "Done", "Failed"}

\* What the controllers turn a Node object into.
LEMMA PhaseWritten ==
    ASSUME NEW o \in NodeObject, NEW p \in NodePhases
    PROVE  /\ [o EXCEPT !.phase = p] \in NodeObject
           /\ [o EXCEPT !.phase = p, !.provisioned = TRUE] \in NodeObject
           /\ \A b \in BOOLEAN : [o EXCEPT !.phase = p, !.initial = b] \in NodeObject
<1>1. [o EXCEPT !.phase = p] \in NodeObject
  BY DEF NodeObject, Complete, NodePhases
<1>2. [o EXCEPT !.phase = p, !.provisioned = TRUE] \in NodeObject
  BY DEF NodeObject, Complete, NodePhases
<1>3. ASSUME NEW b \in BOOLEAN PROVE [o EXCEPT !.phase = p, !.initial = b] \in NodeObject
  BY DEF NodeObject, Complete, NodePhases
<1> QED
  BY <1>1, <1>2, <1>3

\* Writing a node's operation leaves a node.
LEMMA OperationWritten ==
    ASSUME NEW o \in NodeObject, NEW t \in NodeTypes, NEW p \in NodePhases
    PROVE  /\ [o EXCEPT !.type = t, !.phase = p] \in NodeObject
           /\ \A k \in {"all", "disks"} : [o EXCEPT !.type = t, !.phase = p, !.kind = k] \in NodeObject
<1>1. [o EXCEPT !.type = t, !.phase = p] \in NodeObject
  BY DEF NodeObject, Complete, NodeTypes, NodePhases
<1>2. ASSUME NEW k \in {"all", "disks"}
      PROVE  [o EXCEPT !.type = t, !.phase = p, !.kind = k] \in NodeObject
  BY DEF NodeObject, Complete, NodeTypes, NodePhases
<1> QED
  BY <1>1, <1>2

\* So does writing its conditions.
LEMMA ConditionsWritten ==
    ASSUME NEW o \in NodeObject, NEW b \in BOOLEAN, NEW c \in BOOLEAN
    PROVE  /\ [o EXCEPT !.ready = TRUE, !.inSync = b, !.upToDate = c] \in NodeObject
           /\ [o EXCEPT !.ready = FALSE] \in NodeObject
<1>1. [o EXCEPT !.ready = TRUE, !.inSync = b, !.upToDate = c] \in NodeObject
  BY DEF NodeObject
<1>2. [o EXCEPT !.ready = FALSE] \in NodeObject
  BY DEF NodeObject
<1> QED
  BY <1>1, <1>2

\* Steps that leave the statuses alone.
LEMMA SameStatus ==
    ASSUME StatusTypes, UNCHANGED <<node, cluster>>,
           pending' \in [Nodes -> Writes],
           windowOn' \in BOOLEAN, requests' \in Nat, troubles' \in Nat
    PROVE  StatusTypes'
BY DEF StatusTypes

\* Steps that write the status of one node, or of the Cluster.
LEMMA NodeWritten ==
    ASSUME StatusTypes, UNCHANGED <<cluster, windowOn>>,
           pending' \in [Nodes -> Writes], requests' \in Nat, troubles' \in Nat,
           NEW n \in Nodes, NEW o \in NodeObject, node' = [node EXCEPT ![n] = o]
    PROVE  StatusTypes'
BY DEF StatusTypes

\* A write of the Cluster's status alone keeps the types.
LEMMA ClusterWritten ==
    ASSUME StatusTypes, UNCHANGED <<node, pending, windowOn, requests>>, troubles' \in Nat,
           cluster' \in ClusterObject
    PROVE  StatusTypes'
BY DEF StatusTypes

\* The next window of the status is a time.
LEMMA NextIsTime ==
    ASSUME now \in Nat
    PROVE  updateMaintenanceStatus \in Nat
<1>1. Window(updateMaintenanceStatus, now)
  BY NextWindow
<1>2. MaxTime + Duration \in Nat /\ Starts \subseteq Nat
  BY ReconcileConstantsAssumption
<1>3. updateMaintenanceStatus \in {0, MaxTime + Duration} \union Starts
  BY <1>1 DEF Window
<1> QED
  BY <1>2, <1>3

\* The Cluster controller writes well-typed statuses.
LEMMA ClusterStepTypes ==
    ASSUME TypesInv, ClusterStep \/ BootstrapTimeout \/ ClusterAbort
    PROVE  StatusTypes'
<1>1. /\ StatusTypes /\ now \in Nat
      /\ cluster \in ClusterObject /\ node \in [Nodes -> NodeObject] /\ troubles \in Nat
  BY DEF TypesInv, StatusTypes, WindowInv
<1>2. CASE EnsureBundle \/ CreateBundle \/ updateStatusFails \/ updateSecrets
  <2>1. UNCHANGED <<node, pending, cluster, windowOn, requests, troubles>>
    BY <1>2 DEF EnsureBundle, CreateBundle, updateStatusFails, updateSecrets, nodeVars, environment
  <2> QED
    BY <1>1, <2>1, SameStatus DEF StatusTypes
<1>3. CASE ClusterAbort
  <2>1. UNCHANGED <<node, pending, cluster, windowOn, requests>> /\ troubles' = troubles + 1
    BY <1>3 DEF ClusterAbort, Happens, nodeVars
  <2> QED
    BY <1>1, <2>1, SameStatus DEF StatusTypes
<1>4. CASE SetSecretsRef \/ updateStatus \/ Trigger \/ MakePlan \/ BootstrapRecord
           \/ BootstrapMonitor \/ BootstrapTimeout
  <2>1. UNCHANGED <<node, pending, windowOn, requests>> /\ troubles' \in Nat
    BY <1>1, <1>4 DEF SetSecretsRef, updateStatus, Trigger, MakePlan, BootstrapRecord,
                      BootstrapMonitor, BootstrapTimeout, Happens, nodeVars, environment
  <2>2. cluster' \in ClusterObject
    <3>1. CASE SetSecretsRef
      BY <1>1, <3>1 DEF SetSecretsRef, ClusterObject
    <3>2. CASE updateStatus
      BY <1>1, <3>2, NextIsTime DEF updateStatus, ClusterObject
    <3>3. CASE Trigger
      <4>1. WindowOperation \in {"None", "RollingApply", "KubernetesUpgrade"}
        BY DEF WindowOperation
      <4>2. \A t \in {"Bootstrap", "RollingApply", "KubernetesUpgrade"} :
               Triggered(t) \in ClusterObject
        BY <1>1 DEF Triggered, ClusterObject
      <4> QED
        BY <1>1, <3>3, <4>1, <4>2 DEF Trigger
    <3>4. CASE MakePlan
      <4>1. /\ [cluster EXCEPT !.phase = "Failed"] \in ClusterObject
            /\ [cluster EXCEPT !.phase = "InProgress"] \in ClusterObject
        BY <1>1 DEF ClusterObject, Complete
      <4>2. CASE cluster.type = "Bootstrap" /\ ~Refuses(cluster.type)
        <5>1. Head(listEligibleNodes) \in Nodes
          BY <4>2, HeadEligible DEF Refuses
        <5>2. [cluster EXCEPT !.phase = "InProgress", !.step = "Pending",
                              !.on = Head(listEligibleNodes)] \in ClusterObject
          BY <1>1, <5>1 DEF ClusterObject
        <5> QED
          BY <3>4, <4>2, <5>2 DEF MakePlan
      <4> QED
        BY <3>4, <4>1, <4>2 DEF MakePlan
    <3>5. CASE BootstrapRecord
      BY <1>1, <3>5 DEF BootstrapRecord, ClusterObject
    <3>6. CASE BootstrapMonitor
      BY <1>1, <3>6 DEF BootstrapMonitor, ClusterObject
    <3>7. CASE BootstrapTimeout
      BY <1>1, <3>7 DEF BootstrapTimeout, ClusterObject, Complete
    <3> QED
      BY <1>4, <3>1, <3>2, <3>3, <3>4, <3>5, <3>6, <3>7
  <2> QED
    BY <1>1, <2>1, <2>2, ClusterWritten
<1>5. CASE BootstrapBegin
  <2>1. [node[cluster.on] EXCEPT !.type = "Bootstrap", !.phase = "Pending"] \in NodeObject
        /\ cluster.on \in Nodes
    BY <1>1, OperationWritten DEF ClusterObject, NodeTypes, NodePhases
  <2>2. UNCHANGED <<pending, cluster, windowOn, requests, troubles>>
    BY <1>5 DEF BootstrapBegin, environment
  <2> QED
    BY <1>1, <1>5, <2>1, <2>2, NodeWritten DEF BootstrapBegin, SetNode, StatusTypes
<1>6. CASE RollingRun
  <2>1. UNCHANGED <<pending, windowOn, requests, troubles>>
    BY <1>6 DEF RollingRun, environment
  <2>2. cluster' \in ClusterObject
    <3>1. \E p \in Complete : cluster' = [cluster EXCEPT !.phase = p]
      BY <1>6 DEF RollingRun, Complete
    <3> QED
      BY <1>1, <3>1 DEF ClusterObject
  <2>3. node' \in [Nodes -> NodeObject]
    <3>1. \A o \in NodeObject : \A t \in {"Apply", "KubernetesComponentUpgrade"} :
             [o EXCEPT !.phase = "Done", !.type = t] \in NodeObject
      BY DEF NodeObject, Complete
    <3> QED
      BY <1>1, <1>6, <3>1, ZenonT(40) DEF RollingRun
  <2> QED
    BY <1>1, <2>1, <2>2, <2>3 DEF StatusTypes
<1> QED
  BY <1>2, <1>3, <1>4, <1>5, <1>6 DEF ClusterStep

\* So does the Node controller.
LEMMA NodeStepTypes ==
    ASSUME TypesInv, NEW n \in Nodes, NodeStep(n) \/ NodeTimeout(n) \/ NodeAbort(n)
    PROVE  StatusTypes'
<1> DEFINE O == node[n]
<1>1. /\ StatusTypes /\ O \in NodeObject /\ O.initial \in BOOLEAN
      /\ requests \in Nat /\ troubles \in Nat
  BY DEF TypesInv, StatusTypes, NodeObject
<1>2. machine[n].release \in BOOLEAN /\ machine[n].config \in BOOLEAN /\ machine[n].version \in BOOLEAN
  BY DEF TypesInv, CredentialsInv, MachineOf, Machine
<1>3. UNCHANGED <<cluster, windowOn, requests>> /\ troubles' \in Nat
  BY <1>1 DEF NodeStep, ProvisionPending, ProvisionSend, ProvisionRecord, ProvisionRefused,
              ProvisionVerify, NodeStatus, NodeStart, BootstrapCall, BootstrapDone, ResetDrain,
              ResetCall, ResetVerify, ResetDone, NodeTimeout, NodeAbort, Happens, controller, environment
<1>4. pending' \in [Nodes -> Writes]
  <2>1. \/ pending' = pending
        \/ \E w \in Writes : pending' = [pending EXCEPT ![n] = w]
    BY DEF NodeStep, ProvisionPending, ProvisionSend, ProvisionRecord, ProvisionRefused,
           ProvisionVerify, NodeStatus, NodeStart, BootstrapCall, BootstrapDone, ResetDrain,
           ResetCall, ResetVerify, ResetDone, NodeTimeout, NodeAbort, Writes
  <2> QED
    BY <1>1, <2>1 DEF StatusTypes
<1>5. node' = node \/ \E o \in NodeObject : node' = [node EXCEPT ![n] = o]
  <2>1. \A p \in NodePhases : [O EXCEPT !.phase = p] \in NodeObject
    BY <1>1, PhaseWritten
  <2> HIDE DEF O
  <2>2. CASE ProvisionPending(n) \/ ProvisionRefused(n) \/ NodeStart(n) \/ BootstrapCall(n)
             \/ BootstrapDone(n) \/ ResetDrain(n) \/ ResetCall(n) \/ ResetDone(n)
             \/ NodeTimeout(n)
    <3>1. node' = node \/ \E p \in NodePhases : node' = [node EXCEPT ![n] = [O EXCEPT !.phase = p]]
      BY <2>2 DEF ProvisionPending, ProvisionRefused, NodeStart, BootstrapCall, BootstrapDone,
                  ResetDrain, ResetCall, ResetDone, NodeTimeout, SetPhase, SetNode, NodePhases,
                  O
    <3> QED
      BY <2>1, <3>1
  <2>3. CASE ProvisionSend(n) \/ NodeAbort(n)
    BY <2>3 DEF ProvisionSend, NodeAbort
  <2>4. CASE ProvisionRecord(n)
    <3>1. [O EXCEPT !.phase = "ProvisionVerifying", !.provisioned = TRUE] \in NodeObject
      BY <1>1, PhaseWritten DEF NodePhases
    <3> QED
      BY <2>4, <3>1 DEF ProvisionRecord, SetNode, O
  <2>5. CASE ProvisionVerify(n)
    <3>1. (O.initial \/ ~machine[n].release) \in BOOLEAN
      BY <1>1, <1>2, SMTT(30)
    <3>2. \A b \in BOOLEAN : [O EXCEPT !.phase = "Done", !.initial = b] \in NodeObject
      BY <1>1, PhaseWritten DEF NodePhases
    <3> QED
      BY <2>5, <3>1, <3>2 DEF ProvisionVerify, SetNode, O
  <2>6. CASE NodeStatus(n)
    <3>1. (machine[n].release /\ machine[n].config) \in BOOLEAN
      BY <1>2
    <3>2. /\ [O EXCEPT !.ready = TRUE, !.inSync = machine[n].release /\ machine[n].config,
                       !.upToDate = machine[n].version] \in NodeObject
          /\ [O EXCEPT !.ready = FALSE] \in NodeObject
      BY <1>1, <1>2, <3>1, ConditionsWritten
    <3> QED
      BY <2>6, <3>2 DEF NodeStatus, SetNode, O
  <2>7. CASE ResetVerify(n)
    <3>1. [NewNode EXCEPT !.type = "Reset", !.phase = "Verifying"] \in NodeObject
      BY DEF NewNode, NodeObject, Complete
    <3> QED
      BY <2>7, <3>1 DEF ResetVerify, SetNode
  <2> QED
    BY <2>2, <2>3, <2>4, <2>5, <2>6, <2>7 DEF NodeStep
<1> QED
  BY <1>1, <1>3, <1>4, <1>5, SameStatus, NodeWritten DEF StatusTypes

\* So do users, machines and time.
LEMMA OthersTypes ==
    ASSUME TypesInv,
           \/ ObserveBundle \/ ToggleWindow \/ Tick
           \/ \E k \in Secrets : SecretAges(k)
           \/ \E n \in Nodes : \/ EtcdStart(n) \/ EtcdJoin(n) \/ ComeUp(n) \/ GoDown(n)
                               \/ Edit(n) \/ RequestOp(n)
    PROVE  StatusTypes'
<1>1. /\ StatusTypes /\ node \in [Nodes -> NodeObject] /\ windowOn \in BOOLEAN
      /\ requests \in Nat /\ troubles \in Nat /\ pending \in [Nodes -> Writes]
  BY DEF TypesInv, StatusTypes
<1>2. ASSUME NEW n \in Nodes, RequestOp(n) PROVE StatusTypes'
  <2>1. \E o \in NodeObject : node' = [node EXCEPT ![n] = o]
    <3>1. ResetKinds \subseteq {"all", "disks"}
      BY ReconcileConstantsAssumption
    <3> DEFINE O == node[n]
    <3>2. O \in NodeObject
      BY <1>1, SMTT(30)
    <3>3. /\ [O EXCEPT !.type = "Provision", !.phase = "Pending"] \in NodeObject
          /\ \A k \in ResetKinds :
                [O EXCEPT !.type = "Reset", !.phase = "Pending", !.kind = k] \in NodeObject
      BY <3>1, <3>2, OperationWritten DEF NodeTypes, NodePhases
    <3> QED
      BY <1>2, <3>3 DEF RequestOp, SetNode
  <2>2. UNCHANGED <<cluster, windowOn, pending, troubles>> /\ requests' = requests + 1
    BY <1>2 DEF RequestOp, controller
  <2>3. requests' \in Nat /\ troubles' \in Nat /\ pending' \in [Nodes -> Writes]
    BY <1>1, <2>2
  <2> QED
    BY <1>1, <2>1, <2>2, <2>3, NodeWritten
<1>3. ASSUME \/ ObserveBundle \/ ToggleWindow \/ Tick
             \/ \E k \in Secrets : SecretAges(k)
             \/ \E n \in Nodes : EtcdStart(n) \/ EtcdJoin(n) \/ ComeUp(n) \/ GoDown(n) \/ Edit(n)
      PROVE  StatusTypes'
  <2>1. UNCHANGED <<node, pending, cluster, requests>> /\ windowOn' \in BOOLEAN
        /\ troubles' \in Nat
    <3>1. troubles' \in {troubles, troubles + 1}
      BY <1>3, ZenonT(40) DEF ObserveBundle, ToggleWindow, Tick, SecretAges, EtcdStart, EtcdJoin, ComeUp,
                  GoDown, Edit, Happens, environment
    <3>2. UNCHANGED <<node, pending, cluster, requests>> /\ windowOn' \in {windowOn, ~windowOn}
      BY <1>3 DEF ObserveBundle, ToggleWindow, Tick, SecretAges, EtcdStart, EtcdJoin, ComeUp,
                  GoDown, Edit, nodeVars, controller, environment
    <3>3. windowOn' \in BOOLEAN
      BY <1>1, <3>2, Zenon
    <3> QED
      BY <1>1, <3>1, <3>2, <3>3, SMTT(30)
  <2> QED
    BY <1>1, <2>1, SameStatus
<1> QED
  BY <1>2, <1>3

\* The initial states are well typed.
LEMMA TypesInit == Init => TypesInv
<1> SUFFICES ASSUME Init PROVE StatusTypes
  BY CredentialsInit, WindowInit DEF TypesInv
<1>1. NewNode \in NodeObject
  BY DEF NewNode, NodeObject, Complete
<1>2. NodeOrder[1] \in Nodes
  BY ReconcileConstantsAssumption
<1>3. NewCluster \in ClusterObject
  BY <1>2 DEF NewCluster, ClusterObject, Complete
<1> QED
  BY <1>1, <1>3 DEF Init, StatusTypes, Writes

\* Every step keeps the types.
LEMMA TypesNext == TypesInv /\ [Next]_vars => TypesInv'
<1> SUFFICES ASSUME TypesInv, [Next]_vars PROVE StatusTypes'
  BY CredentialsNext, NextWindowInv DEF TypesInv
<1>1. CASE UNCHANGED vars
  BY <1>1 DEF vars, TypesInv, StatusTypes
<1> QED
  BY <1>1, ClusterStepTypes, NodeStepTypes, OthersTypes DEF Next

\* Every reachable state is well typed; the node a bootstrap runs on is one of
\* the control planes, though it is taken from the head of a list.
THEOREM ReconcileTypeCorrect == Spec => []ReconcileTypeOK
<1>1. TypesInv => ReconcileTypeOK
  <2> SUFFICES ASSUME TypesInv PROVE ReconcileTypeOK
    OBVIOUS
  <2>1. machine \in [Nodes -> Machine]
    BY DEF TypesInv, CredentialsInv, MachineOf
  <2>2. bundle \in Nat /\ bundleSeen \in Nat /\ etcds \in Nat
    BY DEF TypesInv, CredentialsInv
  <2>3. secret \in [Secrets -> [ca : Nat, old : BOOLEAN]]
    BY <2>2 DEF TypesInv, CredentialsInv
  <2> QED
    BY <2>1, <2>2, <2>3 DEF TypesInv, WindowInv, StatusTypes, ReconcileTypeOK, Machine, Stages,
                            ClusterObject, Writes
<1> QED
  BY <1>1, TypesInit, TypesNext, PTL DEF Spec

-----------------------------------------------------------------------------
(***************************************************************************)
(* One etcd.  OneEtcd is far from inductive: a new etcd is founded long    *)
(* after the Cluster controller looked for one.  A bootstrap that has been *)
(* triggered keeps the cluster without etcd until it has run (Before), for *)
(* it runs on one node and nobody else founds an etcd (OnlyBootstrap).  It *)
(* is triggered when there is no etcd: any there was at the time of the    *)
(* status is still there, on a node whose last operation rules a bootstrap *)
(* out (Seen).  That it shows in the status follows from where etcds are:  *)
(* one that has data is in a machine that is listed (Anchored), one that   *)
(* has none yet in the machine that was bootstrapped (NodeFacts).          *)
(***************************************************************************)

HasEtcd(n) == machine[n].etcd # 0

NoEtcd == \A n \in Nodes : ~HasEtcd(n)

\* A bootstrap of the node that is not finished.
Live(n) == node[n].type = "Bootstrap" /\ node[n].phase \notin Complete

\* The node's last operation rules out an automatic bootstrap: it is none of those
\* the trigger asks for, or a provisioning that is refused.
RuledOut(n) ==
    \/ node[n].type \notin {"None", "Provision"}
    \/ /\ node[n].type = "Provision" /\ node[n].provisioned
       /\ node[n].phase \in {"Pending", "Failed"}

\* What the Node object, its machine and the write that is due say of each other.
NodeFacts(n) ==
    /\ node[n].kind = "all"
    /\ machine[n].data => HasEtcd(n)
    /\ HasEtcd(n) => machine[n].running
    /\ machine[n].running => node[n].provisioned \/ pending[n] = "provisioned"
    /\ HasEtcd(n) /\ ~machine[n].data => node[n].provisioned /\ RuledOut(n)
    /\ node[n].phase = "Verifying" => ~machine[n].running
    /\ node[n].type = "Bootstrap" /\ node[n].phase = "Applying" => node[n].provisioned
    /\ pending[n] = "provisioned" =>
          node[n].phase = "Provisioning" \/ (Live(n) /\ node[n].phase = "Pending")
    /\ pending[n] = "bootstrapped" =>
          node[n].type = "Bootstrap" /\ node[n].phase = "Applying" /\ HasEtcd(n)
    /\ pending[n] = "reset" => ~machine[n].running

Anchored == NoEtcd \/ \E n \in Nodes : node[n].provisioned /\ HasEtcd(n)

OnlyBootstrap ==
    \A n \in Nodes : Live(n) =>
        /\ n = cluster.on
        /\ cluster.type = "Bootstrap"
        /\ cluster.phase \in {"InProgress", "Failed"}
        /\ cluster.step = "Applying" \/ worker.pc = "record"

BeingRecorded ==
    worker.pc = "record" => /\ cluster.type = "Bootstrap"
                            /\ cluster.phase = "InProgress"
                            /\ cluster.step = "Pending"

\* A bootstrap is due: of the cluster, or of a node.
ClusterDue ==
    /\ cluster.type = "Bootstrap"
    /\ \/ cluster.phase = "Pending"
       \/ cluster.phase = "InProgress" /\ cluster.step = "Pending" /\ worker.pc # "record"

NodeDue(n) == Live(n) /\ pending[n] # "bootstrapped"

Before == ClusterDue \/ (\E n \in Nodes : NodeDue(n)) => NoEtcd

Seen ==
    worker.pc \in {"secrets", "triggers"} /\ cluster.bootstrapped = "False" =>
        NoEtcd \/ \E n \in Nodes : node[n].provisioned /\ HasEtcd(n) /\ RuledOut(n)

EtcdInv ==
    /\ \A n \in Nodes : NodeFacts(n)
    /\ OneEtcd
    /\ Anchored
    /\ OnlyBootstrap
    /\ BeingRecorded
    /\ Before
    /\ Seen

\* What the theorem needs: a reconcile is not cut off between two writes, no
\* reset spares the system disk, or wipes a machine while the Cluster is
\* reconciled.
Orderly ==
    /\ "abort" \notin Events
    /\ "cut" \notin Events
    /\ ResetKinds \subseteq {"all"}
    /\ ShortReconciles = TRUE

\* Nothing changes in the nodes and machines that the invariant speaks of.
SameNodes ==
    /\ pending' = pending
    /\ \A n \in Nodes :
          /\ node'[n].type = node[n].type /\ node'[n].phase = node[n].phase
          /\ node'[n].kind = node[n].kind /\ node'[n].provisioned = node[n].provisioned
          /\ machine'[n].running = machine[n].running /\ machine'[n].etcd = machine[n].etcd
          /\ machine'[n].data = machine[n].data

\* Steps that leave nodes and machines alone keep the facts about nodes.
LEMMA SameNodesFacts ==
    ASSUME EtcdInv, SameNodes
    PROVE  /\ \A n \in Nodes : NodeFacts(n)' /\ HasEtcd(n)' = HasEtcd(n)
           /\ \A n \in Nodes : Live(n)' = Live(n) /\ RuledOut(n)' = RuledOut(n)
           /\ \A n \in Nodes : NodeDue(n)' = NodeDue(n)
           /\ NoEtcd' = NoEtcd
           /\ OneEtcd' /\ Anchored'
<1>1. \A n \in Nodes : HasEtcd(n)' = HasEtcd(n) /\ Live(n)' = Live(n) /\ RuledOut(n)' = RuledOut(n)
  BY DEF SameNodes, HasEtcd, Live, RuledOut
<1>2. \A n \in Nodes : NodeFacts(n)'
  BY <1>1 DEF EtcdInv, NodeFacts, SameNodes
<1>3. \A n \in Nodes : NodeDue(n)' = NodeDue(n)
  BY <1>1 DEF NodeDue, SameNodes
<1>4. NoEtcd' = NoEtcd
  BY <1>1 DEF NoEtcd
<1>5. OneEtcd'
  BY DEF EtcdInv, OneEtcd, SameNodes
<1>6. Anchored'
  BY <1>1, <1>4 DEF EtcdInv, Anchored, SameNodes
<1> QED
  BY <1>1, <1>2, <1>3, <1>4, <1>5, <1>6

\* A step of the Cluster controller that leaves the nodes and its operation
\* alone and does not look for an etcd.
LEMMA StageChanged ==
    ASSUME EtcdInv, SameNodes,
           cluster'.type = cluster.type, cluster'.phase = cluster.phase,
           cluster'.step = cluster.step, cluster'.on = cluster.on,
           cluster'.bootstrapped = cluster.bootstrapped,
           \/ worker'.pc = worker.pc
           \/ /\ worker.pc # "record" /\ worker'.pc # "record"
              /\ worker'.pc \in {"secrets", "triggers"} => worker.pc \in {"secrets", "triggers"}
    PROVE  EtcdInv'
<1>1. OnlyBootstrap'
  BY SameNodesFacts DEF EtcdInv, OnlyBootstrap
<1>2. BeingRecorded'
  BY DEF EtcdInv, BeingRecorded
<1>3. Before'
  BY SameNodesFacts DEF EtcdInv, Before, ClusterDue
<1>4. Seen'
  BY SameNodesFacts DEF EtcdInv, Seen, SameNodes
<1> QED
  BY <1>1, <1>2, <1>3, <1>4, SameNodesFacts DEF EtcdInv

\* A finished or waiting operation of the cluster, or another than a bootstrap,
\* leaves no bootstrap of a node behind.
LEMMA NoneLive ==
    ASSUME EtcdInv, cluster.type # "Bootstrap" \/ cluster.phase \in {"Pending", "Done"}
    PROVE  \A n \in Nodes : ~Live(n)
BY DEF EtcdInv, OnlyBootstrap

\* updateStatus looks for an etcd, and finds one if it has data.
LEMMA StatusEtcd ==
    ASSUME TypesInv, EtcdInv, updateStatus
    PROVE  EtcdInv'
<1>1. SameNodes
  BY DEF updateStatus, nodeVars, SameNodes
<1>2. PICK b \in {"True", "False"} :
        /\ bootstrapped(b)
        /\ cluster' = [cluster EXCEPT
              !.inSync       = \A n \in Eligible : node[n].inSync,
              !.upToDate     = \A n \in Eligible : node[n].upToDate,
              !.bootstrapped = b,
              !.next         = updateMaintenanceStatus]
  BY DEF updateStatus
<1>3. /\ cluster'.type = cluster.type /\ cluster'.phase = cluster.phase
      /\ cluster'.step = cluster.step /\ cluster'.on = cluster.on
      /\ cluster'.bootstrapped = b
  BY <1>2 DEF TypesInv, StatusTypes, ClusterObject
<1>4. worker'.pc = "secrets" /\ worker.pc # "record"
  BY DEF updateStatus, HasBundle
<1>5. b = "False" => \A n \in Eligible : ~machine[n].data
  BY <1>2, EligibleListed DEF bootstrapped
<1>6. OnlyBootstrap' /\ BeingRecorded' /\ Before'
  BY <1>1, <1>3, <1>4, SameNodesFacts DEF EtcdInv, OnlyBootstrap, BeingRecorded, Before, ClusterDue
<1>7. Seen'
  <2> SUFFICES ASSUME b = "False", ~NoEtcd
               PROVE  \E n \in Nodes : node[n].provisioned /\ HasEtcd(n) /\ RuledOut(n)
    BY <1>1, <1>3, SameNodesFacts DEF Seen, SameNodes
  <2>1. PICK n \in Nodes : node[n].provisioned /\ HasEtcd(n)
    BY DEF EtcdInv, Anchored
  <2> QED
    BY <1>5, <2>1 DEF EtcdInv, NodeFacts, Eligible
<1> QED
  BY <1>1, <1>6, <1>7, SameNodesFacts DEF EtcdInv

\* A bootstrap is triggered only where there is no etcd.
LEMMA TriggerEtcd ==
    ASSUME TypesInv, EtcdInv, Trigger
    PROVE  EtcdInv'
<1>1. SameNodes /\ worker.pc = "triggers" /\ worker'.pc \in {"idle", "dispatch"}
  BY DEF Trigger, nodeVars, SameNodes, Goto, Return, IdleWorker, TypesInv, WindowInv, Stages
<1>2. CASE cluster' = cluster
  BY <1>1, <1>2, StageChanged
<1>3. CASE ReadyForBootstrap /\ cluster' = Triggered("Bootstrap")
  <2>1. NoEtcd
    BY <1>1, <1>3 DEF EtcdInv, Seen, ReadyForBootstrap, Eligible, RuledOut
  <2>2. \A n \in Nodes : ~Live(n)
    BY <1>3, NoneLive DEF ReadyForBootstrap
  <2> QED
    BY <1>1, <2>1, <2>2, SameNodesFacts DEF EtcdInv, OnlyBootstrap, BeingRecorded, Before, Seen
<1>4. CASE WindowOperation # "None" /\ cluster' = Triggered(WindowOperation)
  <2>1. cluster.phase = "Done" /\ cluster'.type # "Bootstrap"
    BY <1>4 DEF WindowOperation, Triggered, TypesInv, StatusTypes, ClusterObject
  <2>2. \A n \in Nodes : ~Live(n)
    BY <2>1, NoneLive
  <2> QED
    BY <1>1, <2>1, <2>2, SameNodesFacts
    DEF EtcdInv, OnlyBootstrap, BeingRecorded, Before, ClusterDue, NodeDue, Seen
<1> QED
  BY <1>2, <1>3, <1>4 DEF Trigger

\* The plan of a bootstrap changes nothing yet.
LEMMA MakePlanEtcd ==
    ASSUME TypesInv, EtcdInv, MakePlan
    PROVE  EtcdInv'
<1>1. SameNodes /\ worker.pc = "dispatch" /\ worker'.pc = "idle" /\ cluster.phase = "Pending"
  BY DEF MakePlan, nodeVars, SameNodes, Return, IdleWorker
<1>2. \A n \in Nodes : ~Live(n)
  BY <1>1, NoneLive
<1>3. cluster'.type = cluster.type /\ cluster'.phase # "Pending"
  BY DEF MakePlan, TypesInv, StatusTypes, ClusterObject
<1>4. Before'
  BY <1>1, <1>2, <1>3, SameNodesFacts DEF EtcdInv, Before, ClusterDue, NodeDue
<1> QED
  BY <1>1, <1>2, <1>4, SameNodesFacts DEF EtcdInv, OnlyBootstrap, BeingRecorded, Seen

\* The node's status is written ...
LEMMA BeginEtcd ==
    ASSUME TypesInv, EtcdInv, BootstrapBegin
    PROVE  EtcdInv'
<1> DEFINE on == cluster.on
<1>1. /\ on \in Nodes /\ cluster' = cluster /\ machine' = machine /\ pending' = pending
      /\ worker.pc = "dispatch" /\ worker'.pc = "record"
      /\ cluster.type = "Bootstrap" /\ cluster.phase = "InProgress" /\ cluster.step = "Pending"
  BY DEF BootstrapBegin, Goto, TypesInv, StatusTypes, ClusterObject, WindowInv, Stages
<1>2. /\ node'[on].type = "Bootstrap" /\ node'[on].phase = "Pending"
      /\ node'[on].kind = node[on].kind /\ node'[on].provisioned = node[on].provisioned
      /\ \A m \in Nodes : m # on => node'[m] = node[m]
  BY <1>1 DEF BootstrapBegin, SetNode, TypesInv, StatusTypes, NodeObject
<1> HIDE DEF on
<1>3. NoEtcd /\ NoEtcd'
  BY <1>1 DEF EtcdInv, Before, ClusterDue, NoEtcd, HasEtcd
<1>4. \A n \in Nodes : NodeFacts(n)'
  BY <1>1, <1>2, <1>3 DEF EtcdInv, NodeFacts, NoEtcd, HasEtcd, Live, Complete
<1>5. \A n \in Nodes : Live(n)' => n = on
  BY <1>1, <1>2 DEF EtcdInv, OnlyBootstrap, Live, on
<1>6. OnlyBootstrap' /\ BeingRecorded' /\ Seen'
  BY <1>1, <1>5 DEF OnlyBootstrap, BeingRecorded, Seen, on
<1>7. OneEtcd'
  BY <1>1 DEF EtcdInv, OneEtcd
<1> QED
  BY <1>3, <1>4, <1>6, <1>7 DEF EtcdInv, Anchored, Before

\* ... then the plan's, and its result is read from the node's.
LEMMA SubOpEtcd ==
    ASSUME TypesInv, EtcdInv, BootstrapRecord \/ BootstrapMonitor \/ BootstrapTimeout
    PROVE  EtcdInv'
<1>1. SameNodes /\ worker'.pc = "idle"
  BY DEF BootstrapRecord, BootstrapMonitor, BootstrapTimeout, nodeVars, SameNodes, Return,
         IdleWorker
<1>2. CASE BootstrapRecord
  <2>1. /\ worker.pc = "record" /\ cluster.phase = "InProgress" /\ cluster'.phase = cluster.phase
        /\ cluster'.type = cluster.type /\ cluster'.on = cluster.on /\ cluster'.step = "Applying"
    BY <1>2 DEF BootstrapRecord, EtcdInv, BeingRecorded, TypesInv, StatusTypes, ClusterObject
  <2> QED
    BY <1>1, <2>1, SameNodesFacts
    DEF EtcdInv, OnlyBootstrap, BeingRecorded, Before, ClusterDue, Seen
<1>3. CASE BootstrapTimeout
  <2>1. /\ worker.pc # "record" /\ cluster'.phase = "Failed" /\ cluster'.type = cluster.type
        /\ cluster'.on = cluster.on /\ cluster'.step = cluster.step
    BY <1>3 DEF BootstrapTimeout, TypesInv, StatusTypes, ClusterObject
  <2> QED
    BY <1>1, <2>1, SameNodesFacts
    DEF EtcdInv, OnlyBootstrap, BeingRecorded, Before, ClusterDue, Seen
<1>4. CASE BootstrapMonitor /\ cluster' = cluster
  BY <1>1, <1>4, StageChanged DEF BootstrapMonitor
<1>5. CASE BootstrapMonitor /\ node[cluster.on].phase \in Complete
  <2>1. cluster'.phase \in Complete
    BY <1>5 DEF BootstrapMonitor, TypesInv, StatusTypes, ClusterObject
  <2>2. \A n \in Nodes : ~Live(n)
    BY <1>5 DEF EtcdInv, OnlyBootstrap, Live
  <2> QED
    BY <1>1, <2>1, <2>2, SameNodesFacts
    DEF EtcdInv, OnlyBootstrap, BeingRecorded, Before, ClusterDue, NodeDue, Seen, Complete
<1> QED
  BY <1>2, <1>3, <1>4, <1>5 DEF BootstrapMonitor

\* A rolling operation leaves etcd alone, and rules a bootstrap out on every
\* node it has been on.
LEMMA RollingEtcd ==
    ASSUME TypesInv, EtcdInv, RollingRun
    PROVE  EtcdInv'
<1>1. /\ worker.pc = "dispatch" /\ worker'.pc = "idle" /\ cluster.type # "Bootstrap"
      /\ cluster'.type # "Bootstrap" /\ pending' = pending
  BY DEF RollingRun, Return, IdleWorker, TypesInv, StatusTypes, ClusterObject
<1>2. \A n \in Nodes : ~Live(n)
  BY <1>1, NoneLive
<1>3. CASE UNCHANGED <<node, machine>>
  <2>1. SameNodes
    BY <1>1, <1>3 DEF SameNodes
  <2> QED
    BY <1>1, <1>2, <2>1, SameNodesFacts
    DEF EtcdInv, OnlyBootstrap, BeingRecorded, Before, ClusterDue, NodeDue, Seen
<1>4. CASE ~UNCHANGED <<node, machine>>
  <2>0. /\ \A n \in Eligible : node[n].phase \in Complete
        /\ node' = [n \in Nodes |->
              IF n \notin Eligible THEN node[n]
              ELSE [node[n] EXCEPT !.phase = "Done",
                       !.type = IF cluster.type = "RollingApply" THEN "Apply"
                                ELSE "KubernetesComponentUpgrade"]]
        /\ machine' = [n \in Nodes |->
              IF n \notin Eligible THEN machine[n]
              ELSE IF cluster.type = "RollingApply"
              THEN [machine[n] EXCEPT !.release = TRUE, !.config = TRUE]
              ELSE [machine[n] EXCEPT !.version = TRUE]]
    BY <1>4 DEF RollingRun
  <2>1. \A n \in Nodes : /\ machine'[n].running = machine[n].running
                         /\ machine'[n].etcd = machine[n].etcd
                         /\ machine'[n].data = machine[n].data
    <3>1. \A n \in Nodes : machine[n] \in Machine
      BY DEF TypesInv, CredentialsInv, MachineOf
    <3> QED
      BY <2>0, <3>1 DEF Machine
  <2>2. \A n \in Nodes : /\ node'[n].kind = node[n].kind
                         /\ node'[n].provisioned = node[n].provisioned
                         /\ \/ node'[n].type = node[n].type /\ node'[n].phase = node[n].phase
                            \/ /\ node[n].phase \in Complete /\ node'[n].phase = "Done"
                               /\ node'[n].type \in {"Apply", "KubernetesComponentUpgrade"}
    <3>1. \A n \in Nodes : node[n] \in NodeObject
      BY DEF TypesInv, StatusTypes
    <3>2. ASSUME NEW n \in Eligible
          PROVE  /\ node'[n].kind = node[n].kind
                 /\ node'[n].provisioned = node[n].provisioned
                 /\ node[n].phase \in Complete /\ node'[n].phase = "Done"
                 /\ node'[n].type \in {"Apply", "KubernetesComponentUpgrade"}
      BY <2>0, <3>1 DEF NodeObject, Eligible
    <3> QED
      BY <2>0, <3>2
  <2>3. \A n \in Nodes : HasEtcd(n)' = HasEtcd(n) /\ ~Live(n)' /\ (RuledOut(n) => RuledOut(n)')
    <3>1. \A n \in Nodes : HasEtcd(n)' = HasEtcd(n)
      BY <2>1 DEF HasEtcd
    <3>2. \A n \in Nodes : ~Live(n)'
      BY <1>2, <2>2 DEF Live, Complete
    <3>3. \A n \in Nodes : RuledOut(n) => RuledOut(n)'
      BY <2>2 DEF RuledOut
    <3> QED
      BY <3>1, <3>2, <3>3
  <2>4. \A n \in Nodes : NodeFacts(n)'
    <3> SUFFICES ASSUME NEW n \in Nodes PROVE NodeFacts(n)'
      OBVIOUS
    <3> QED
      BY <1>1, <1>2, <2>1, <2>2, <2>3 DEF EtcdInv, NodeFacts, Complete
  <2>5. OneEtcd'
    BY <2>1 DEF EtcdInv, OneEtcd
  <2>6. Anchored'
    BY <2>2, <2>3 DEF EtcdInv, Anchored, NoEtcd
  <2> QED
    BY <1>1, <2>3, <2>4, <2>5, <2>6, SMTT(30)
    DEF EtcdInv, OnlyBootstrap, BeingRecorded, Before, ClusterDue, NodeDue, Seen
<1> QED
  BY <1>3, <1>4

\* The Cluster controller keeps the invariant.
LEMMA ClusterStepEtcd ==
    ASSUME TypesInv, EtcdInv, ClusterStep \/ BootstrapTimeout
    PROVE  EtcdInv'
<1>1. CASE SetSecretsRef
  <2>1. SameNodes /\ worker' = worker
    BY <1>1 DEF SetSecretsRef, nodeVars, SameNodes
  <2>2. /\ cluster'.type = cluster.type /\ cluster'.phase = cluster.phase
        /\ cluster'.step = cluster.step /\ cluster'.on = cluster.on
        /\ cluster'.bootstrapped = cluster.bootstrapped
    BY <1>1 DEF SetSecretsRef, TypesInv, StatusTypes, ClusterObject
  <2> QED
    BY <2>1, <2>2, StageChanged
<1>2. CASE EnsureBundle \/ CreateBundle \/ updateStatusFails \/ updateSecrets
  <2>1. SameNodes /\ cluster' = cluster
    BY <1>2 DEF EnsureBundle, CreateBundle, updateStatusFails, updateSecrets, nodeVars, SameNodes
  <2>2. /\ worker.pc # "record" /\ worker'.pc # "record"
        /\ worker'.pc \in {"secrets", "triggers"} => worker.pc \in {"secrets", "triggers"}
    BY <1>2 DEF EnsureBundle, CreateBundle, updateStatusFails, updateSecrets, HasBundle,
                Goto, Return, IdleWorker, TypesInv, WindowInv, Stages
  <2> QED
    BY <2>1, <2>2, StageChanged
<1> QED
  BY <1>1, <1>2, StatusEtcd, TriggerEtcd, MakePlanEtcd, BeginEtcd, SubOpEtcd, RollingEtcd
  DEF ClusterStep

\* A step of one node's status that leaves etcd alone keeps it, unless the step
\* takes the node with an etcd out of the list or lets a bootstrap be due.
LEMMA NodeChanged ==
    ASSUME EtcdInv, UNCHANGED <<machine, cluster, worker>>, NEW n \in Nodes,
           \A m \in Nodes : m # n => node'[m] = node[m] /\ pending'[m] = pending[m],
           NodeFacts(n)',
           HasEtcd(n) /\ node[n].provisioned => node'[n].provisioned,
           HasEtcd(n) /\ RuledOut(n) => RuledOut(n)',
           Live(n)' => Live(n),
           NodeDue(n)' => NodeDue(n)
    PROVE  EtcdInv'
<1>1. \A m \in Nodes : HasEtcd(m)' = HasEtcd(m)
  BY DEF HasEtcd
<1>2. \A m \in Nodes : NodeFacts(m)'
  BY DEF EtcdInv, NodeFacts, HasEtcd, Live, RuledOut
<1>3. \A m \in Nodes : (Live(m)' => Live(m)) /\ (NodeDue(m)' => NodeDue(m))
  BY DEF Live, NodeDue
<1>4. \A m \in Nodes : /\ HasEtcd(m) /\ node[m].provisioned => node'[m].provisioned
                       /\ HasEtcd(m) /\ RuledOut(m) => RuledOut(m)'
  BY DEF RuledOut
<1>5. NoEtcd' = NoEtcd /\ OneEtcd'
  BY <1>1 DEF EtcdInv, NoEtcd, OneEtcd
<1>6. Anchored' /\ Seen'
  BY <1>1, <1>4, <1>5 DEF EtcdInv, Anchored, Seen
<1>7. OnlyBootstrap' /\ BeingRecorded' /\ Before'
  BY <1>3, <1>5 DEF EtcdInv, OnlyBootstrap, BeingRecorded, Before, ClusterDue
<1> QED
  BY <1>2, <1>5, <1>6, <1>7 DEF EtcdInv

\* One line for each way a node's status is written.
LEMMA StatusWritten ==
    ASSUME TypesInv, NEW n \in Nodes, NEW o, SetNode(n, o)
    PROVE  /\ node'[n] = o
           /\ \A m \in Nodes : m # n => node'[m] = node[m]
BY DEF SetNode, TypesInv, StatusTypes

\* A handler that writes a phase and nothing else.
LEMMA PhaseOnly ==
    ASSUME TypesInv, NEW n \in Nodes, NEW p, SetPhase(n, p)
    PROVE  /\ node'[n].phase = p /\ node'[n].type = node[n].type
           /\ node'[n].kind = node[n].kind /\ node'[n].provisioned = node[n].provisioned
           /\ \A m \in Nodes : m # n => node'[m] = node[m]
BY DEF SetPhase, SetNode, TypesInv, StatusTypes, NodeObject

\* Handlers that only write the phase of an operation whose node has no write due.
LEMMA PhasesEtcd ==
    ASSUME TypesInv, EtcdInv, NEW n \in Nodes, NEW p, SetPhase(n, p), Free(n),
           UNCHANGED <<machine, pending, cluster, worker>>,
           node[n].phase \notin Complete, p # "Verifying",
           node[n].type = "Bootstrap" /\ p = "Applying" => node[n].provisioned,
           RuledOut(n) => node[n].type # "Provision" \/ p = "Failed"
    PROVE  EtcdInv'
<1>1. HasEtcd(n)' = HasEtcd(n) /\ (RuledOut(n) => RuledOut(n)') /\ (Live(n)' => Live(n))
  BY PhaseOnly DEF HasEtcd, RuledOut, Live
<1>2. NodeFacts(n)'
  BY <1>1, PhaseOnly DEF EtcdInv, NodeFacts, Free
<1>3. NodeDue(n)' => NodeDue(n)
  BY <1>1 DEF NodeDue
<1> QED
  BY <1>1, <1>2, <1>3, PhaseOnly, NodeChanged

\* The handlers that leave etcd alone keep the invariant.
LEMMA HandlersEtcd ==
    ASSUME TypesInv, EtcdInv, NEW n \in Nodes,
           \/ ProvisionPending(n) \/ ProvisionRefused(n) \/ NodeStart(n) \/ ResetDrain(n)
           \/ NodeTimeout(n)
    PROVE  EtcdInv'
<1>1. UNCHANGED <<machine, pending, cluster, worker>> /\ Free(n)
  BY DEF ProvisionPending, ProvisionRefused, NodeStart, ResetDrain, NodeTimeout, controller
<1>2. node[n].phase \notin Complete
  BY DEF ProvisionPending, ProvisionRefused, NodeStart, ResetDrain, NodeTimeout, Complete
<1>3. \E p : /\ SetPhase(n, p)
             /\ p # "Verifying"
             /\ node[n].type = "Bootstrap" /\ p = "Applying" => node[n].provisioned
             /\ RuledOut(n) => node[n].type # "Provision" \/ p = "Failed"
  <2>1. CASE ProvisionPending(n)
    BY <2>1 DEF ProvisionPending, RuledOut
  <2>2. CASE ProvisionRefused(n)
    BY <2>2 DEF ProvisionRefused
  <2>3. CASE NodeStart(n)
    BY <2>3 DEF NodeStart
  <2>4. CASE ResetDrain(n)
    BY <2>4 DEF ResetDrain
  <2>5. CASE NodeTimeout(n)
    BY <2>5 DEF NodeTimeout
  <2> QED
    BY <2>1, <2>2, <2>3, <2>4, <2>5
<1> QED
  BY <1>1, <1>2, <1>3, PhasesEtcd

\* The other writes of the Node controller.
LEMMA RecordsEtcd ==
    ASSUME TypesInv, EtcdInv, NEW n \in Nodes,
           ProvisionRecord(n) \/ ProvisionVerify(n) \/ NodeStatus(n) \/ BootstrapDone(n)
           \/ ResetVerify(n) \/ ResetDone(n)
    PROVE  EtcdInv'
<1>1. /\ UNCHANGED <<machine, cluster, worker>> /\ HasEtcd(n)' = HasEtcd(n)
      /\ \A m \in Nodes : m # n => pending'[m] = pending[m]
      /\ node[n] \in NodeObject /\ pending[n] \in Writes
  BY DEF ProvisionRecord, ProvisionVerify, NodeStatus, BootstrapDone, ResetVerify, ResetDone,
         controller, HasEtcd, TypesInv, StatusTypes
<1>2. CASE ProvisionRecord(n)
  <2>1. /\ node'[n].phase = "ProvisionVerifying" /\ node'[n].provisioned = TRUE
        /\ node'[n].type = node[n].type /\ node'[n].kind = node[n].kind
        /\ \A m \in Nodes : m # n => node'[m] = node[m]
        /\ pending[n] = "provisioned" /\ pending'[n] = "none"
    BY <1>2 DEF ProvisionRecord, SetNode, NodeObject, TypesInv, StatusTypes
  <2>2. NodeFacts(n)' /\ (Live(n)' => Live(n)) /\ (NodeDue(n)' => NodeDue(n))
    BY <1>1, <2>1 DEF EtcdInv, NodeFacts, Live, NodeDue, RuledOut, Complete
  <2>3. RuledOut(n) => RuledOut(n)'
    BY <2>1 DEF EtcdInv, NodeFacts, Live, RuledOut
  <2> QED
    BY <1>1, <2>1, <2>2, <2>3, NodeChanged
<1>3. CASE ProvisionVerify(n)
  <2>1. /\ node'[n].phase = "Done" /\ node'[n].provisioned = node[n].provisioned
        /\ node'[n].type = node[n].type /\ node'[n].kind = node[n].kind
        /\ \A m \in Nodes : m # n => node'[m] = node[m]
        /\ pending[n] = "none" /\ pending' = pending
        /\ node[n].type = "Provision" /\ node[n].phase = "ProvisionVerifying"
    <3>1. \E b : node' = [node EXCEPT ![n] = [node[n] EXCEPT !.phase = "Done", !.initial = b]]
      BY <1>3 DEF ProvisionVerify, SetNode
    <3> QED
      BY <1>3, <3>1 DEF ProvisionVerify, Free, NodeObject, TypesInv, StatusTypes
  <2>2. ~RuledOut(n)
    BY <2>1 DEF RuledOut
  <2>3. NodeFacts(n)' /\ ~Live(n)'
    BY <1>1, <2>1, <2>2 DEF EtcdInv, NodeFacts, Live, Complete
  <2> QED
    BY <1>1, <2>1, <2>2, <2>3, NodeChanged DEF NodeDue
<1>4. CASE NodeStatus(n)
  <2>1. /\ node'[n].phase = node[n].phase /\ node'[n].provisioned = node[n].provisioned
        /\ node'[n].type = node[n].type /\ node'[n].kind = node[n].kind
        /\ \A m \in Nodes : m # n => node'[m] = node[m]
        /\ pending' = pending
    <3>1. \E r, b, c : \/ node' = [node EXCEPT ![n] = [node[n] EXCEPT !.ready = r]]
                       \/ node' = [node EXCEPT ![n] = [node[n] EXCEPT !.ready = r, !.inSync = b,
                                                                      !.upToDate = c]]
      BY <1>4 DEF NodeStatus, SetNode
    <3> QED
      BY <1>4, <3>1 DEF NodeStatus, NodeObject, TypesInv, StatusTypes
  <2>2. NodeFacts(n)' /\ (Live(n)' => Live(n)) /\ (NodeDue(n)' => NodeDue(n))
    BY <1>1, <2>1 DEF EtcdInv, NodeFacts, Live, NodeDue, RuledOut, Complete
  <2> QED
    BY <1>1, <2>1, <2>2, NodeChanged DEF RuledOut
<1>5. CASE BootstrapDone(n)
  <2>1. /\ node'[n].phase = "Done" /\ node'[n].provisioned = node[n].provisioned
        /\ node'[n].type = node[n].type /\ node'[n].kind = node[n].kind
        /\ \A m \in Nodes : m # n => node'[m] = node[m]
        /\ pending[n] = "bootstrapped" /\ pending'[n] = "none"
    BY <1>1, <1>5, PhaseOnly DEF BootstrapDone, TypesInv, StatusTypes
  <2>2. RuledOut(n)'
    BY <2>1 DEF EtcdInv, NodeFacts, RuledOut
  <2>3. NodeFacts(n)' /\ ~Live(n)'
    BY <1>1, <2>1, <2>2 DEF EtcdInv, NodeFacts, Live, RuledOut, Complete
  <2> QED
    BY <1>1, <2>1, <2>2, <2>3, NodeChanged DEF NodeDue
<1>6. CASE ResetVerify(n)
  <2>1. /\ node'[n].phase = "Verifying" /\ node'[n].type = "Reset" /\ node'[n].kind = "all"
        /\ \A m \in Nodes : m # n => node'[m] = node[m]
        /\ node[n].phase = "Verifying" /\ pending'[n] = "reset"
    <3> DEFINE V == [NewNode EXCEPT !.type = "Reset", !.phase = "Verifying"]
    <3>1. V.phase = "Verifying" /\ V.type = "Reset" /\ V.kind = "all"
      BY DEF NewNode
    <3> HIDE DEF V
    <3>2. node'[n] = V /\ \A m \in Nodes : m # n => node'[m] = node[m]
      BY <1>6, StatusWritten DEF ResetVerify, V
    <3>3. node[n].phase = "Verifying" /\ pending'[n] = "reset"
      BY <1>6 DEF ResetVerify, TypesInv, StatusTypes
    <3> QED
      BY <3>1, <3>2, <3>3
  <2>2. ~machine[n].running /\ ~HasEtcd(n)
    BY <2>1 DEF EtcdInv, NodeFacts
  <2>3. NodeFacts(n)' /\ ~Live(n)'
    BY <1>1, <2>1, <2>2 DEF EtcdInv, NodeFacts, Live, Complete
  <2> QED
    BY <1>1, <2>1, <2>2, <2>3, NodeChanged DEF NodeDue
<1>7. CASE ResetDone(n)
  <2>1. /\ node'[n].phase = "Done" /\ node'[n].provisioned = node[n].provisioned
        /\ node'[n].type = node[n].type /\ node'[n].kind = node[n].kind
        /\ \A m \in Nodes : m # n => node'[m] = node[m]
        /\ pending[n] = "reset" /\ pending'[n] = "none"
    BY <1>1, <1>7, PhaseOnly DEF ResetDone, TypesInv, StatusTypes
  <2>2. ~machine[n].running /\ ~HasEtcd(n)
    BY <2>1 DEF EtcdInv, NodeFacts
  <2>3. NodeFacts(n)' /\ ~Live(n)'
    BY <1>1, <2>1, <2>2 DEF EtcdInv, NodeFacts, Live, Complete
  <2> QED
    BY <1>1, <2>1, <2>2, <2>3, NodeChanged DEF NodeDue
<1> QED
  BY <1>2, <1>3, <1>4, <1>5, <1>6, <1>7

\* A user's request: a node with an etcd is provisioned, so a reset of it is
\* pending, or a provisioning that will be refused.
LEMMA RequestEtcd ==
    ASSUME Orderly, TypesInv, EtcdInv, NEW n \in Nodes, RequestOp(n)
    PROVE  EtcdInv'
<1>1. /\ UNCHANGED <<machine, cluster, worker, pending>> /\ HasEtcd(n)' = HasEtcd(n)
      /\ node[n] \in NodeObject /\ pending[n] = "none"
  BY DEF RequestOp, Free, controller, HasEtcd, TypesInv, StatusTypes
<1>2. /\ node'[n].phase = "Pending" /\ node'[n].provisioned = node[n].provisioned
      /\ node'[n].kind = "all" /\ node'[n].type \in {"Reset", "Provision"}
      /\ \A m \in Nodes : m # n => node'[m] = node[m]
  <2> DEFINE O == node[n]
             P == [O EXCEPT !.type = "Provision", !.phase = "Pending"]
             Q == [O EXCEPT !.type = "Reset", !.phase = "Pending", !.kind = "all"]
  <2>1. O.kind = "all" /\ ResetKinds \subseteq {"all"}
    BY DEF EtcdInv, NodeFacts, Orderly
  <2>2. SetNode(n, P) \/ SetNode(n, Q)
    BY <2>1 DEF RequestOp
  <2>3. /\ P.type = "Provision" /\ P.phase = "Pending" /\ P.kind = "all"
        /\ P.provisioned = O.provisioned
        /\ Q.type = "Reset" /\ Q.phase = "Pending" /\ Q.kind = "all"
        /\ Q.provisioned = O.provisioned
    BY <1>1, <2>1 DEF NodeObject
  <2> HIDE DEF P, Q
  <2>4. node'[n] \in {P, Q} /\ \A m \in Nodes : m # n => node'[m] = node[m]
    BY <2>2, StatusWritten
  <2> QED
    BY <2>3, <2>4
<1>3. HasEtcd(n) => node[n].provisioned /\ RuledOut(n)'
  BY <1>1, <1>2 DEF EtcdInv, NodeFacts, RuledOut
<1>4. NodeFacts(n)' /\ ~Live(n)'
  BY <1>1, <1>2, <1>3 DEF EtcdInv, NodeFacts, Live
<1> QED
  BY <1>1, <1>2, <1>3, <1>4, NodeChanged DEF NodeDue

\* A machine gets its configuration: it has no etcd.
LEMMA SendEtcd ==
    ASSUME TypesInv, EtcdInv, NEW n \in Nodes, ProvisionSend(n)
    PROVE  EtcdInv'
<1>1. /\ UNCHANGED <<node, cluster, worker>> /\ node[n].phase = "Provisioning"
      /\ ~machine[n].running /\ pending'[n] = "provisioned"
      /\ \A m \in Nodes : m # n => pending'[m] = pending[m]
  BY DEF ProvisionSend, controller, TypesInv, StatusTypes
<1>2. /\ \A m \in Nodes : m # n => machine'[m] = machine[m]
      /\ \A m \in Nodes : machine'[m].etcd = machine[m].etcd
      /\ machine'[n].data = machine[n].data
  BY DEF ProvisionSend, TypesInv, CredentialsInv, MachineOf, Machine
<1>3. \A m \in Nodes : /\ HasEtcd(m)' = HasEtcd(m) /\ Live(m)' = Live(m)
                       /\ RuledOut(m)' = RuledOut(m)
  BY <1>1, <1>2 DEF HasEtcd, Live, RuledOut
<1>4. ~HasEtcd(n)
  BY <1>1 DEF EtcdInv, NodeFacts
<1>5. \A m \in Nodes : NodeFacts(m)'
  BY <1>1, <1>2, <1>3, <1>4 DEF EtcdInv, NodeFacts
<1>6. \A m \in Nodes : NodeDue(m)' => NodeDue(m)
  <2>1. pending[n] # "bootstrapped"
    BY DEF ProvisionSend, Free
  <2> QED
    BY <1>1, <1>3, <2>1 DEF NodeDue
<1>7. NoEtcd' = NoEtcd /\ OneEtcd' /\ Anchored' /\ Seen'
  BY <1>1, <1>2, <1>3 DEF EtcdInv, NoEtcd, OneEtcd, Anchored, Seen
<1>8. OnlyBootstrap' /\ BeingRecorded' /\ Before'
  BY <1>1, <1>3, <1>6, <1>7 DEF EtcdInv, OnlyBootstrap, BeingRecorded, Before, ClusterDue
<1> QED
  BY <1>5, <1>7, <1>8 DEF EtcdInv

\* A new etcd is founded: there was none.
LEMMA FoundEtcd ==
    ASSUME TypesInv, EtcdInv, NEW n \in Nodes, BootstrapCall(n)
    PROVE  EtcdInv'
<1>1. CASE ~(Answers(n) /\ ~machine[n].data)
  <2>1. SetPhase(n, "Failed") /\ UNCHANGED <<machine, pending, cluster, worker>> /\ Free(n)
        /\ node[n].phase \notin Complete
    BY <1>1 DEF BootstrapCall, controller, Complete
  <2> QED
    BY <2>1, PhasesEtcd
<1>2. CASE Answers(n) /\ ~machine[n].data
  <2>1. /\ UNCHANGED <<node, cluster, worker>>
        /\ node[n].type = "Bootstrap" /\ node[n].phase = "Applying" /\ pending[n] = "none"
        /\ pending'[n] = "bootstrapped"
        /\ \A m \in Nodes : m # n => pending'[m] = pending[m]
    BY <1>2 DEF BootstrapCall, controller, Free, TypesInv, StatusTypes
  <2>2. /\ \A m \in Nodes : m # n => machine'[m] = machine[m]
        /\ machine'[n].etcd # 0 /\ machine'[n].running /\ ~machine'[n].data
    BY <1>2 DEF BootstrapCall, Answers, TypesInv, CredentialsInv, MachineOf, Machine
  <2>3. Live(n) /\ NodeDue(n)
    BY <2>1 DEF Live, NodeDue, Complete
  <2>4. NoEtcd
    BY <2>3 DEF EtcdInv, Before
  <2>5. n = cluster.on /\ ~ClusterDue /\ (\A m \in Nodes : Live(m) => m = n)
    BY <2>3 DEF EtcdInv, OnlyBootstrap, ClusterDue
  <2>6. /\ HasEtcd(n)' /\ \A m \in Nodes : m # n => ~HasEtcd(m)'
        /\ \A m \in Nodes : Live(m)' = Live(m) /\ RuledOut(m)' = RuledOut(m)
    BY <2>1, <2>2, <2>4 DEF HasEtcd, NoEtcd, Live, RuledOut
  <2>7. node[n].provisioned /\ RuledOut(n)
    BY <2>1 DEF EtcdInv, NodeFacts, RuledOut
  <2>8. \A m \in Nodes : NodeFacts(m)'
    <3>1. NodeFacts(n)'
      BY <2>1, <2>2, <2>6, <2>7 DEF EtcdInv, NodeFacts
    <3>2. ASSUME NEW m \in Nodes, m # n PROVE NodeFacts(m)'
      BY <2>1, <2>2, <2>4, <2>6, <3>2 DEF EtcdInv, NodeFacts, NoEtcd
    <3> QED
      BY <3>1, <3>2
  <2>9. OneEtcd' /\ Anchored' /\ Seen'
    BY <2>1, <2>6, <2>7 DEF OneEtcd, Anchored, Seen, HasEtcd
  <2>10. OnlyBootstrap' /\ BeingRecorded'
    BY <2>1, <2>6 DEF EtcdInv, OnlyBootstrap, BeingRecorded
  <2>11. Before'
    BY <2>1, <2>5, <2>6 DEF Before, ClusterDue, NodeDue
  <2> QED
    BY <2>8, <2>9, <2>10, <2>11 DEF EtcdInv
<1> QED
  BY <1>1, <1>2

\* A machine is wiped: what is left of its etcd is on machines that are listed,
\* for a node that is being provisioned keeps the others from being reset.
LEMMA ResetEtcd ==
    ASSUME Orderly, TypesInv, EtcdInv, NEW n \in Nodes, ResetCall(n)
    PROVE  EtcdInv'
<1>1. CASE ~Answers(n)
  <2>1. SetPhase(n, "Failed") /\ UNCHANGED <<machine, pending, cluster, worker>> /\ Free(n)
        /\ node[n].phase \notin Complete
    BY <1>1 DEF ResetCall, controller, Complete
  <2> QED
    BY <2>1, PhasesEtcd
<1>2. CASE Answers(n)
  <2>1. /\ UNCHANGED <<cluster, worker, pending>> /\ worker = IdleWorker
        /\ node[n].type = "Reset" /\ pending[n] = "none" /\ ~OthersInProgress(n)
    BY <1>2 DEF ResetCall, controller, Free, Orderly
  <2>2. /\ node'[n].phase = "Verifying" /\ node'[n].type = node[n].type
        /\ node'[n].kind = node[n].kind /\ node'[n].provisioned = node[n].provisioned
        /\ \A m \in Nodes : m # n => node'[m] = node[m]
    BY <1>2, PhaseOnly DEF ResetCall
  <2>3. machine' = [machine EXCEPT ![n] = [NewMachine(n) EXCEPT !.up = FALSE]]
    BY <1>2 DEF ResetCall, EtcdInv, NodeFacts
  <2>4. /\ \A m \in Nodes : m # n => machine'[m] = machine[m]
        /\ machine'[n].etcd = 0 /\ machine'[n].running = FALSE /\ machine'[n].data = FALSE
    BY <2>3 DEF NewMachine, TypesInv, CredentialsInv
  <2>5. /\ ~HasEtcd(n)' /\ \A m \in Nodes : m # n => HasEtcd(m)' = HasEtcd(m)
        /\ \A m \in Nodes : Live(m)' => Live(m)
        /\ \A m \in Nodes : RuledOut(m)' = RuledOut(m)
    BY <2>1, <2>2, <2>4 DEF HasEtcd, Live, RuledOut
  <2>6. \A m \in Nodes : NodeFacts(m)'
    <3>1. NodeFacts(n)'
      BY <2>1, <2>2, <2>4, <2>5 DEF EtcdInv, NodeFacts
    <3>2. ASSUME NEW m \in Nodes, m # n PROVE NodeFacts(m)'
      BY <2>1, <2>2, <2>4, <2>5, <3>2 DEF EtcdInv, NodeFacts, Live
    <3> QED
      BY <3>1, <3>2
  <2>7. NoEtcd => NoEtcd'
    BY <2>5 DEF NoEtcd
  <2>8. OneEtcd'
    BY <2>4 DEF EtcdInv, OneEtcd
  <2>9. Anchored'
    <3> SUFFICES ASSUME NEW m \in Nodes, HasEtcd(m)' PROVE node'[m].provisioned
      BY DEF Anchored, NoEtcd
    <3>1. m # n /\ HasEtcd(m) /\ ~NoEtcd /\ machine[m].running
      BY <2>5 DEF NoEtcd, EtcdInv, NodeFacts
    <3>2. ~NodeDue(m)
      BY <3>1 DEF EtcdInv, Before
    <3>3. node[m].phase # "Provisioning"
      BY <2>1, <3>1 DEF OthersInProgress, InProgress, Complete
    <3>4. pending[m] # "provisioned"
      BY <3>2, <3>3 DEF EtcdInv, NodeFacts, NodeDue
    <3> QED
      BY <2>2, <3>1, <3>4 DEF EtcdInv, NodeFacts
  <2>10. OnlyBootstrap' /\ BeingRecorded' /\ Before' /\ Seen'
    BY <2>1, <2>5, <2>7
    DEF EtcdInv, OnlyBootstrap, BeingRecorded, Before, ClusterDue, NodeDue, Seen, IdleWorker
  <2> QED
    BY <2>6, <2>8, <2>9, <2>10 DEF EtcdInv
<1> QED
  BY <1>1, <1>2

\* The etcd that was founded writes its data, and others join it.
LEMMA SpreadEtcd ==
    ASSUME TypesInv, EtcdInv, NEW n \in Nodes, EtcdStart(n) \/ EtcdJoin(n)
    PROVE  EtcdInv'
<1>1. /\ UNCHANGED <<node, cluster, worker, pending>> /\ machine[n].running
  BY DEF EtcdStart, EtcdJoin, Answers, controller
<1>2. PICK e : /\ machine' = [machine EXCEPT ![n] = [machine[n] EXCEPT !.etcd = e, !.data = TRUE]]
               /\ \E m \in Nodes : HasEtcd(m) /\ machine[m].etcd = e
  <2>1. CASE EtcdStart(n)
    <3>1. machine[n] \in Machine
      BY DEF TypesInv, CredentialsInv, MachineOf
    <3>2. [machine[n] EXCEPT !.data = TRUE]
            = [machine[n] EXCEPT !.etcd = machine[n].etcd, !.data = TRUE]
      BY <3>1 DEF Machine
    <3> QED
      BY <2>1, <3>2 DEF EtcdStart, HasEtcd
  <2>2. CASE EtcdJoin(n)
    BY <2>2 DEF EtcdJoin, HasEtcd, EtcdInv, NodeFacts
  <2> QED
    BY <2>1, <2>2
<1>3. /\ \A m \in Nodes : m # n => machine'[m] = machine[m]
      /\ machine'[n].etcd = e /\ machine'[n].running /\ machine'[n].data /\ e # 0
  BY <1>1, <1>2 DEF TypesInv, CredentialsInv, MachineOf, Machine, HasEtcd
<1>4. /\ HasEtcd(n)' /\ ~NoEtcd /\ \A m \in Nodes : HasEtcd(m) => HasEtcd(m)'
      /\ \A m \in Nodes : m # n => HasEtcd(m)' = HasEtcd(m)
      /\ \A m \in Nodes : Live(m)' = Live(m) /\ RuledOut(m)' = RuledOut(m)
                           /\ NodeDue(m)' = NodeDue(m)
  BY <1>1, <1>2, <1>3 DEF HasEtcd, NoEtcd, Live, RuledOut, NodeDue
<1>5. \A m \in Nodes : NodeFacts(m)'
  <2>1. NodeFacts(n)'
    BY <1>1, <1>3, <1>4 DEF EtcdInv, NodeFacts
  <2>2. ASSUME NEW m \in Nodes, m # n PROVE NodeFacts(m)'
    BY <1>1, <1>3, <1>4, <2>2 DEF EtcdInv, NodeFacts
  <2> QED
    BY <2>1, <2>2
<1>6. OneEtcd'
  <2>1. \A m \in Nodes : machine[m].etcd # 0 => machine[m].etcd = e
    BY <1>2 DEF EtcdInv, OneEtcd, HasEtcd
  <2> QED
    BY <1>3, <2>1 DEF OneEtcd
<1>7. Anchored' /\ Seen'
  BY <1>1, <1>4 DEF EtcdInv, Anchored, Seen
<1>8. OnlyBootstrap' /\ BeingRecorded' /\ Before'
  BY <1>1, <1>4 DEF EtcdInv, OnlyBootstrap, BeingRecorded, Before, ClusterDue
<1> QED
  BY <1>5, <1>6, <1>7, <1>8 DEF EtcdInv

\* What happens besides does not concern etcd.
LEMMA QuietEtcd ==
    ASSUME TypesInv, EtcdInv,
           \/ ObserveBundle \/ ToggleWindow \/ Tick \/ UNCHANGED vars
           \/ \E k \in Secrets : SecretAges(k)
           \/ \E n \in Nodes : ComeUp(n) \/ GoDown(n) \/ Edit(n)
    PROVE  EtcdInv'
<1>1. UNCHANGED <<node, pending, cluster, worker>>
  BY DEF ObserveBundle, ToggleWindow, Tick, SecretAges, ComeUp, GoDown, Edit, vars, nodeVars,
         controller
<1>2. \A n \in Nodes : /\ machine'[n].running = machine[n].running
                       /\ machine'[n].etcd = machine[n].etcd
                       /\ machine'[n].data = machine[n].data
  <2>1. machine \in [Nodes -> Machine]
    BY DEF TypesInv, CredentialsInv, MachineOf
  <2>2. CASE ObserveBundle \/ ToggleWindow \/ Tick \/ (\E k \in Secrets : SecretAges(k)) \/ UNCHANGED vars
    BY <2>2 DEF ObserveBundle, ToggleWindow, Tick, SecretAges, vars, nodeVars
  <2>3. CASE \E n \in Nodes : ComeUp(n) \/ GoDown(n) \/ Edit(n)
    BY <2>1, <2>3 DEF ComeUp, GoDown, Edit, Machine
  <2> QED
    BY <2>2, <2>3
<1>3. SameNodes
  BY <1>1, <1>2 DEF SameNodes
<1> QED
  BY <1>1, <1>3, StageChanged

\* No etcd, no bootstrap.
LEMMA EtcdInit == Init => EtcdInv
BY DEF Init, EtcdInv, NodeFacts, OneEtcd, Anchored, OnlyBootstrap, BeingRecorded, Before, ClusterDue,
       NodeDue, Seen, NoEtcd, HasEtcd, Live, NewNode, NewMachine, NewCluster, IdleWorker

\* Every step keeps the invariant about etcd.
LEMMA EtcdNext ==
    ASSUME Orderly
    PROVE  TypesInv /\ EtcdInv /\ [Next]_vars => EtcdInv'
<1> SUFFICES ASSUME TypesInv, EtcdInv, [Next]_vars PROVE EtcdInv'
  OBVIOUS
<1>1. ~ClusterAbort /\ \A n \in Nodes : ~NodeAbort(n)
  BY DEF Orderly, ClusterAbort, NodeAbort, Happens
<1>2. ASSUME NEW n \in Nodes, NodeStep(n) PROVE EtcdInv'
  BY <1>2, HandlersEtcd, RecordsEtcd, SendEtcd, FoundEtcd, ResetEtcd DEF NodeStep
<1> QED
  BY <1>1, <1>2, ClusterStepEtcd, HandlersEtcd, RequestEtcd, SpreadEtcd, QuietEtcd DEF Next

\* The automatic bootstrap never founds a second etcd: for any number of control
\* planes, however often they are provisioned and reset, and whatever is edited,
\* unreachable or late meanwhile.
THEOREM OneEtcdForAll ==
    ASSUME "abort" \notin Events, "cut" \notin Events, ResetKinds \subseteq {"all"},
           ShortReconciles = TRUE
    PROVE  Spec => []OneEtcd
<1>1. Orderly
  BY DEF Orderly
<1>2. TypesInv /\ EtcdInv /\ [Next]_vars => EtcdInv'
  BY <1>1, EtcdNext
<1>3. EtcdInv => OneEtcd
  BY DEF EtcdInv
<1> QED
  BY <1>2, <1>3, TypesInit, TypesNext, EtcdInit, PTL DEF Spec

=============================================================================
