------------------------ MODULE ClusterReconcile_proofs ------------------------
(***************************************************************************)
(* Proofs about ClusterReconcile: one secrets bundle for the life of a     *)
(* cluster, and operations that start in a maintenance window.             *)
(***************************************************************************)
EXTENDS ClusterReconcile, NodeList_proofs

-----------------------------------------------------------------------------
(***************************************************************************)
(* Credentials.                                                            *)
(***************************************************************************)

Machine == [running : BOOLEAN, up : BOOLEAN, ca : Nat, etcd : Nat, data : BOOLEAN,
            release : BOOLEAN, config : BOOLEAN, version : BOOLEAN]

\* A machine that may be where the bundle is b.
MachineOf(b) == {m \in Machine : m.running => m.ca = b /\ b # 0}

\* CredentialsMatch is not inductive: a machine is configured from the cached
\* bundle, which is the bundle if there is one in the cache at all; and the
\* bundle is created only where no machine can have been configured yet.
CredentialsInv ==
    /\ bundle \in {0, 1}
    /\ bundleSeen \in {0, bundle}
    /\ etcds \in Nat
    /\ machine \in [Nodes -> MachineOf(bundle)]
    /\ secret \in [Secrets -> [ca : {0, bundleSeen}, old : BOOLEAN]]

\* Machines of a cluster that does not get another bundle.
LEMMA MachinesKept ==
    ASSUME CredentialsInv, UNCHANGED <<bundle, bundleSeen, secret>>, etcds' \in Nat,
           machine' \in [Nodes -> MachineOf(bundle)]
    PROVE  CredentialsInv'
BY DEF CredentialsInv

\* The same where one machine changes.
LEMMA MachineChanged ==
    ASSUME CredentialsInv, UNCHANGED <<bundle, bundleSeen, secret>>, etcds' \in Nat,
           NEW n \in Nodes, NEW m \in MachineOf(bundle), machine' = [machine EXCEPT ![n] = m]
    PROVE  CredentialsInv'
BY MachinesKept DEF CredentialsInv

\* The Cluster controller keeps the credentials together.
LEMMA ClusterStepCredentials ==
    ASSUME CredentialsInv, ClusterStep \/ BootstrapTimeout \/ ClusterAbort
    PROVE  CredentialsInv'
<1>1. CASE SetSecretsRef \/ EnsureBundle \/ updateStatus \/ updateStatusFails \/ Trigger
           \/ MakePlan \/ BootstrapBegin \/ BootstrapRecord \/ BootstrapMonitor
           \/ BootstrapTimeout \/ ClusterAbort
  <2>1. UNCHANGED <<bundle, bundleSeen, secret, machine, etcds>>
    BY <1>1 DEF SetSecretsRef, EnsureBundle, updateStatus, updateStatusFails, Trigger, MakePlan,
                BootstrapBegin, BootstrapRecord, BootstrapMonitor, BootstrapTimeout, ClusterAbort,
                nodeVars, environment
  <2> QED
    BY <2>1 DEF CredentialsInv
<1>2. CASE CreateBundle
  <2>1. CASE bundle = 0
    <3>1. bundle' = 1 /\ UNCHANGED <<bundleSeen, secret, machine, etcds>>
      BY <1>2, <2>1 DEF CreateBundle, nodeVars, environment
    <3>2. machine \in [Nodes -> MachineOf(1)]
      BY <2>1 DEF CredentialsInv, MachineOf
    <3> QED
      BY <2>1, <3>1, <3>2 DEF CredentialsInv
  <2>2. CASE bundle # 0
    BY <1>2, <2>2 DEF CreateBundle, nodeVars, environment, CredentialsInv
  <2> QED
    BY <2>1, <2>2
<1>3. CASE updateSecrets
  <2>1. UNCHANGED <<bundle, bundleSeen, machine, etcds>>
    BY <1>3 DEF updateSecrets, nodeVars, environment
  <2>2. secret' \in [Secrets -> [ca : {0, bundleSeen}, old : BOOLEAN]]
    BY <1>3 DEF updateSecrets, CredentialsInv
  <2> QED
    BY <2>1, <2>2 DEF CredentialsInv
<1>4. CASE RollingRun
  <2>1. UNCHANGED <<bundle, bundleSeen, secret, etcds>>
    BY <1>4 DEF RollingRun, environment
  <2>2. machine' \in [Nodes -> MachineOf(bundle)]
    <3>1. ASSUME NEW m \in MachineOf(bundle)
          PROVE  /\ [m EXCEPT !.release = TRUE, !.config = TRUE] \in MachineOf(bundle)
                 /\ [m EXCEPT !.version = TRUE] \in MachineOf(bundle)
      BY DEF MachineOf, Machine
    <3>2. CASE UNCHANGED machine
      BY <3>2 DEF CredentialsInv
    <3>3. CASE machine' = [n \in Nodes |->
                IF n \notin Eligible THEN machine[n]
                ELSE IF cluster.type = "RollingApply"
                THEN [machine[n] EXCEPT !.release = TRUE, !.config = TRUE]
                ELSE [machine[n] EXCEPT !.version = TRUE]]
      BY <3>1, <3>3 DEF CredentialsInv
    <3> QED
      BY <1>4, <3>2, <3>3 DEF RollingRun
  <2> QED
    BY <2>1, <2>2, MachinesKept DEF CredentialsInv
<1> QED
  BY <1>1, <1>2, <1>3, <1>4 DEF ClusterStep

\* So do the Node controller's steps: a machine is configured from the cache.
LEMMA NodeStepCredentials ==
    ASSUME CredentialsInv, NEW n \in Nodes, NodeStep(n) \/ NodeTimeout(n) \/ NodeAbort(n)
    PROVE  CredentialsInv'
<1>1. CASE \/ ProvisionPending(n) \/ ProvisionRecord(n) \/ ProvisionRefused(n)
           \/ ProvisionVerify(n) \/ NodeStatus(n) \/ NodeStart(n) \/ BootstrapDone(n)
           \/ ResetDrain(n) \/ ResetVerify(n) \/ ResetDone(n)
           \/ NodeTimeout(n) \/ NodeAbort(n)
  <2>1. UNCHANGED <<bundle, bundleSeen, secret, machine, etcds>>
    BY <1>1 DEF ProvisionPending, ProvisionRecord, ProvisionRefused, ProvisionVerify, NodeStatus,
                NodeStart, BootstrapDone, ResetDrain, ResetVerify, ResetDone, NodeTimeout, NodeAbort,
                controller, environment
  <2> QED
    BY <2>1 DEF CredentialsInv
<1> DEFINE M == machine[n]
<1>2. M \in MachineOf(bundle)
  BY DEF CredentialsInv
<1>3. CASE ProvisionSend(n)
  <2>1. bundleSeen = bundle /\ bundle # 0 /\ bundleSeen \in Nat
    BY <1>3 DEF ProvisionSend, CredentialsInv
  <2>2. [M EXCEPT !.running = TRUE, !.ca = bundleSeen, !.config = TRUE] \in MachineOf(bundle)
    BY <1>2, <2>1 DEF MachineOf, Machine
  <2> QED
    BY <1>3, <2>2, MachineChanged DEF ProvisionSend, controller, environment, CredentialsInv
<1>4. CASE BootstrapCall(n)
  <2>1. [M EXCEPT !.etcd = etcds + 1] \in MachineOf(bundle)
    BY <1>2 DEF MachineOf, Machine, CredentialsInv
  <2>2. etcds + 1 \in Nat
    BY DEF CredentialsInv
  <2>3. UNCHANGED <<bundle, bundleSeen, secret>>
    BY <1>4 DEF BootstrapCall, controller, environment
  <2>4. CASE machine' = [machine EXCEPT ![n].etcd = etcds + 1] /\ etcds' = etcds + 1
    BY <2>1, <2>2, <2>3, <2>4, MachineChanged
  <2>5. CASE UNCHANGED <<machine, etcds>>
    BY <2>3, <2>5 DEF CredentialsInv
  <2> QED
    BY <1>4, <2>4, <2>5 DEF BootstrapCall
<1>5. CASE ResetCall(n)
  <2>1. UNCHANGED <<bundle, bundleSeen, secret, etcds>>
    BY <1>5 DEF ResetCall, controller, environment
  <2>2. \E m \in MachineOf(bundle) : machine' = [machine EXCEPT ![n] = m]
    <3>1. [NewMachine(n) EXCEPT !.up = FALSE] \in MachineOf(bundle)
      BY DEF NewMachine, MachineOf, Machine
    <3>2. /\ [M EXCEPT !.etcd = 0, !.data = FALSE, !.up = FALSE] \in MachineOf(bundle)
          /\ [M EXCEPT !.up = FALSE] \in MachineOf(bundle)
      BY <1>2 DEF MachineOf, Machine
    <3>3. CASE UNCHANGED machine
      <4>1. machine' = [machine EXCEPT ![n] = M]
        BY <3>3 DEF CredentialsInv
      <4> QED
        BY <1>2, <4>1
    <3> QED
      BY <1>5, <3>1, <3>2, <3>3 DEF ResetCall
  <2> QED
    BY <2>1, <2>2, MachineChanged DEF CredentialsInv
<1> QED
  BY <1>1, <1>3, <1>4, <1>5 DEF NodeStep

\* So do machines, users and time.
LEMMA OthersCredentials ==
    ASSUME CredentialsInv,
           \/ ObserveBundle \/ ToggleWindow \/ Tick
           \/ \E k \in Secrets : SecretAges(k)
           \/ \E n \in Nodes : \/ EtcdStart(n) \/ EtcdJoin(n) \/ ComeUp(n) \/ GoDown(n)
                               \/ Edit(n) \/ RequestOp(n)
    PROVE  CredentialsInv'
<1>1. CASE ObserveBundle
  BY <1>1 DEF ObserveBundle, nodeVars, controller, CredentialsInv
<1>2. CASE ToggleWindow \/ Tick
  BY <1>2 DEF ToggleWindow, Tick, nodeVars, controller, CredentialsInv
<1>3. ASSUME NEW k \in Secrets, SecretAges(k) PROVE CredentialsInv'
  BY <1>3 DEF SecretAges, nodeVars, CredentialsInv
<1>4. ASSUME NEW n \in Nodes,
             EtcdStart(n) \/ EtcdJoin(n) \/ ComeUp(n) \/ GoDown(n) \/ Edit(n) \/ RequestOp(n)
      PROVE  CredentialsInv'
  <2> DEFINE M == machine[n]
  <2>1. M \in MachineOf(bundle)
    BY DEF CredentialsInv
  <2>2. UNCHANGED <<bundle, bundleSeen, secret, etcds>>
    BY <1>4 DEF EtcdStart, EtcdJoin, ComeUp, GoDown, Edit, RequestOp, controller, environment
  <2>3. CASE RequestOp(n)
    BY <2>2, <2>3 DEF RequestOp, CredentialsInv
  <2>4. CASE EtcdJoin(n)
    <3>1. PICK m \in Nodes : machine' = [machine EXCEPT ![n] = [M EXCEPT !.etcd = machine[m].etcd,
                                                                         !.data = TRUE]]
      BY <2>4 DEF EtcdJoin
    <3>2. machine[m].etcd \in Nat
      BY DEF CredentialsInv, MachineOf, Machine
    <3>3. [M EXCEPT !.etcd = machine[m].etcd, !.data = TRUE] \in MachineOf(bundle)
      BY <2>1, <3>2 DEF MachineOf, Machine
    <3> QED
      BY <2>2, <3>1, <3>3, MachineChanged DEF CredentialsInv
  <2>5. CASE EtcdStart(n) \/ ComeUp(n) \/ GoDown(n) \/ Edit(n)
    <3>1. /\ [M EXCEPT !.data = TRUE] \in MachineOf(bundle)
          /\ \A up \in BOOLEAN : [M EXCEPT !.up = up] \in MachineOf(bundle)
          /\ [M EXCEPT !.config = FALSE] \in MachineOf(bundle)
          /\ [M EXCEPT !.version = FALSE] \in MachineOf(bundle)
      BY <2>1 DEF MachineOf, Machine
    <3>2. \E m \in MachineOf(bundle) : machine' = [machine EXCEPT ![n] = m]
      BY <2>5, <3>1 DEF EtcdStart, ComeUp, GoDown, Edit
    <3> QED
      BY <2>2, <3>2, MachineChanged DEF CredentialsInv
  <2> QED
    BY <1>4, <2>3, <2>4, <2>5
<1> QED
  BY <1>1, <1>2, <1>3, <1>4

\* There is no bundle yet.
LEMMA CredentialsInit == Init => CredentialsInv
BY DEF Init, CredentialsInv, NewMachine, MachineOf, Machine

\* Every step keeps the invariant about bundles.
LEMMA CredentialsNext == CredentialsInv /\ [Next]_vars => CredentialsInv'
<1> SUFFICES ASSUME CredentialsInv, [Next]_vars PROVE CredentialsInv'
  OBVIOUS
<1>1. CASE UNCHANGED vars
  BY <1>1 DEF vars, CredentialsInv
<1> QED
  BY <1>1, ClusterStepCredentials, NodeStepCredentials, OthersCredentials DEF Next

\* There is never a second secrets bundle, and no machine or credential is made
\* from anything else, however the cache lags and whatever is cut off.
THEOREM OneBundle == Spec => []CredentialsMatch
<1>1. CredentialsInv => CredentialsMatch
  BY DEF CredentialsInv, CredentialsMatch, MachineOf
<1> QED
  BY <1>1, CredentialsInit, CredentialsNext, PTL DEF Spec

-----------------------------------------------------------------------------
(***************************************************************************)
(* Maintenance windows.                                                    *)
(***************************************************************************)

\* A next window: none, beyond the clock's end, or one that had not ended at x.
Window(next, x) ==
    \/ next = 0
    \/ next = MaxTime + Duration
    \/ next \in Starts /\ x < next + Duration

\* What updateMaintenanceStatus computes.
LEMMA NextWindow ==
    ASSUME now \in Nat
    PROVE  Window(updateMaintenanceStatus, now)
<1> DEFINE later == {s \in Starts : s > now - Duration}
<1>1. CASE windowOn /\ later # {}
  <2>1. later \subseteq Nat
    BY ReconcileConstantsAssumption
  <2>2. \E s \in later : \A t \in later : s <= t
    BY <1>1, <2>1, Smallest
  <2>3. NextStart(now - Duration) \in later
    BY <1>1, <2>2 DEF NextStart
  <2> QED
    <3> DEFINE s == NextStart(now - Duration)
    <3>1. Duration \in Nat /\ s \in Starts /\ s \in Nat /\ s > now - Duration
      BY <2>1, <2>3, ReconcileConstantsAssumption
    <3>2. now < s + Duration
      BY <3>1
    <3> QED
      BY <1>1, <3>1, <3>2 DEF updateMaintenanceStatus, Window
<1>2. CASE windowOn /\ later = {}
  BY <1>2 DEF updateMaintenanceStatus, NextStart, Window
<1>3. CASE ~windowOn
  BY <1>3 DEF updateMaintenanceStatus, Window
<1> QED
  BY <1>1, <1>2, <1>3

\* The fields of a Cluster object.
IsCluster(c) ==
    c = [named |-> c.named, bootstrapped |-> c.bootstrapped, inSync |-> c.inSync,
         upToDate |-> c.upToDate, next |-> c.next, type |-> c.type, phase |-> c.phase,
         on |-> c.on, step |-> c.step]

Stages == {"idle", "create", "status", "secrets", "triggers", "dispatch", "record"}

\* Between the status and the triggers the next window in the status is the one
\* computed by this reconcile, however the clock went on.
WindowInv ==
    /\ IsCluster(cluster)
    /\ now \in Nat /\ now <= MaxTime + 1
    /\ worker \in [pc : Stages, at : Nat] /\ worker.at <= now
    /\ worker.pc \in {"secrets", "triggers"} => Window(cluster.next, worker.at)

\* The operation of a maintenance window is about to start.
Starting ==
    /\ cluster'.type # "Bootstrap"
    /\ cluster'.phase = "Pending"
    /\ cluster.phase # "Pending"

\* The status is written with the next window of the moment.
LEMMA StatusWindow ==
    ASSUME WindowInv, updateStatus
    PROVE  WindowInv' /\ ~Starting
<1>1. PICK b : cluster' = [cluster EXCEPT
                !.inSync       = \A n \in Eligible : node[n].inSync,
                !.upToDate     = \A n \in Eligible : node[n].upToDate,
                !.bootstrapped = b,
                !.next         = updateMaintenanceStatus]
  BY DEF updateStatus
<1>2. IsCluster(cluster') /\ cluster'.next = updateMaintenanceStatus
      /\ cluster'.phase = cluster.phase
  BY <1>1 DEF WindowInv, IsCluster
<1>3. worker' = [pc |-> "secrets", at |-> now] /\ now' = now
  BY DEF updateStatus, environment
<1>4. Window(cluster'.next, worker'.at)
  BY <1>2, <1>3, NextWindow DEF WindowInv
<1> QED
  BY <1>2, <1>3, <1>4 DEF WindowInv, Starting, Stages

\* Steps that leave the Cluster's status alone.
LEMMA OtherStages ==
    ASSUME WindowInv, UNCHANGED cluster, now' \in {now, now + 1}, now' <= MaxTime + 1,
           worker' = IdleWorker \/ worker' = worker
             \/ (\E pc \in {"create", "status", "triggers", "dispatch", "record"} :
                    /\ worker' = [worker EXCEPT !.pc = pc]
                    /\ pc = "triggers" => worker.pc = "secrets")
    PROVE  WindowInv' /\ ~Starting
<1>1. worker' \in [pc : Stages, at : Nat] /\ worker'.at \in {0, worker.at}
  BY DEF WindowInv, IdleWorker, Stages
<1>2. now' \in Nat /\ worker'.at <= now'
  BY <1>1 DEF WindowInv
<1>3. worker'.pc \in {"secrets", "triggers"}
        => worker.pc \in {"secrets", "triggers"} /\ worker'.at = worker.at
  BY DEF WindowInv, IdleWorker, Stages
<1> QED
  BY <1>1, <1>2, <1>3 DEF WindowInv, Starting

\* Steps that write another part of the status, outside of those two stages.
LEMMA OtherWrites ==
    ASSUME WindowInv, UNCHANGED now,
           worker' = IdleWorker \/ (worker' = worker /\ worker.pc = "idle")
             \/ worker' = [worker EXCEPT !.pc = "dispatch"],
           IsCluster(cluster')
    PROVE  WindowInv'
<1>1. worker' \in [pc : Stages, at : Nat] /\ worker'.at \in {0, worker.at}
  BY DEF WindowInv, IdleWorker, Stages
<1>2. worker'.pc \notin {"secrets", "triggers"}
  BY DEF WindowInv, IdleWorker, Stages
<1> QED
  BY <1>1, <1>2 DEF WindowInv

\* Every step keeps the window that was computed, and starts an operation only
\* in one.
LEMMA NextWindowInv ==
    ASSUME WindowInv, [Next]_vars
    PROVE  /\ WindowInv'
           /\ Starting => \E t \in worker.at..now : \E s \in Starts : s < t /\ t < s + Duration
<1>1. CASE updateStatus
  BY <1>1, StatusWindow
<1>2. CASE EnsureBundle \/ CreateBundle \/ updateStatusFails \/ updateSecrets \/ BootstrapBegin
           \/ ClusterAbort
  <2>1. UNCHANGED <<cluster, now>>
    BY <1>2 DEF EnsureBundle, CreateBundle, updateStatusFails, updateSecrets, BootstrapBegin,
                ClusterAbort, environment
  <2>2. worker' = IdleWorker \/ worker' = worker
          \/ (\E pc \in {"create", "status", "triggers", "dispatch", "record"} :
                 /\ worker' = [worker EXCEPT !.pc = pc]
                 /\ pc = "triggers" => worker.pc = "secrets")
    BY <1>2 DEF EnsureBundle, CreateBundle, updateStatusFails, updateSecrets, BootstrapBegin,
                ClusterAbort, Goto, Return
  <2>3. now' <= MaxTime + 1
    BY <2>1 DEF WindowInv
  <2> QED
    BY <2>1, <2>2, <2>3, OtherStages
<1>3. CASE SetSecretsRef \/ MakePlan \/ BootstrapRecord \/ BootstrapMonitor \/ BootstrapTimeout
           \/ RollingRun
  <2>1. IsCluster(cluster') /\ ~Starting
    <3>1. CASE SetSecretsRef
      BY <3>1 DEF SetSecretsRef, WindowInv, IsCluster, Starting
    <3>2. CASE MakePlan
      BY <3>2 DEF MakePlan, WindowInv, IsCluster, Starting
    <3>3. CASE BootstrapRecord
      BY <3>3 DEF BootstrapRecord, WindowInv, IsCluster, Starting
    <3>4. CASE BootstrapMonitor
      BY <3>4 DEF BootstrapMonitor, WindowInv, IsCluster, Starting, Complete
    <3>5. CASE BootstrapTimeout
      BY <3>5 DEF BootstrapTimeout, WindowInv, IsCluster, Starting
    <3>6. CASE RollingRun
      <4>1. \E p \in {"Done", "Failed"} : cluster' = [cluster EXCEPT !.phase = p]
        BY <3>6 DEF RollingRun
      <4> QED
        BY <4>1 DEF WindowInv, IsCluster, Starting
    <3> QED
      BY <1>3, <3>1, <3>2, <3>3, <3>4, <3>5, <3>6
  <2>2. UNCHANGED now
    BY <1>3 DEF SetSecretsRef, MakePlan, BootstrapRecord, BootstrapMonitor, BootstrapTimeout,
                RollingRun, environment
  <2>3. worker' = IdleWorker \/ (worker' = worker /\ worker.pc = "idle")
    BY <1>3 DEF SetSecretsRef, MakePlan, BootstrapRecord, BootstrapMonitor, BootstrapTimeout,
                RollingRun, Return
  <2> QED
    BY <2>1, <2>2, <2>3, OtherWrites
<1>4. CASE Trigger
  <2>1. IsCluster(cluster')
    BY <1>4 DEF Trigger, Triggered, WindowInv, IsCluster
  <2>2. UNCHANGED now
    BY <1>4 DEF Trigger, environment
  <2>3. worker' = IdleWorker \/ worker' = [worker EXCEPT !.pc = "dispatch"]
    BY <1>4 DEF Trigger, Goto, Return
  <2>4. WindowInv'
    BY <2>1, <2>2, <2>3, OtherWrites
  <2>5. ASSUME Starting
        PROVE  \E t \in worker.at..now : \E s \in Starts : s < t /\ t < s + Duration
    <3>1. cluster' = Triggered("Bootstrap") => cluster'.type = "Bootstrap"
      BY DEF Triggered, WindowInv, IsCluster
    <3>2. inMaintenanceWindow /\ worker.pc = "triggers"
      BY <1>4, <2>5, <3>1 DEF Trigger, WindowOperation, Starting
    <3>3. Window(cluster.next, worker.at) /\ cluster.next # 0 /\ cluster.next < now
      BY <3>2 DEF inMaintenanceWindow, WindowInv
    <3>4. MaxTime \in Nat /\ Duration \in Nat /\ Duration > 1 /\ Starts \subseteq Nat
      BY ReconcileConstantsAssumption
    <3>5. now \in Nat /\ worker.at \in Nat /\ worker.at <= now /\ now <= MaxTime + 1
      BY DEF WindowInv
    <3>6. cluster.next \in Starts /\ cluster.next \in Nat /\ worker.at < cluster.next + Duration
      <4>1. CASE cluster.next = MaxTime + Duration
        BY <3>3, <3>4, <3>5, <4>1
      <4> QED
        BY <3>3, <3>4, <4>1 DEF Window
    <3> DEFINE t == IF cluster.next < worker.at THEN worker.at ELSE cluster.next + 1
    <3>7. t \in worker.at..now /\ cluster.next < t /\ t < cluster.next + Duration
      BY <3>3, <3>4, <3>5, <3>6
    <3> QED
      BY <3>6, <3>7
  <2> QED
    BY <2>4, <2>5
<1>5. CASE Tick
  BY <1>5, OtherStages, ReconcileConstantsAssumption DEF Tick, controller, WindowInv
<1>6. CASE \/ ObserveBundle \/ ToggleWindow
           \/ \E k \in Secrets : SecretAges(k)
           \/ \E n \in Nodes : \/ NodeStep(n) \/ NodeTimeout(n) \/ NodeAbort(n)
                               \/ EtcdStart(n) \/ EtcdJoin(n) \/ ComeUp(n) \/ GoDown(n)
                               \/ Edit(n) \/ RequestOp(n)
           \/ UNCHANGED vars
  <2>1. UNCHANGED <<cluster, worker, now>>
    <3>1. CASE ObserveBundle \/ ToggleWindow \/ (\E k \in Secrets : SecretAges(k)) \/ UNCHANGED vars
      BY <3>1, SMTT(30) DEF ObserveBundle, ToggleWindow, SecretAges, controller, environment, vars
    <3>2. ASSUME NEW n \in Nodes,
                 \/ NodeStep(n) \/ NodeTimeout(n) \/ NodeAbort(n)
                 \/ EtcdStart(n) \/ EtcdJoin(n) \/ ComeUp(n) \/ GoDown(n)
                 \/ Edit(n) \/ RequestOp(n)
          PROVE  UNCHANGED <<cluster, worker, now>>
      BY <3>2 DEF NodeStep, ProvisionPending, ProvisionSend, ProvisionRecord, ProvisionRefused,
                  ProvisionVerify, NodeStatus, NodeStart, BootstrapCall, BootstrapDone,
                  ResetDrain, ResetCall, ResetVerify, ResetDone, NodeTimeout, NodeAbort, EtcdStart, EtcdJoin,
                  ComeUp, GoDown, Edit, RequestOp, controller, environment
    <3> QED
      BY <1>6, <3>1, <3>2
  <2>2. now' <= MaxTime + 1
    BY <2>1 DEF WindowInv
  <2> QED
    BY <2>1, <2>2, OtherStages
<1> QED
  BY <1>1, <1>2, <1>3, <1>4, <1>5, <1>6 DEF Next, ClusterStep

\* There is no window yet.
LEMMA WindowInit == Init => WindowInv
<1> SUFFICES ASSUME Init PROVE WindowInv
  OBVIOUS
<1>1. IsCluster(cluster)
  BY DEF Init, NewCluster, IsCluster
<1>2. MaxTime \in Nat
  BY ReconcileConstantsAssumption
<1> QED
  BY <1>1, <1>2 DEF Init, WindowInv, IdleWorker, Stages

\* The automation triggers the operation of a window only in a reconcile during
\* which a window was open at some moment, although the window is computed at one
\* moment and compared with the clock at a later one, when it may have closed.
THEOREM WindowsTrigger == Spec => TriggersByWindow
<1>1. WindowInv /\ [Next]_vars => WindowInv'
  BY NextWindowInv
<1>2. WindowInv /\ [Next]_vars =>
        [cluster'.type # "Bootstrap" /\ cluster'.phase = "Pending" /\ cluster.phase # "Pending"
           => \E t \in worker.at..now : \E s \in Starts : s < t /\ t < s + Duration]_vars
  BY NextWindowInv DEF Starting
<1> QED
  BY <1>1, <1>2, WindowInit, PTL DEF Spec, TriggersByWindow

=============================================================================
