-------------------------- MODULE ClusterReconcile --------------------------
(***************************************************************************)
(* The life of a cluster up to its bootstrap and its first maintenance     *)
(* window: every stage of ClusterReconciler.Reconcile                      *)
(* (src/internal/controller/cluster_controller*.go) against control planes *)
(* that are provisioned, bootstrapped, reset and unreachable meanwhile.    *)
(*                                                                         *)
(* A reconcile is a sequence of steps (worker.pc), each reading the Node   *)
(* objects as they are at that moment, and it may be cut off after any of  *)
(* them.  Node operations are reduced to what the Cluster controller can   *)
(* tell apart; their phases are those of NodeOps.  A rolling operation in  *)
(* progress is one step here: its plan, the operations users request of a  *)
(* cluster and a lagging cache of Node objects are the subject of          *)
(* ClusterOps.                                                             *)
(***************************************************************************)
EXTENDS NodeList, Integers, Sequences, FiniteSets

CONSTANTS
    NodeOrder,      \* the control planes, by name; there is one at least
    OldMedia,       \* those that boot from another release than the one wanted
    SecretOrder,    \* the secrets of secretHelpers, in order
    Starts,         \* when maintenance windows start (the cron expression)
    Duration,       \* how long they last
    Events,         \* what may happen: "reset", "edit", "version", "outage",
                    \* "window", "age", "timeout"; "abort", "cut": a reconcile of
                    \* the Cluster or of a Node ends early
    ResetKinds,     \* what resets wipe: "all", "disks"
    ShortReconciles,\* no reset wipes a machine while the Cluster is reconciled
    MaxTime,        \* bound on the clock
    MaxRequests,    \* bound on node operations users request
    MaxTroubles     \* bound on the other events

Nodes == {NodeOrder[i] : i \in DOMAIN NodeOrder}

Secrets == {SecretOrder[i] : i \in DOMAIN SecretOrder}

ASSUME ReconcileConstantsAssumption ==
    /\ NodeOrder \in Seq(Nodes) \ {<<>>}
    /\ OldMedia \subseteq Nodes
    /\ Starts \subseteq Nat \ {0}
    /\ Duration \in Nat \ {0, 1}
    /\ ResetKinds \subseteq {"all", "disks"}
    /\ ShortReconciles \in BOOLEAN
    /\ {MaxTime, MaxRequests, MaxTroubles} \subseteq Nat

VARIABLES
    node,       \* node[n]: the Node object
    pending,    \* pending[n]: the write the node's reconcile still has to make
    machine,    \* machine[n]: the machine
    cluster,    \* the status of the Cluster object
    bundle,     \* the Talos secrets bundle: 0 or the number of the bundle
    bundleSeen, \* the bundle in the informer cache
    secret,     \* the generated secrets
    worker,     \* the Cluster controller's reconcile
    windowOn,   \* spec.options.maintenanceWindow.enabled
    now,        \* the clock
    etcds,      \* etcd clusters founded so far
    requests, troubles

vars == <<node, pending, machine, cluster, bundle, bundleSeen, secret, worker,
          windowOn, now, etcds, requests, troubles>>

-----------------------------------------------------------------------------
(***************************************************************************)
(* State.                                                                  *)
(***************************************************************************)

Complete == {"Done", "Failed"}

\* A Node object: operation and conditions.  A nil operation is "None", and
\* "Done" to every reader.  inSync, upToDate: the condition is not False.
NewNode == [type |-> "None", phase |-> "Done", kind |-> "all", provisioned |-> FALSE,
            ready |-> FALSE, inSync |-> TRUE, upToDate |-> TRUE, initial |-> FALSE]

\* A machine: in maintenance mode or running a configuration made from bundle
\* ca.  etcd: the etcd cluster it is a member of, 0 for none; data: its etcd
\* directory is not empty.  release, config, version: as wanted.
NewMachine(n) == [running |-> FALSE, up |-> TRUE, ca |-> 0, etcd |-> 0, data |-> FALSE,
                  release |-> n \notin OldMedia, config |-> TRUE, version |-> TRUE]

\* The operation's plan is a single step on the node "on" for a bootstrap.
NewCluster == [named |-> FALSE, bootstrapped |-> "Unknown", inSync |-> TRUE,
               upToDate |-> TRUE, next |-> 0, type |-> "None", phase |-> "Done",
               on |-> NodeOrder[1], step |-> "None"]

IdleWorker == [pc |-> "idle", at |-> 0]

\* The authenticated Talos API answers.
Answers(n) == machine[n].up /\ machine[n].running

InProgress(o) == o.phase \notin Complete \union {"Pending"}

SetNode(n, o) == node' = [node EXCEPT ![n] = o]

SetPhase(n, p) == SetNode(n, [node[n] EXCEPT !.phase = p])

\* Something happens that is none of the controllers' doing.
Happens(event) ==
    /\ event \in Events
    /\ troubles < MaxTroubles
    /\ troubles' = troubles + 1

-----------------------------------------------------------------------------
(***************************************************************************)
(* The Cluster controller, in the order of Reconcile.                      *)
(***************************************************************************)

clusterVars == <<cluster, bundle, secret, worker>>

nodeVars == <<node, pending, machine, etcds>>

environment == <<bundleSeen, windowOn, now, requests, troubles>>

Goto(pc) == worker' = [worker EXCEPT !.pc = pc]

Return == worker' = IdleWorker

Eligible == {n \in Nodes : node[n].provisioned}

listEligibleNodes == PickNodes(NodeOrder, Eligible)

\* An empty secretsRef is named and the reconcile starts over.
SetSecretsRef ==
    /\ worker.pc = "idle"
    /\ ~cluster.named
    /\ cluster' = [cluster EXCEPT !.named = TRUE]
    /\ UNCHANGED <<nodeVars, environment, bundle, secret, worker>>

\* r.Get finds no bundle in the cache ...
EnsureBundle ==
    /\ worker.pc = "idle"
    /\ cluster.named
    /\ bundleSeen = 0
    /\ Goto("create")
    /\ UNCHANGED <<nodeVars, environment, cluster, bundle, secret>>

\* Mutant: ... and a new one is written over what there is.
WriteBundle ==
    /\ worker.pc = "create"
    /\ bundle' = bundle + 1
    /\ Goto("status")
    /\ UNCHANGED <<nodeVars, environment, cluster, secret>>

\* ... and a new one is created.  Create fails if there is one already, and with
\* it the reconcile.
CreateBundle ==
    /\ worker.pc = "create"
    /\ IF bundle = 0 THEN bundle' = 1 /\ Goto("status") ELSE bundle' = bundle /\ Return
    /\ UNCHANGED <<nodeVars, environment, cluster, secret>>

\* The reconcile gets to the status: the bundle was there or has been created.
HasBundle ==
    \/ worker.pc = "status"
    \/ worker.pc = "idle" /\ cluster.named /\ bundleSeen # 0

\* The first start after x; far ahead if the instance has none left.
NextStart(x) ==
    LET later == {s \in Starts : s > x}
    IN IF later = {} THEN MaxTime + Duration
       ELSE CHOOSE s \in later : \A t \in later : s <= t

updateMaintenanceStatus == IF windowOn THEN NextStart(now - Duration) ELSE 0

\* LS of the etcd directories in order, up to the first that is not empty.  An
\* error ends the reconcile before the status is written.
bootstrapped(b) ==
    LET order == listEligibleNodes
        with == {i \in DOMAIN order : machine[order[i]].data}
        first == IF with = {} THEN Len(order)
                 ELSE CHOOSE i \in with : \A j \in with : i <= j
    IN /\ \A i \in 1..first : Answers(order[i])
       /\ b = IF with = {} THEN "False" ELSE "True"

updateStatus ==
    /\ HasBundle
    /\ \E b \in {"True", "False"} :
          /\ bootstrapped(b)
          /\ cluster' = [cluster EXCEPT
                !.inSync       = \A n \in Eligible : node[n].inSync,
                !.upToDate     = \A n \in Eligible : node[n].upToDate,
                !.bootstrapped = b,
                !.next         = updateMaintenanceStatus]
    /\ worker' = [pc |-> "secrets", at |-> now]
    /\ UNCHANGED <<nodeVars, environment, bundle, secret>>

updateStatusFails ==
    /\ HasBundle
    /\ ~\E b \in {"True", "False"} : bootstrapped(b)
    /\ Return
    /\ UNCHANGED <<nodeVars, environment, cluster, bundle, secret>>

\* Secrets are generated from the first provisioned control plane, and skipped
\* while there is none.  The talosconfig needs no machine.
MustGenerate(k) == secret[k].old /\ listEligibleNodes # <<>>

CanGenerate(k) == k = "talosconfig" \/ Answers(Head(listEligibleNodes))

\* The loop over secretHelpers: a secret is generated when it is missing or was
\* refreshed a day ago.  The first that cannot be generated ends the reconcile.
updateSecrets ==
    /\ worker.pc = "secrets"
    /\ LET stuck == {i \in DOMAIN SecretOrder :
                       MustGenerate(SecretOrder[i]) /\ ~CanGenerate(SecretOrder[i])}
           done == {SecretOrder[i] : i \in {j \in DOMAIN SecretOrder : \A b \in stuck : j < b}}
       IN /\ secret' = [k \in Secrets |-> IF k \in done /\ MustGenerate(k)
                                          THEN [ca |-> bundleSeen, old |-> FALSE]
                                          ELSE secret[k]]
          /\ IF stuck = {} THEN Goto("triggers") ELSE Return
    /\ UNCHANGED <<nodeVars, environment, cluster, bundle>>

Triggered(type) == [cluster EXCEPT !.type = type, !.phase = "Pending", !.step = "None"]

\* Mutant: a control plane whose last operation is any finished one will do.
ReadyForAnyBootstrap ==
    /\ cluster.phase = "Done"
    /\ cluster.bootstrapped = "False"
    /\ Eligible # {}
    /\ \A n \in Eligible : node[n].ready /\ node[n].phase = "Done"

\* Mutant: every control plane there is has to be provisioned.
ReadyWhenComplete ==
    /\ cluster.phase = "Done"
    /\ cluster.bootstrapped = "False"
    /\ Eligible = Nodes
    /\ \A n \in Eligible : node[n].ready /\ node[n].phase = "Done"
                             /\ node[n].type \in {"None", "Provision"}

ReadyForBootstrap ==
    /\ cluster.phase = "Done"
    /\ cluster.bootstrapped = "False"
    /\ Eligible # {}
    /\ \A n \in Eligible : node[n].ready /\ node[n].phase = "Done"
                             /\ node[n].type \in {"None", "Provision"}

\* Mutant: the zero time counts as a window that has started.
inMaintenanceWindowOrNone == cluster.next < now

inMaintenanceWindow == cluster.next # 0 /\ cluster.next < now

\* The operation a maintenance window calls for, if the last one was a success.
WindowOperation ==
    IF ~inMaintenanceWindow \/ cluster.phase # "Done" THEN "None"
    ELSE IF ~cluster.inSync THEN "RollingApply"
    ELSE IF ~cluster.upToDate THEN "KubernetesUpgrade"
    ELSE "None"

\* A bootstrap is run in the reconcile that triggers it, the operation of a
\* window in the next one; without a trigger, an unfinished operation goes on.
Trigger ==
    /\ worker.pc = "triggers"
    /\ \/ /\ ReadyForBootstrap
          /\ cluster' = Triggered("Bootstrap")
          /\ Goto("dispatch")
       \/ /\ ~ReadyForBootstrap
          /\ WindowOperation # "None"
          /\ cluster' = Triggered(WindowOperation)
          /\ Return
       \/ /\ ~ReadyForBootstrap
          /\ WindowOperation = "None"
          /\ IF cluster.phase \in Complete THEN Return ELSE Goto("dispatch")
          /\ UNCHANGED cluster
    /\ UNCHANGED <<nodeVars, environment, bundle, secret>>

\* What handleBootstrapOperation, handleRollingApplyOperation and
\* handleKubernetesUpgrade check before they make a plan.  Drift is left to
\* NodeMachine.
Refuses(type) ==
    \/ type = "Bootstrap" /\ Eligible = {}
    \/ \E n \in Eligible :
          \/ node[n].phase \notin Complete
          \/ ~node[n].ready
          \/ type = "Bootstrap" /\ ~node[n].inSync /\ ~node[n].initial

\* The Pending case.  A bootstrap takes the first control plane.
MakePlan ==
    /\ worker.pc = "dispatch"
    /\ cluster.phase = "Pending"
    /\ cluster' = IF Refuses(cluster.type)
                  THEN [cluster EXCEPT !.phase = "Failed"]
                  ELSE IF cluster.type # "Bootstrap"
                  THEN [cluster EXCEPT !.phase = "InProgress"]
                  ELSE [cluster EXCEPT !.phase = "InProgress", !.step = "Pending",
                                       !.on = Head(listEligibleNodes)]
    /\ Return
    /\ UNCHANGED <<nodeVars, environment, bundle, secret>>

\* runSubOperations for the one step of a bootstrap: the node's status ...
BootstrapBegin ==
    /\ worker.pc = "dispatch"
    /\ cluster.type = "Bootstrap" /\ cluster.phase = "InProgress"
    /\ cluster.step = "Pending"
    /\ SetNode(cluster.on, [node[cluster.on] EXCEPT !.type = "Bootstrap", !.phase = "Pending"])
    /\ Goto("record")
    /\ UNCHANGED <<pending, machine, etcds, environment, cluster, bundle, secret>>

\* ... then the plan's.
BootstrapRecord ==
    /\ worker.pc = "record"
    /\ cluster' = [cluster EXCEPT !.step = "Applying"]
    /\ Return
    /\ UNCHANGED <<nodeVars, environment, bundle, secret>>

\* Mutant: any phase is taken for a result.
BootstrapMonitorUnfinished ==
    /\ worker.pc = "dispatch"
    /\ cluster.type = "Bootstrap" /\ cluster.phase = "InProgress"
    /\ cluster.step = "Applying"
    /\ LET result == node[cluster.on].phase
       IN cluster' = [cluster EXCEPT !.step = result, !.phase = result]
    /\ Return
    /\ UNCHANGED <<nodeVars, environment, bundle, secret>>

\* The step's result is the phase of the node's operation.  The Postflight of a
\* bootstrap only marks the operation Done.
BootstrapMonitor ==
    /\ worker.pc = "dispatch"
    /\ cluster.type = "Bootstrap" /\ cluster.phase = "InProgress"
    /\ cluster.step = "Applying"
    /\ LET result == node[cluster.on].phase
       IN cluster' = IF result \in Complete
                     THEN [cluster EXCEPT !.step = result, !.phase = result]
                     ELSE cluster
    /\ Return
    /\ UNCHANGED <<nodeVars, environment, bundle, secret>>

\* The step's time is over.
BootstrapTimeout ==
    /\ worker.pc = "dispatch"
    /\ cluster.type = "Bootstrap" /\ cluster.phase = "InProgress"
    /\ cluster.step = "Applying"
    /\ node[cluster.on].phase \notin Complete
    /\ Happens("timeout")
    /\ cluster' = [cluster EXCEPT !.phase = "Failed"]
    /\ Return
    /\ UNCHANGED <<nodeVars, bundleSeen, windowOn, now, requests, bundle, secret>>

\* A rolling operation runs to its end: every node has been brought up to date
\* by a node operation of its own, or it failed.
RollingRun ==
    /\ worker.pc = "dispatch"
    /\ cluster.type \in {"RollingApply", "KubernetesUpgrade"}
    /\ cluster.phase = "InProgress"
    /\ \/ /\ cluster' = [cluster EXCEPT !.phase = "Failed"]
          /\ UNCHANGED <<node, machine>>
       \/ /\ cluster' = [cluster EXCEPT !.phase = "Done"]
          /\ \A n \in Eligible : Answers(n) /\ node[n].phase \in Complete
          /\ node' = [n \in Nodes |->
                IF n \notin Eligible THEN node[n]
                ELSE [node[n] EXCEPT !.phase = "Done",
                         !.type = IF cluster.type = "RollingApply" THEN "Apply"
                                  ELSE "KubernetesComponentUpgrade"]]
          /\ machine' = [n \in Nodes |->
                IF n \notin Eligible THEN machine[n]
                ELSE IF cluster.type = "RollingApply"
                THEN [machine[n] EXCEPT !.release = TRUE, !.config = TRUE]
                ELSE [machine[n] EXCEPT !.version = TRUE]]
    /\ Return
    /\ UNCHANGED <<pending, etcds, environment, bundle, secret>>

\* A reconcile is cut off, or a write fails.
ClusterAbort ==
    /\ worker # IdleWorker
    /\ Happens("abort")
    /\ Return
    /\ UNCHANGED <<nodeVars, bundleSeen, windowOn, now, requests, cluster, bundle, secret>>

ClusterStep ==
    \/ SetSecretsRef \/ EnsureBundle \/ CreateBundle
    \/ updateStatus \/ updateStatusFails
    \/ updateSecrets
    \/ Trigger
    \/ MakePlan
    \/ BootstrapBegin \/ BootstrapRecord \/ BootstrapMonitor
    \/ RollingRun

-----------------------------------------------------------------------------
(***************************************************************************)
(* The Node controller.                                                    *)
(***************************************************************************)

controller == <<cluster, bundle, secret, worker>>

\* A reconcile has no write left to make from the one before.
Free(n) == pending[n] = "none"

\* areOtherOperationsInProgress.
OthersInProgress(n) == \E m \in Nodes \ {n} : InProgress(node[m])

\* handleNodeProvisioning: Pending fails on a provisioned node.
ProvisionPending(n) ==
    /\ Free(n)
    /\ node[n].type = "Provision" /\ node[n].phase = "Pending"
    /\ bundleSeen # 0
    /\ SetPhase(n, IF node[n].provisioned THEN "Failed" ELSE "Provisioning")
    /\ UNCHANGED <<pending, machine, etcds, controller, environment>>

\* Provisioning: a machine in maintenance mode gets the configuration ...
ProvisionSend(n) ==
    /\ Free(n)
    /\ node[n].type = "Provision" /\ node[n].phase = "Provisioning"
    /\ machine[n].up /\ ~machine[n].running
    /\ bundleSeen # 0
    /\ machine' = [machine EXCEPT ![n] = [@ EXCEPT !.running = TRUE, !.ca = bundleSeen,
                                                  !.config = TRUE]]
    /\ pending' = [pending EXCEPT ![n] = "provisioned"]
    /\ UNCHANGED <<node, etcds, controller, environment>>

\* ... and the node is recorded as provisioned.
ProvisionRecord(n) ==
    /\ pending[n] = "provisioned"
    /\ SetNode(n, [node[n] EXCEPT !.phase = "ProvisionVerifying", !.provisioned = TRUE])
    /\ pending' = [pending EXCEPT ![n] = "none"]
    /\ UNCHANGED <<machine, etcds, controller, environment>>

\* A machine that is past maintenance mode refuses: "tls: certificate required".
ProvisionRefused(n) ==
    /\ Free(n)
    /\ node[n].type = "Provision" /\ node[n].phase = "Provisioning"
    /\ Answers(n)
    /\ SetPhase(n, "Failed")
    /\ UNCHANGED <<pending, machine, etcds, controller, environment>>

\* ProvisionVerifying waits for the machine, and compares the release.
ProvisionVerify(n) ==
    /\ Free(n)
    /\ node[n].type = "Provision" /\ node[n].phase = "ProvisionVerifying"
    /\ Answers(n)
    /\ SetNode(n, [node[n] EXCEPT !.phase = "Done", !.initial = @ \/ ~machine[n].release])
    /\ UNCHANGED <<pending, machine, etcds, controller, environment>>

\* reconcileNodeStatus, for a provisioned node whose operation is not running.
NodeStatus(n) ==
    /\ Free(n)
    /\ node[n].provisioned
    /\ node[n].phase \in Complete \/ (node[n].phase = "Pending" /\ node[n].type # "Provision")
    /\ SetNode(n, IF Answers(n)
                  THEN [node[n] EXCEPT
                          !.ready    = TRUE,
                          !.inSync   = machine[n].release /\ machine[n].config,
                          !.upToDate = machine[n].version]
                  ELSE [node[n] EXCEPT !.ready = FALSE])
    /\ UNCHANGED <<pending, machine, etcds, controller, environment>>

\* An operation other than Provision goes from Pending to its first phase.
NodeStart(n) ==
    /\ Free(n)
    /\ node[n].type \in {"Bootstrap", "Reset"} /\ node[n].phase = "Pending"
    /\ node[n].provisioned \/ node[n].type = "Reset"
    /\ Answers(n)
    /\ ~OthersInProgress(n)
    /\ SetPhase(n, IF node[n].type = "Bootstrap" THEN "Applying" ELSE "Draining")
    /\ UNCHANGED <<pending, machine, etcds, controller, environment>>

\* handleNodeBootstrap, Applying: Talos refuses where the etcd directory is not
\* empty, and any error is a failure; otherwise a new etcd cluster is founded ...
BootstrapCall(n) ==
    /\ Free(n)
    /\ node[n].type = "Bootstrap" /\ node[n].phase = "Applying"
    /\ ~OthersInProgress(n)
    /\ IF Answers(n) /\ ~machine[n].data
       THEN /\ machine' = [machine EXCEPT ![n].etcd = etcds + 1]
            /\ etcds' = etcds + 1
            /\ pending' = [pending EXCEPT ![n] = "bootstrapped"]
            /\ UNCHANGED node
       ELSE /\ SetPhase(n, "Failed")
            /\ UNCHANGED <<pending, machine, etcds>>
    /\ UNCHANGED <<controller, environment>>

\* ... and the operation is done.
BootstrapDone(n) ==
    /\ pending[n] = "bootstrapped"
    /\ SetPhase(n, "Done")
    /\ pending' = [pending EXCEPT ![n] = "none"]
    /\ UNCHANGED <<machine, etcds, controller, environment>>

\* handleNodeReset: the drain.
ResetDrain(n) ==
    /\ Free(n)
    /\ node[n].type = "Reset" /\ node[n].phase = "Draining"
    /\ ~OthersInProgress(n)
    /\ SetPhase(n, "Applying")
    /\ UNCHANGED <<pending, machine, etcds, controller, environment>>

\* Another control plane takes over the member: it is ready and idle.
Graceful(n) == \E m \in Nodes \ {n} : node[m].ready /\ node[m].phase \in Complete

\* Applying: the machine is wiped, or with user disks only it keeps its system
\* disk, and leaves etcd if it can; then it goes down.
ResetCall(n) ==
    /\ Free(n)
    /\ node[n].type = "Reset" /\ node[n].phase = "Applying"
    /\ ~OthersInProgress(n)
    /\ ShortReconciles => worker = IdleWorker
    /\ IF ~Answers(n)
       THEN SetPhase(n, "Failed") /\ UNCHANGED machine
       ELSE /\ SetPhase(n, "Verifying")
            /\ machine' = [machine EXCEPT ![n] =
                  IF node[n].kind = "all" THEN [NewMachine(n) EXCEPT !.up = FALSE]
                  ELSE IF Graceful(n) THEN [@ EXCEPT !.etcd = 0, !.data = FALSE, !.up = FALSE]
                  ELSE [@ EXCEPT !.up = FALSE]]
    /\ UNCHANGED <<pending, etcds, controller, environment>>

\* Verifying: once the machine does not answer, the conditions are cleared and
\* the node is not provisioned any more ...  The mode inferred for user disks was
\* never stored, so it does not make a difference here.
ResetVerify(n) ==
    /\ Free(n)
    /\ node[n].type = "Reset" /\ node[n].phase = "Verifying"
    /\ ~OthersInProgress(n)
    /\ ~Answers(n)
    /\ SetNode(n, [NewNode EXCEPT !.type = "Reset", !.phase = "Verifying"])
    /\ pending' = [pending EXCEPT ![n] = "reset"]
    /\ UNCHANGED <<machine, etcds, controller, environment>>

\* ... then the operation is done.  Cut off in between, Verifying runs again.
ResetDone(n) ==
    /\ pending[n] = "reset"
    /\ SetPhase(n, "Done")
    /\ pending' = [pending EXCEPT ![n] = "none"]
    /\ UNCHANGED <<machine, etcds, controller, environment>>

NodeStep(n) ==
    \/ ProvisionPending(n) \/ ProvisionSend(n) \/ ProvisionRecord(n)
    \/ ProvisionRefused(n) \/ ProvisionVerify(n)
    \/ NodeStatus(n) \/ NodeStart(n)
    \/ BootstrapCall(n) \/ BootstrapDone(n)
    \/ ResetDrain(n) \/ ResetCall(n) \/ ResetVerify(n) \/ ResetDone(n)

\* The time of a phase that has one is over.
NodeTimeout(n) ==
    /\ Free(n)
    /\ node[n].phase \in {"ProvisionVerifying", "Draining"}
    /\ Happens("timeout")
    /\ SetPhase(n, "Failed")
    /\ UNCHANGED <<pending, machine, etcds, controller, bundleSeen, windowOn, now, requests>>

\* The reconcile is cut off between a call to the machine and its record, or
\* between two writes.
NodeAbort(n) ==
    /\ ~Free(n)
    /\ Happens("cut")
    /\ pending' = [pending EXCEPT ![n] = "none"]
    /\ UNCHANGED <<node, machine, etcds, controller, bundleSeen, windowOn, now, requests>>

-----------------------------------------------------------------------------
(***************************************************************************)
(* Caches, machines, users and time.                                       *)
(***************************************************************************)

ObserveBundle ==
    /\ bundleSeen # bundle
    /\ bundleSeen' = bundle
    /\ UNCHANGED <<nodeVars, controller, windowOn, now, requests, troubles>>

\* The founding member pulls its image and writes its data.
EtcdStart(n) ==
    /\ Answers(n)
    /\ machine[n].etcd # 0 /\ ~machine[n].data
    /\ machine' = [machine EXCEPT ![n].data = TRUE]
    /\ UNCHANGED <<node, pending, etcds, controller, environment>>

\* A control plane without etcd finds a running one of its cluster and joins.
EtcdJoin(n) ==
    /\ Answers(n) /\ machine[n].etcd = 0
    /\ \E m \in Nodes \ {n} :
          /\ Answers(m) /\ machine[m].data /\ machine[m].ca = machine[n].ca
          /\ machine' = [machine EXCEPT ![n] = [@ EXCEPT !.etcd = machine[m].etcd,
                                                         !.data = TRUE]]
    /\ UNCHANGED <<node, pending, etcds, controller, environment>>

ComeUp(n) ==
    /\ ~machine[n].up
    /\ machine' = [machine EXCEPT ![n].up = TRUE]
    /\ UNCHANGED <<node, pending, etcds, controller, environment>>

GoDown(n) ==
    /\ machine[n].up
    /\ Happens("outage")
    /\ machine' = [machine EXCEPT ![n].up = FALSE]
    /\ UNCHANGED <<node, pending, etcds, controller, bundleSeen, windowOn, now, requests>>

\* A spec is edited, or another Kubernetes version wanted.
Edit(n) ==
    /\ machine[n].running
    /\ \/ Happens("edit") /\ machine' = [machine EXCEPT ![n].config = FALSE]
       \/ Happens("version") /\ machine' = [machine EXCEPT ![n].version = FALSE]
    /\ UNCHANGED <<node, pending, etcds, controller, bundleSeen, windowOn, now, requests>>

ToggleWindow ==
    /\ Happens("window")
    /\ windowOn' = ~windowOn
    /\ UNCHANGED <<nodeVars, controller, bundleSeen, now, requests>>

\* A day passes for a generated secret.
SecretAges(k) ==
    /\ ~secret[k].old
    /\ Happens("age")
    /\ secret' = [secret EXCEPT ![k].old = TRUE]
    /\ UNCHANGED <<nodeVars, cluster, bundle, worker, bundleSeen, windowOn, now, requests>>

\* A user wants a node provisioned or reset.  The Node controller takes the
\* operation up at the start of its next reconcile, whatever the node does.
RequestOp(n) ==
    /\ requests < MaxRequests
    /\ requests' = requests + 1
    /\ Free(n)
    /\ \/ SetNode(n, [node[n] EXCEPT !.type = "Provision", !.phase = "Pending"])
       \/ /\ "reset" \in Events
          /\ \E k \in ResetKinds :
                SetNode(n, [node[n] EXCEPT !.type = "Reset", !.phase = "Pending", !.kind = k])
    /\ UNCHANGED <<pending, machine, etcds, controller, bundleSeen, windowOn, now,
                   troubles>>

Tick ==
    /\ now < MaxTime
    /\ now' = now + 1
    /\ UNCHANGED <<nodeVars, controller, bundleSeen, windowOn, requests, troubles>>

Init ==
    /\ node = [n \in Nodes |-> NewNode]
    /\ pending = [n \in Nodes |-> "none"]
    /\ machine = [n \in Nodes |-> NewMachine(n)]
    /\ cluster = NewCluster
    /\ bundle = 0
    /\ bundleSeen = 0
    /\ secret = [k \in Secrets |-> [ca |-> 0, old |-> TRUE]]
    /\ worker = IdleWorker
    /\ windowOn = TRUE
    /\ now = 1
    /\ etcds = 0
    /\ requests = 0 /\ troubles = 0

Next ==
    \/ ClusterStep \/ BootstrapTimeout \/ ClusterAbort
    \/ ObserveBundle \/ ToggleWindow \/ Tick
    \/ \E k \in Secrets : SecretAges(k)
    \/ \E n \in Nodes :
          \/ NodeStep(n) \/ NodeTimeout(n) \/ NodeAbort(n)
          \/ EtcdStart(n) \/ EtcdJoin(n) \/ ComeUp(n) \/ GoDown(n)
          \/ Edit(n) \/ RequestOp(n)

Spec == Init /\ [][Next]_vars

\* Work queues hand every object to a worker again and again, caches follow,
\* machines that went down come back, etcd starts on a machine that runs.
\* Users, joins and the clock owe nothing.
FairSpec ==
    /\ Spec
    /\ WF_vars(ClusterStep)
    /\ WF_vars(ObserveBundle)
    /\ \A n \in Nodes : /\ WF_vars(NodeStep(n))
                        /\ WF_vars(EtcdStart(n)) /\ WF_vars(ComeUp(n))

-----------------------------------------------------------------------------
(***************************************************************************)
(* Properties.                                                             *)
(***************************************************************************)

NodeObject == [type : {"None", "Provision", "Bootstrap", "Reset", "Apply",
                       "KubernetesComponentUpgrade"},
               phase : {"Pending", "Provisioning", "ProvisionVerifying", "Applying",
                        "Draining", "Verifying"} \union Complete,
               kind : {"all", "disks"}, provisioned : BOOLEAN, ready : BOOLEAN,
               inSync : BOOLEAN, upToDate : BOOLEAN, initial : BOOLEAN]

\* The values the variables take; a Node object is in a phase of its operation,
\* and a node a bootstrap runs on exists.
ReconcileTypeOK ==
    /\ node \in [Nodes -> NodeObject]
    /\ pending \in [Nodes -> {"none", "provisioned", "bootstrapped", "reset"}]
    /\ machine \in [Nodes -> [running : BOOLEAN, up : BOOLEAN, ca : Nat, etcd : Nat,
                              data : BOOLEAN, release : BOOLEAN, config : BOOLEAN,
                              version : BOOLEAN]]
    /\ cluster \in [named : BOOLEAN, bootstrapped : {"Unknown", "True", "False"},
                     inSync : BOOLEAN, upToDate : BOOLEAN, next : Nat,
                     type : {"None", "Bootstrap", "RollingApply", "KubernetesUpgrade"},
                     phase : {"Pending", "InProgress"} \union Complete, on : Nodes,
                     step : {"None", "Pending", "Applying"} \union Complete]
    /\ bundle \in Nat /\ bundleSeen \in Nat
    /\ secret \in [Secrets -> [ca : Nat, old : BOOLEAN]]
    /\ worker \in [pc : {"idle", "create", "status", "secrets", "triggers", "dispatch", "record"},
                    at : Nat]
    /\ windowOn \in BOOLEAN
    /\ now \in Nat /\ etcds \in Nat
    /\ requests \in Nat /\ troubles \in Nat

\* "Only one control plane node should be bootstrapped"
\* (docs/mdbook/src/3.1-provisioning_a_node.md): whatever is provisioned, reset,
\* edited or unreachable meanwhile, the automation never leaves control planes in
\* two etcd clusters.  It needs that no reconcile is cut off between a call and
\* its record, see the README.
OneEtcd ==
    \A m, n \in Nodes : machine[m].etcd # 0 /\ machine[n].etcd # 0
                            => machine[m].etcd = machine[n].etcd

\* The secrets bundle the operator made is the one every configured machine and
\* every generated credential was made from, also when the cache does not show
\* the bundle yet (cluster_controller.go creates one when r.Get finds none).
CredentialsMatch ==
    /\ \A n \in Nodes : machine[n].running => machine[n].ca = bundle
    /\ \A k \in Secrets : secret[k].ca \in {0, bundle}

\* The automation triggers an operation of a maintenance window only in a
\* reconcile during which a window was open at some moment: never without windows,
\* before one, or in a reconcile that began after it had closed
\* (cluster_controller.go compares the clock with the next window computed earlier
\* in the reconcile).  The trigger itself, and the plan and the first step that
\* later reconciles make, may come after the window has closed, so this is weaker
\* than the "will never start outside of it" of
\* docs/mdbook/src/4.5-automated_upgrades.md, see the README.
TriggersByWindow ==
    [][cluster'.type # "Bootstrap" /\ cluster'.phase = "Pending" /\ cluster.phase # "Pending"
         => \E t \in worker.at..now : \E s \in Starts : s < t /\ t < s + Duration]_vars

\* Every provisioned control plane answers and has nothing but a provisioning,
\* or a bootstrap that did not fail, behind it.
ControlPlanesReady ==
    /\ \E n \in Nodes : node[n].provisioned
    /\ \A n \in Nodes : node[n].provisioned =>
          /\ Answers(n)
          /\ \/ node[n].type = "Provision" /\ node[n].phase = "Done"
             \/ node[n].type = "Bootstrap" /\ node[n].phase # "Failed"

Bootstrapped == \E n \in Nodes : machine[n].data

\* With automatic bootstrap "the operator will automatically bootstrap the
\* cluster" (api/v1alpha1/cluster_types.go): once the control planes are ready
\* and stay so, there is an etcd, unless a cluster operation failed.
AutoBootstraps ==
    \/ <>(cluster.phase = "Failed")
    \/ []<>Bootstrapped
    \/ []<>~ControlPlanesReady

\* The same without the exception.
BootstrapsWhenReady == []<>Bootstrapped \/ []<>~ControlPlanesReady
=============================================================================
