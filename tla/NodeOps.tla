------------------------------- MODULE NodeOps -------------------------------
(***************************************************************************)
(* The node operations of one Talos cluster, as the Node controller runs   *)
(* them (src/internal/controller/node_controller*.go).                     *)
(*                                                                         *)
(* Every Node object carries at most one operation in Status.Operation: a  *)
(* type, a phase and the time of its last transition.  One worker of the   *)
(* Node controller reconciles the nodes in turn.  A reconcile reads the    *)
(* node, looks at the phases of the other nodes through the informer       *)
(* cache, acts on the machine and finally writes the next phase.  The      *)
(* Cluster controller, which has a worker of its own, may store a new      *)
(* operation in the node's status between that read and that write.        *)
(*                                                                         *)
(* What an operation does to its machine is abstracted to the phases it    *)
(* may reach next; module NodeMachine has the machine.                     *)
(***************************************************************************)
EXTENDS Naturals

CONSTANTS
    Nodes,          \* the Node objects of the cluster
    UserTypes,      \* the operation types users request in this instance
    ClusterTypes,   \* the types the Cluster controller starts as sub-operations
    CoherentCache,  \* TRUE: a write is in the informer cache before the next read
    MaxRequests,    \* bound on the operations requested, by anyone
    MaxFaults       \* bound on failed writes, manager restarts and outages

OperationTypes == {"Provision", "Bootstrap", "Apply", "Upgrade", "Reboot",
                   "Shutdown", "KubernetesComponentUpgrade", "Reset"}

ASSUME ConstantsAssumption ==
    /\ UserTypes \subseteq OperationTypes
    /\ ClusterTypes \subseteq OperationTypes
    /\ CoherentCache \in BOOLEAN
    /\ MaxRequests \in Nat
    /\ MaxFaults \in Nat

VARIABLES
    request,      \* request[n]: node.Operation, the operation a user asks for
    op,           \* op[n]: node.Status.Operation in the API server
    cached,       \* cached[n]: the phase of op[n] in the manager's informer cache
    provisioned,  \* provisioned[n]: the Provisioned condition
    answers,      \* answers[n]: the machine of n answers on the Talos API
    kubernetes,   \* a client of the cluster's Kubernetes API can be had
    works,        \* works[n]: n has its Cluster, and its machine config generates
    worker,       \* the reconcile in progress and the operation it has read
    requests,     \* operations requested so far
    faults        \* faults so far

\* What happens outside the operator and fails without an operation's doing.
outside == <<kubernetes, works>>

vars == <<request, op, cached, provisioned, answers, outside, worker, requests, faults>>

-----------------------------------------------------------------------------
(***************************************************************************)
(* Operations and phases.                                                  *)
(***************************************************************************)

UpgradePhases == {"UpgradeDrain", "UpgradePreflight", "Upgrade113ImagePull",
                  "Upgrade113Upgrade", "UpgradeLegacyUpgrade",
                  "UpgradeVerifying", "UpgradeUncordon"}

ProvisionPhases == {"Provisioning", "ProvisionVerifying"}

Complete == {"Done", "Failed"}

\* "None" is the phase of a nil Status.Operation.
Phases == UpgradePhases \union ProvisionPhases \union Complete \union
          {"None", "Pending", "Draining", "Applying", "Verifying", "ApplyDrain",
           "ApplyVerifying", "KubeletReboot", "VerifyReboot"}

\* The phases each handler switches on.
PhasesOf(type) ==
    Complete \union {"Pending"} \union
    CASE type = "Provision"  -> ProvisionPhases
      [] type = "Bootstrap"  -> {"Applying"}
      [] type = "Apply"      -> UpgradePhases \union {"Applying", "ApplyDrain", "ApplyVerifying"}
      [] type = "Upgrade"    -> UpgradePhases
      [] type = "Reboot"     -> {"Draining", "Applying", "Verifying"}
      [] type = "Shutdown"   -> {"Draining", "Applying"}
      [] type = "Reset"      -> {"Draining", "Applying", "Verifying"}
      [] type = "KubernetesComponentUpgrade" ->
            {"Draining", "Applying", "KubeletReboot", "VerifyReboot", "Verifying"}
      [] OTHER -> {"None"}

\* A requested operation; unsafe is Options.Unsafe.
Requests == [type : OperationTypes, unsafe : BOOLEAN]

NoRequest == [type |-> "None", unsafe |-> FALSE]

\* An operation status; late: the timeout of the phase has passed since
\* LastTransitionTime.
Operations == [type : OperationTypes \union {"None"}, unsafe : BOOLEAN,
               phase : Phases, late : BOOLEAN]

\* A nil Status.Operation, which counts as complete.
NoOperation == [type |-> "None", unsafe |-> FALSE, phase |-> "None", late |-> FALSE]

\* Mutants of Initialized: the reason written for the phase; a started operation.
InitializedWithReason(r) ==
    [type |-> r.type, unsafe |-> r.unsafe, phase |-> "Initialized", late |-> FALSE]

InitializedRunning(r) ==
    [type |-> r.type, unsafe |-> r.unsafe, phase |-> "Applying", late |-> FALSE]

Initialized(r) ==
    [type |-> r.type, unsafe |-> r.unsafe, phase |-> "Pending", late |-> FALSE]

isOperationComplete(o) == o.phase \in Complete \union {"None"}

\* areOtherOperationsInProgress lists the nodes through the cache; nodes whose
\* operation is Pending, Done or Failed do not count.
notInProgressPhases == Complete \union {"None", "Pending"}

\* Mutant: only machines that are being changed count.
areOtherOperationsApplying(n) == \E m \in Nodes \ {n} : cached[m] = "Applying"

areOtherOperationsInProgress(n) ==
    \E m \in Nodes \ {n} : cached[m] \notin notInProgressPhases

-----------------------------------------------------------------------------
(***************************************************************************)
(* The handlers.  Step(o, prov, up, kube, p): having read operation o,     *)
(* with the machine answering or not (up) and a Kubernetes client to be    *)
(* had or not (kube), the handler may end by writing phase p, or by        *)
(* returning without a write when p = "Requeue".  A local error (a missing *)
(* secret, a failed write) ends a reconcile too: see Abort.                *)
(***************************************************************************)

\* Mutant: the drain has no timeout.
DrainStepForever(o, nextPhase, p) == p = nextPhase \/ (~o.unsafe /\ p = "Requeue")

\* doNodeDrain: unsafe operations skip the drain, a late one fails, otherwise
\* the phase ends once every pod was evicted.
DrainStep(o, nextPhase, p) ==
    \/ o.unsafe /\ p = nextPhase
    \/ ~o.unsafe /\ o.late /\ p = "Failed"
    \/ ~o.unsafe /\ ~o.late /\ p \in {nextPhase, "Requeue"}

PowerStep(o, up, p) ==
    \/ o.phase = "Pending" /\ p = IF o.unsafe THEN "Applying" ELSE "Draining"
    \/ o.phase = "Draining" /\ DrainStep(o, "Applying", p)
    \/ o.phase = "Applying" /\ p = "Failed"
    \/ o.phase = "Applying" /\ up /\ p = IF o.type = "Reboot" THEN "Verifying" ELSE "Done"
    \/ o.phase = "Verifying" /\ o.type = "Reboot" /\ o.late /\ p = "Failed"
    \/ /\ o.phase = "Verifying" /\ o.type = "Reboot" /\ ~o.late
       /\ p = "Requeue" \/ (up /\ p = "Done")

\* The three stages of handleNodeUpgrade.  Pending ends at once if the machine
\* runs the requested release.
UpgradePrepare(o, p) ==
    \/ o.phase = "Pending" /\ p \in {"Done", "UpgradeDrain", "UpgradePreflight"}
    \/ o.phase = "UpgradeDrain" /\ DrainStep(o, "UpgradePreflight", p)
    \/ /\ o.phase = "UpgradePreflight"
       /\ p \in {"Upgrade113ImagePull", "UpgradeLegacyUpgrade"}

UpgradeInstall(o, p) ==
    \/ o.phase = "Upgrade113ImagePull" /\ p = "Upgrade113Upgrade"
    \/ /\ o.phase \in {"Upgrade113Upgrade", "UpgradeLegacyUpgrade"}
       /\ p = "UpgradeVerifying"

\* Mutant: every upgrade goes on to apply a configuration.
UpgradeVerifyThenApply(o, p) ==
    \/ o.phase = "UpgradeVerifying" /\ ~o.late /\ p \in {"UpgradeUncordon", "Requeue"}
    \/ o.phase = "UpgradeUncordon" /\ p = "Applying"

UpgradeVerify(o, p) ==
    \/ o.phase = "UpgradeVerifying" /\ ~o.late /\ p \in {"UpgradeUncordon", "Requeue"}
    \/ o.phase = "UpgradeUncordon" /\ p = IF o.type = "Apply" THEN "Applying" ELSE "Done"

\* handleNodeUpgrade, also run by Apply in its Upgrade phases.  Before its
\* switch it reads the running release: a machine that does not answer, or an
\* image that does not parse, fails the operation in any phase.
UpgradeStep(o, up, p) ==
    \/ p = "Failed"
    \/ up /\ (UpgradePrepare(o, p) \/ UpgradeInstall(o, p) \/ UpgradeVerify(o, p))

ApplyStart(o, p) ==
    \/ o.phase = "Pending" /\ p \in {"Done", "UpgradeDrain", "Applying"}
    \/ o.phase = "Applying" /\ p \in {"ApplyDrain", "ApplyVerifying", "Done", "Requeue"}

ApplyFinish(o, p) ==
    \/ o.phase = "ApplyDrain" /\ DrainStep(o, "Applying", p)
    \/ o.phase = "ApplyVerifying" /\ ~o.late /\ p \in {"Done", "Requeue"}

\* handleNodeApply reads the running release before its switch and requeues
\* when the machine does not answer, whatever the phase.
ApplyStep(o, up, p) ==
    \/ ~up /\ p = "Requeue"
    \/ /\ up
       /\ \/ p = "Failed"
          \/ o.phase \in UpgradePhases /\ UpgradeStep(o, up, p)
          \/ ApplyStart(o, p)
          \/ ApplyFinish(o, p)

\* Done at once only for a component the Cluster disables; a component that has
\* the version already is applied like any other, and a kubelet beside Longhorn
\* is drained first and rebooted.
ComponentPending(o, p) == o.phase = "Pending" /\ p \in {"Done", "Applying", "Draining"}

ComponentApply(o, up, p) ==
    \/ o.phase = "Draining" /\ DrainStep(o, "Applying", p)
    \/ o.phase = "Applying" /\ up /\ p \in {"KubeletReboot", "Verifying"}
    \/ o.phase = "KubeletReboot" /\ up /\ p = "VerifyReboot"
    \/ o.phase = "VerifyReboot" /\ up /\ p = "Verifying"

ComponentVerify(o, p) == o.phase = "Verifying" /\ ~o.late /\ p = "Done"

\* Before its switch the handler asks the Kubernetes API for the Longhorn CSI
\* driver, and requeues when that fails, and generates the machine config,
\* whose failure fails the operation.
KubernetesComponentUpgradeStep(o, up, p) ==
    \/ p \in {"Failed", "Requeue"}
    \/ ComponentPending(o, p)
    \/ ComponentApply(o, up, p)
    \/ ComponentVerify(o, p)

ResetStart(o, up, p) ==
    \/ o.phase = "Pending" /\ p = "Draining"
    \/ o.phase = "Draining" /\ DrainStep(o, "Applying", p)
    \/ o.phase = "Applying" /\ (p = "Failed" \/ (up /\ p = "Verifying"))

\* The reset is verified by the machine no longer answering; no timeout.
ResetVerify(o, up, p) == o.phase = "Verifying" /\ p = IF up THEN "Requeue" ELSE "Done"

ResetStep(o, up, p) == ResetStart(o, up, p) \/ ResetVerify(o, up, p)

BootstrapStep(o, up, p) ==
    \/ o.phase = "Pending" /\ p = "Applying"
    \/ o.phase = "Applying" /\ (p = "Failed" \/ (up /\ p = "Done"))

\* prov: the node is Provisioned when the handler starts.  Pending fails on
\* bad arguments or a provisioned node, and goes straight to
\* ProvisionVerifying when the operation says Skip.
ProvisionPending(o, prov, p) ==
    /\ o.phase = "Pending"
    /\ p = "Failed" \/ (~prov /\ p \in ProvisionPhases)

\* A machine that does not answer in maintenance mode is tried again for ever.
ProvisionApply(o, up, p) ==
    /\ o.phase = "Provisioning"
    /\ p = "Requeue" \/ (up /\ p \in {"Failed", "ProvisionVerifying"})

ProvisionVerify(o, up, p) ==
    /\ o.phase = "ProvisionVerifying"
    /\ \/ o.late /\ p = "Failed"
       \/ ~o.late /\ (p = "Requeue" \/ (up /\ p \in {"Done", "Failed"}))

ProvisionStep(o, prov, up, p) ==
    ProvisionPending(o, prov, p) \/ ProvisionApply(o, up, p) \/ ProvisionVerify(o, up, p)

\* The dispatch of Reconcile.  A phase that the handler does not switch on
\* falls through to a requeue; only handleNodeUpgrade has a default case.
HandlerStep(o, prov, up, p) ==
    \/ o.type = "Provision" /\ ProvisionStep(o, prov, up, p)
    \/ o.type = "Bootstrap" /\ BootstrapStep(o, up, p)
    \/ o.type = "Apply" /\ ApplyStep(o, up, p)
    \/ o.type = "Upgrade" /\ UpgradeStep(o, up, p)
    \/ o.type \in {"Reboot", "Shutdown"} /\ PowerStep(o, up, p)
    \/ o.type = "Reset" /\ ResetStep(o, up, p)
    \/ /\ o.type = "KubernetesComponentUpgrade"
       /\ KubernetesComponentUpgradeStep(o, up, p)
    \/ o.type # "Upgrade" /\ o.phase \notin PhasesOf(o.type) /\ p = "Requeue"

\* These handlers call getKubernetesClient before their switch, whatever the
\* phase; a reset does for its drain.
NeedsClient(o) ==
    \/ o.type \in {"Apply", "Upgrade", "Reboot", "Shutdown", "KubernetesComponentUpgrade"}
    \/ o.type = "Reset" /\ o.phase = "Draining"

\* Without a client the handler returns the error: it looks neither at the phase
\* nor at its timeout, and is tried again.
Step(o, prov, up, kube, p) ==
    IF NeedsClient(o) /\ ~kube THEN p = "Requeue" ELSE HandlerStep(o, prov, up, p)

\* What the step may leave in the Provisioned condition: provisioning sets it
\* before it verifies, a reset that wiped the state partition clears it.
ProvisionedAfter(o, prov, p) ==
    CASE o.type = "Provision" /\ p = "ProvisionVerifying" -> {TRUE}
      [] o.type = "Reset" /\ o.phase = "Verifying" /\ p = "Done" -> {FALSE, prov}
      [] OTHER -> {prov}

-----------------------------------------------------------------------------
Idle == [pc |-> "idle"]

\* A status write of the manager: it starts from the cached object and is
\* refused unless that is the current one, so it replaces what op[n] holds now.
Store(n, o) ==
    /\ cached[n] = op[n].phase
    /\ op' = [op EXCEPT ![n] = o]
    /\ cached' = IF CoherentCache THEN [cached EXCEPT ![n] = o.phase] ELSE cached

InProgress(n) == op[n].phase \notin notInProgressPhases

\* A user patches node.Operation; nothing stops them while an operation runs.
RequestOp(n, r) ==
    /\ requests < MaxRequests
    /\ r.type \in UserTypes
    /\ request' = [request EXCEPT ![n] = r]
    /\ requests' = requests + 1
    /\ UNCHANGED <<op, cached, provisioned, answers, outside, worker, faults>>

\* Reconcile with node.Operation set: first write, the copy into the status ...
\* (A node whose Cluster is missing or whose machine config does not generate is
\* given up before, here and below, and not put back into the queue.)
IntakeCopy(n) ==
    /\ worker = Idle
    /\ works[n]
    /\ request[n] # NoRequest
    /\ Store(n, Initialized(request[n]))
    /\ worker' = [pc |-> "clear", node |-> n]
    /\ UNCHANGED <<request, provisioned, answers, outside, requests, faults>>

\* ... second write, the patch that clears whatever request is there by now.
IntakeClear ==
    /\ worker.pc = "clear"
    /\ request' = [request EXCEPT ![worker.node] = NoRequest]
    /\ worker' = Idle
    /\ UNCHANGED <<op, cached, provisioned, answers, outside, requests, faults>>

\* Mutant: unprovisioned nodes are worked on.
RunnableUnprovisioned(n) ==
    \/ op[n].type = "Provision"
    \/ (op[n].phase = "Pending" => answers[n]) /\ ~areOtherOperationsInProgress(n)

\* Reconcile gets as far as the handler: the node is provisioned,
\* reconcileNodeStatus reached a machine whose operation is still Pending, and
\* no other operation is in progress.  Provisioning comes before these checks.
Runnable(n) ==
    \/ op[n].type = "Provision"
    \/ /\ provisioned[n] \/ op[n].type = "Reset"
       /\ op[n].phase = "Pending" => answers[n]
       /\ ~areOtherOperationsInProgress(n)

\* Mutant: the node is read from the cache.
FetchFromCache(n) ==
    /\ worker = Idle
    /\ works[n]
    /\ request[n] = NoRequest
    /\ cached[n] \notin Complete \union {"None"}
    /\ Runnable(n)
    /\ worker' = [pc |-> "handle", node |-> n, op |-> [op[n] EXCEPT !.phase = cached[n]]]
    /\ UNCHANGED <<request, op, cached, provisioned, answers, outside, requests, faults>>

\* Reconcile reads the node and starts the handler of its operation.
Fetch(n) ==
    /\ worker = Idle
    /\ works[n]
    /\ request[n] = NoRequest
    /\ ~isOperationComplete(op[n])
    /\ Runnable(n)
    /\ worker' = [pc |-> "handle", node |-> n, op |-> op[n]]
    /\ UNCHANGED <<request, op, cached, provisioned, answers, outside, requests, faults>>

\* The handler ends: the phase it decided on from the operation it has read is
\* written by updateOpStatus on the operation the status holds now.
Handle ==
    /\ worker.pc = "handle"
    /\ LET n == worker.node
           o == worker.op
       IN \E p \in Phases \union {"Requeue"} :
             /\ Step(o, provisioned[n], answers[n], kubernetes, p)
             /\ \/ p = "Requeue" /\ UNCHANGED <<op, cached, provisioned>>
                \/ /\ p # "Requeue"
                   /\ Store(n, [op[n] EXCEPT !.phase = p, !.late = FALSE])
                   /\ \E b \in ProvisionedAfter(o, provisioned[n], p) :
                         provisioned' = [provisioned EXCEPT ![n] = b]
    /\ worker' = Idle
    /\ UNCHANGED <<request, answers, outside, requests, faults>>

\* Reconcile starts the cleanup of a provisioned node that is being deleted.
DeletionCleanup(n) ==
    /\ worker = Idle
    /\ works[n]
    /\ request[n] = NoRequest
    /\ isOperationComplete(op[n])
    /\ provisioned[n]
    /\ "Reset" \in UserTypes /\ requests < MaxRequests
    /\ Store(n, Initialized([type |-> "Reset", unsafe |-> FALSE]))
    /\ requests' = requests + 1
    /\ UNCHANGED <<request, provisioned, answers, outside, worker, faults>>

\* runSubOperations of the Cluster controller, in its own worker: it replaces
\* the node's operation whatever that is.
SubOpStart(n, t) ==
    /\ Store(n, Initialized([type |-> t, unsafe |-> FALSE]))
    /\ UNCHANGED <<request, provisioned, answers, outside, worker, requests, faults>>

\* A reconcile ends between two writes: an error, conflicts without end or a
\* restart of the manager.  The handlers that change the Provisioned condition
\* before the phase may have done so.
Abort ==
    /\ worker # Idle
    /\ faults < MaxFaults
    /\ faults' = faults + 1
    /\ \/ UNCHANGED provisioned
       \/ /\ worker.pc = "handle"
          /\ \/ worker.op.type = "Provision" /\ worker.op.phase = "Pending"
             \/ worker.op.type = "Reset" /\ worker.op.phase = "Verifying"
          /\ \E p \in Phases :
                /\ Step(worker.op, provisioned[worker.node], answers[worker.node], kubernetes, p)
                /\ \E b \in ProvisionedAfter(worker.op, provisioned[worker.node], p) :
                      provisioned' = [provisioned EXCEPT ![worker.node] = b]
    /\ worker' = Idle
    /\ UNCHANGED <<request, op, cached, answers, outside, requests>>

\* The informer receives the watch event of the node's latest version.
CacheSync(n) ==
    /\ cached[n] # op[n].phase
    /\ cached' = [cached EXCEPT ![n] = op[n].phase]
    /\ UNCHANGED <<request, op, provisioned, answers, outside, worker, requests, faults>>

\* The timeout of the phase passes.
Elapse(n) ==
    /\ InProgress(n) /\ ~op[n].late
    /\ op' = [op EXCEPT ![n].late = TRUE]
    /\ UNCHANGED <<request, cached, provisioned, answers, outside, worker, requests, faults>>

\* The machine stops or starts answering on the Talos API: it reboots, shuts
\* down, is wiped, crashes, or the network fails.
MachineChange(n) ==
    /\ answers' = [answers EXCEPT ![n] = ~@]
    /\ UNCHANGED <<request, op, cached, provisioned, outside, worker, requests, faults>>

\* The Kubernetes API of the cluster, or the control plane that the kubeconfig
\* is read from, fails or comes back.
KubernetesChange ==
    /\ kubernetes => faults < MaxFaults
    /\ faults' = IF kubernetes THEN faults + 1 ELSE faults
    /\ kubernetes' = ~kubernetes
    /\ UNCHANGED <<request, op, cached, provisioned, answers, works, worker, requests>>

\* Somebody removes or restores the node's Cluster, or edits its configuration
\* or a ConfigMap, so that no machine config can be generated, or one can again.
\* The watches on Nodes, Clusters and the ConfigMaps of their namespace bring the
\* node back into the queue.  (Those of another namespace are in MachineConfig.)
ConfigChange(n) ==
    /\ works[n] => faults < MaxFaults
    /\ faults' = IF works[n] THEN faults + 1 ELSE faults
    /\ works' = [works EXCEPT ![n] = ~@]
    /\ UNCHANGED <<request, op, cached, provisioned, answers, kubernetes, worker, requests>>

Init ==
    /\ request = [n \in Nodes |-> NoRequest]
    /\ op = [n \in Nodes |-> NoOperation]
    /\ cached = [n \in Nodes |-> NoOperation.phase]
    /\ provisioned \in [Nodes -> BOOLEAN]
    /\ answers \in [Nodes -> BOOLEAN]
    /\ kubernetes = TRUE
    /\ works = [n \in Nodes |-> TRUE]
    /\ worker = Idle
    /\ requests = 0
    /\ faults = 0

\* Everything but the Cluster controller.
NodeNext ==
    \/ \E n \in Nodes, r \in Requests : RequestOp(n, r)
    \/ \E n \in Nodes : IntakeCopy(n)
    \/ IntakeClear
    \/ \E n \in Nodes : Fetch(n)
    \/ Handle
    \/ \E n \in Nodes : DeletionCleanup(n)
    \/ Abort
    \/ \E n \in Nodes : CacheSync(n)
    \/ \E n \in Nodes : Elapse(n)
    \/ \E n \in Nodes : MachineChange(n)
    \/ KubernetesChange
    \/ \E n \in Nodes : ConfigChange(n)

Next == NodeNext \/ \E n \in Nodes, t \in ClusterTypes : SubOpStart(n, t)

Spec == Init /\ [][Next]_vars

\* The single worker finishes every reconcile it starts, and its rate-limited
\* FIFO queue gets round to every node again and again: a node whose reconcile
\* can make a step infinitely often, makes it.  A reconcile ends with a requeue
\* or an error, which is tried again; the ones that do not (works) end on a node
\* that only an edit can repair, and the edit's watch event is its next turn.
\* Time passes, watches deliver.  Nothing is owed by the machines, Kubernetes or
\* whoever breaks a configuration.
Fairness ==
    /\ WF_vars(IntakeClear)
    /\ WF_vars(Handle)
    /\ \A n \in Nodes : /\ SF_vars(IntakeCopy(n))
                        /\ SF_vars(Fetch(n))
                        /\ WF_vars(Elapse(n))
                        /\ WF_vars(CacheSync(n))

FairSpec == Spec /\ Fairness

-----------------------------------------------------------------------------
(***************************************************************************)
(* Properties.                                                             *)
(***************************************************************************)

TypeOK ==
    /\ request \in [Nodes -> Requests \union {NoRequest}]
    /\ op \in [Nodes -> Operations]
    /\ cached \in [Nodes -> Phases]
    /\ provisioned \in [Nodes -> BOOLEAN]
    /\ answers \in [Nodes -> BOOLEAN]
    /\ kubernetes \in BOOLEAN
    /\ works \in [Nodes -> BOOLEAN]
    /\ worker \in [pc : {"idle"}] \union [pc : {"clear"}, node : Nodes]
                  \union [pc : {"handle"}, node : Nodes, op : Operations]
    /\ requests \in Nat
    /\ faults \in Nat

\* The node holds the cluster: its operation is past Pending, and is not a
\* provisioning, which does not take the cluster.
Active(n) == InProgress(n) /\ op[n].phase \notin ProvisionPhases

\* areOtherOperationsInProgress "acts as a distributed cluster mutex to avoid
\* concurrent operations on multiple nodes" (helpers_node_controller.go): at
\* most one node is being worked on, whoever starts operations and whenever.
OneNodeAtATime == \A m, n \in Nodes : Active(m) /\ Active(n) => m = n

\* The phase in a node's status is one its operation's handler switches on; any
\* other phase would be requeued for ever, and would lock out the other nodes.
PhaseOfType == \A n \in Nodes : op[n].phase \in PhasesOf(op[n].type)

\* Reconcile runs an operation past Pending only on a provisioned node, except
\* for the operations that provision it and reset it, also when a reset was
\* interrupted after it cleared the condition.
ProvisionedFirst ==
    \A n \in Nodes : InProgress(n) /\ op[n].type \notin {"Provision", "Reset"}
                        => provisioned[n]

\* A finished operation stays as it is until a new one replaces it, and a new
\* one starts in Pending: no handler revives or retypes an operation.
FinishedStaysFinished ==
    [][\A n \in Nodes : isOperationComplete(op[n]) =>
          \/ op'[n] = op[n]
          \/ op'[n].phase = "Pending" /\ op'[n].type # "None"]_vars

\* An operation past Pending ends, or is replaced, whatever its machine does:
\* timeouts fail what does not finish, and no two nodes wait on each other.  That
\* takes outages of Kubernetes and of the node's configuration to be over one
\* day: during them no handler looks at a timeout.
StartedOperationsEnd ==
    \A n \in Nodes :
        <>[]kubernetes /\ <>[]works[n] => (InProgress(n) ~> ~InProgress(n))

-----------------------------------------------------------------------------
\* The nodes of a cluster take turns like the users of a lock.
holding == {n \in Nodes : Active(n)}

Lock == INSTANCE NodeLock WITH holders <- holding

\* With a coherent cache the checks of the handlers implement the lock.
LockSpec == Lock!Spec

=============================================================================
