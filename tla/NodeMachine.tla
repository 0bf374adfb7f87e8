----------------------------- MODULE NodeMachine -----------------------------
(***************************************************************************)
(* One node of a bootstrapped cluster together with its machine: what the  *)
(* operations that reconfigure, upgrade and reboot a machine do to it, and *)
(* what reconcileNodeStatus believes about it.  NodeOps has the same       *)
(* handlers with the machine abstracted to the phases they may reach; this *)
(* module implements it (NodeOpsSpec).                                     *)
(*                                                                         *)
(* Here Kubernetes is Ready whenever the machine answers, operations are   *)
(* not unsafe, and the reads of a status refresh happen at one moment.  A  *)
(* machine configuration is what decides the outcome: the user's patches,  *)
(* the install image and the Kubernetes version of every component.        *)
(***************************************************************************)
EXTENDS Naturals

CONSTANTS
    Cfgs,                \* what users may put in the patches
    RebootCfgs,          \* the patches that Talos takes up or drops by rebooting
    Releases,            \* Talos releases: install images
    Versions,            \* Kubernetes versions
    Components,          \* the Kubernetes components of this node
    DisabledComponents,  \* those the patches disable
    Longhorn,            \* the cluster has the Longhorn CSI driver
    NeedsInitialUpdate,  \* the condition provisioning left on the node
    OpTypes,             \* the operation types started in this instance
    Events,              \* the kinds of disturbance in this instance
    MaxRequests,         \* bound on the operations started
    MaxFaults,           \* bound on handlers cut off
    MaxTroubles          \* bound on disturbances and handlers cut off

ModelledTypes == {"Reboot", "Apply", "Upgrade", "KubernetesComponentUpgrade"}

ASSUME MachineAssumption ==
    /\ RebootCfgs \subseteq Cfgs
    /\ Components # {}
    /\ DisabledComponents \subseteq Components
    /\ Longhorn \in BOOLEAN /\ NeedsInitialUpdate \in BOOLEAN
    /\ OpTypes \subseteq ModelledTypes
    /\ MaxRequests \in Nat /\ MaxFaults \in Nat /\ MaxTroubles \in Nat

VARIABLES
    spec,      \* node.Spec and cluster.Spec.KubernetesVersion
    status,    \* node.Status without the operation
    op,        \* node.Status.Operation; own, history: all its phases were written
               \* by handlers that had read it, none by one that had read another
    machine,   \* the machine: boot ID, configuration and release, running and on disk
    cordoned,  \* the Kubernetes node is unschedulable
    unevicted, \* pods are left on the machine whose eviction nobody accepted yet
    worker,    \* the reconcile in progress and the operation it has read; stale,
               \* history: another operation has been stored since
    began,     \* history: the machine when the operation started, and whether
               \* anything but the operation interfered since
    requests, events, faults

vars == <<spec, status, op, machine, cordoned, unevicted, worker, began,
          requests, events, faults>>

Configs == [user : Cfgs, release : Releases, kube : [Components -> Versions]]

\* GenerateMachineConfig: the Kubernetes versions come from the node's status.
ExpectedOf(st) == [user |-> spec.user, release |-> spec.release, kube |-> st.kube]

Expected == ExpectedOf(status)

\* AppliedConfigHash, as the set of the configurations that have it.
HashOf(cfg) == {cfg}

NoHash == {}

Phases == {"None", "Pending", "Draining", "Applying", "Verifying", "Done", "Failed",
           "UpgradeDrain", "UpgradePreflight", "Upgrade113ImagePull", "Upgrade113Upgrade",
           "UpgradeLegacyUpgrade", "UpgradeVerifying", "UpgradeUncordon", "ApplyDrain",
           "ApplyVerifying", "KubeletReboot", "VerifyReboot"}

isOperationComplete == op.phase \in {"None", "Done", "Failed"}

NoOperation == [type |-> "None", component |-> "none", phase |-> "None", late |-> FALSE,
                own |-> TRUE]

IdleWorker == [busy |-> FALSE, stale |-> FALSE, op |-> NoOperation]

\* The operation that the handler in progress has read, and works on.
read == worker.op

\* NodeOps, with this node alone and the machine abstracted.  An outage of
\* Kubernetes is one of the faults here.
AsOperation(o) == [type |-> o.type, unsafe |-> FALSE, phase |-> o.phase, late |-> o.late]

Ops == INSTANCE NodeOps WITH
    Nodes <- {"node"}, UserTypes <- {}, ClusterTypes <- OpTypes, CoherentCache <- TRUE,
    MaxRequests <- 0,
    request <- [n \in {"node"} |-> [type |-> "None", unsafe |-> FALSE]],
    op <- [n \in {"node"} |-> AsOperation(op)],
    cached <- [n \in {"node"} |-> op.phase],
    provisioned <- [n \in {"node"} |-> TRUE],
    answers <- [n \in {"node"} |-> machine.up],
    kubernetes <- TRUE,
    works <- [n \in {"node"} |-> TRUE],
    worker <- IF worker.busy
                 THEN [pc |-> "handle", node |-> "node", op |-> AsOperation(read)]
                 ELSE [pc |-> "idle"],
    requests <- 0

-----------------------------------------------------------------------------
(***************************************************************************)
(* Talos (external).                                                       *)
(***************************************************************************)

\* The mode that AUTO chooses: a reboot if the changed patches need one.
NeedsReboot(new) ==
    /\ machine.running.user # new.user
    /\ {machine.running.user, new.user} \intersect RebootCfgs # {}

\* ApplyConfiguration in AUTO mode.
Applied(new) ==
    IF NeedsReboot(new) THEN [machine EXCEPT !.disk = new, !.rebooting = TRUE]
                        ELSE [machine EXCEPT !.disk = new, !.running = new]

Rebooting(m) == [m EXCEPT !.rebooting = TRUE]

\* Mutant: the wrong version is installed.
InstalledKubernetes(m) == [m EXCEPT !.installed = spec.version]

Installed(m) == [m EXCEPT !.installed = spec.release]

-----------------------------------------------------------------------------
(***************************************************************************)
(* reconcileNodeStatus.                                                    *)
(***************************************************************************)

InSync(st) == machine.running = ExpectedOf(st) /\ machine.release = spec.release

\* Out of sync although the configuration last applied is the expected one,
\* and not because provisioning had to skip the install image.
Drifted(st) ==
    /\ ~InSync(st)
    /\ st.hash = HashOf(ExpectedOf(st))
    /\ ~(machine.release # spec.release /\ NeedsInitialUpdate)

\* Mutant: the boot ID is only recorded by the upgrade.
RefreshedKeepingBootID(st) ==
    [st EXCEPT !.inSync = InSync(st), !.drift = @ \/ Drifted(st), !.unsched = cordoned]

\* ConfigDriftDetected is set here and never cleared here.
Refreshed(st) ==
    [st EXCEPT !.bootID = machine.boot, !.inSync = InSync(st),
               !.drift = @ \/ Drifted(st), !.unsched = cordoned]

\* A reconcile of a node without a running operation.
Refresh ==
    /\ ~worker.busy
    /\ isOperationComplete
    /\ machine.up
    /\ status' = Refreshed(status)
    /\ status' # status
    /\ UNCHANGED <<spec, op, machine, cordoned, unevicted, worker, began,
                   requests, events, faults>>

\* A reconcile reaches the handler of the node's operation; while that is
\* Pending the status is refreshed first, and the machine has to answer.
Fetch ==
    /\ ~worker.busy
    /\ ~isOperationComplete
    /\ IF op.phase = "Pending" THEN machine.up /\ status' = Refreshed(status)
                               ELSE UNCHANGED status
    /\ worker' = [busy |-> TRUE, stale |-> FALSE, op |-> op]
    /\ UNCHANGED <<spec, op, machine, cordoned, unevicted, began, requests, events, faults>>

-----------------------------------------------------------------------------
(***************************************************************************)
(* How a handler ends.                                                     *)
(***************************************************************************)

\* It writes the phase p with status last, p on the operation that the status
\* holds by now (updateOpStatus).  Or it is cut off by an error, a missing
\* Kubernetes client to begin with, or a restart of the manager after it acted on
\* the machine: then the phase is not written, and of the status at most what a
\* first write of its own held.
End(p, first, last) ==
    /\ worker' = IdleWorker
    /\ \/ /\ op' = [op EXCEPT !.phase = p, !.late = FALSE, !.own = @ /\ ~worker.stale]
          /\ status' = last
          /\ UNCHANGED <<began, faults>>
       \/ /\ faults < MaxFaults /\ events + faults < MaxTroubles
          /\ faults' = faults + 1
          /\ status' \in {status, first}
          /\ began' = [began EXCEPT !.clean = FALSE]
          /\ UNCHANGED op

Write(p) == End(p, status, status)

Requeue == worker' = IdleWorker /\ UNCHANGED <<op, status, began, faults>>

Fail == Write("Failed") /\ UNCHANGED <<machine, cordoned, unevicted>>

\* An ending that left the machine alone.
Quietly(ending) == ending /\ UNCHANGED <<machine, cordoned, unevicted>>

\* doNodeDrain cordons the node and goes on when the eviction of every pod was
\* accepted; it does not wait for the pods to be gone.
Drain(next) ==
    \/ read.late /\ Fail
    \/ /\ ~read.late
       /\ cordoned' = TRUE
       /\ \/ unevicted' = FALSE /\ Write(next)
          \/ unevicted' = unevicted /\ Requeue
       /\ UNCHANGED machine

hasNodeRebootedYet == machine.up /\ machine.boot # status.bootID

\* The Kubernetes node may need a while longer to be Ready.
Rebooted(ending) ==
    \/ ~read.late /\ Quietly(Requeue)
    \/ read.late /\ Fail
    \/ ~read.late /\ hasNodeRebootedYet /\ ending

\* Mutant: a node once cordoned stays cordoned.
uncordonNever == UNCHANGED <<cordoned, unevicted>>

doNodeUncordon == cordoned' = FALSE /\ UNCHANGED unevicted

uncordonUnlessUnsched == IF status.unsched THEN UNCHANGED <<cordoned, unevicted>> ELSE doNodeUncordon

-----------------------------------------------------------------------------
\* Mutant: a reboot request goes without the drain.
RebootUndrained ==
    \/ read.phase = "Pending" /\ Quietly(Write("Applying"))
    \/ read.phase = "Applying" /\ Fail
    \/ /\ read.phase = "Applying" /\ machine.up
       /\ machine' = Rebooting(machine)
       /\ Write("Verifying")
       /\ UNCHANGED <<cordoned, unevicted>>
    \/ /\ read.phase = "Verifying"
       /\ Rebooted(doNodeUncordon /\ Write("Done") /\ UNCHANGED machine)

\* handleNodePower for a reboot.
HandleReboot ==
    \/ read.phase = "Pending" /\ Quietly(Write("Draining"))
    \/ read.phase = "Draining" /\ Drain("Applying")
    \/ read.phase = "Applying" /\ Fail
    \/ /\ read.phase = "Applying" /\ machine.up
       /\ machine' = Rebooting(machine)
       /\ Write("Verifying")
       /\ UNCHANGED <<cordoned, unevicted>>
    \/ /\ read.phase = "Verifying"
       /\ Rebooted(doNodeUncordon /\ Write("Done") /\ UNCHANGED machine)

\* handleNodeUpgrade up to the installation.
UpgradePrepare ==
    \/ /\ read.phase = "Pending"
       /\ Quietly(Write(IF machine.release = spec.release THEN "Done" ELSE "UpgradeDrain"))
    \/ read.phase = "UpgradeDrain" /\ Drain("UpgradePreflight")
    \/ /\ read.phase = "UpgradePreflight"
       /\ \E p \in {"Upgrade113ImagePull", "UpgradeLegacyUpgrade"} : Quietly(Write(p))
    \/ read.phase = "Upgrade113ImagePull" /\ Quietly(Write("Upgrade113Upgrade"))

\* The new API installs and is then told to reboot, which may fail; the legacy
\* call does both, also when it ran into the handler's timeout.
UpgradeInstall ==
    /\ read.phase \in {"Upgrade113Upgrade", "UpgradeLegacyUpgrade"}
    /\ \/ machine' = Rebooting(Installed(machine)) /\ Write("UpgradeVerifying")
       \/ /\ machine' = IF read.phase = "Upgrade113Upgrade" THEN Installed(machine)
                                                          ELSE Rebooting(Installed(machine))
          /\ Write("Failed")
    /\ UNCHANGED <<cordoned, unevicted>>

UpgradeVerify ==
    /\ read.phase = "UpgradeVerifying"
    /\ LET booted == [status EXCEPT !.bootID = machine.boot]
       IN Rebooted(IF machine.release = spec.release
                      THEN Quietly(End("UpgradeUncordon", booted, booted))
                      ELSE Fail)

\* Mutant: an Apply ends with the upgrade it made.
UpgradeUncordonDone ==
    /\ read.phase = "UpgradeUncordon"
    /\ doNodeUncordon
    /\ Write("Done")
    /\ UNCHANGED machine

UpgradeUncordon ==
    /\ read.phase = "UpgradeUncordon"
    /\ doNodeUncordon
    /\ Write(IF read.type = "Apply" THEN "Applying" ELSE "Done")
    /\ UNCHANGED machine

\* Any call may fail; so does the operation when the machine does not answer.
HandleUpgrade ==
    \/ Fail
    \/ machine.up /\ (UpgradePrepare \/ UpgradeInstall \/ UpgradeVerify \/ UpgradeUncordon)

\* handleNodeApply; the Upgrade phases are those of handleNodeUpgrade.
ApplyPending ==
    /\ read.phase = "Pending"
    /\ LET cleared == [status EXCEPT !.drift = FALSE]
           next == CASE status.inSync -> "Done"
                     [] ~status.inSync /\ machine.release # spec.release -> "UpgradeDrain"
                     [] OTHER -> "Applying"
       IN Quietly(End(next, cleared, cleared))

\* A dry run tells whether the machine will reboot; a node that is
\* schedulable is drained first.  The hash is written with the phase.
ApplyApplying ==
    /\ read.phase = "Applying"
    /\ \/ NeedsReboot(Expected) /\ ~cordoned /\ Quietly(Write("ApplyDrain"))
       \/ /\ ~(NeedsReboot(Expected) /\ ~cordoned)
          /\ machine' = Applied(Expected)
          /\ End(IF NeedsReboot(Expected) THEN "ApplyVerifying" ELSE "Done",
                 status, [status EXCEPT !.hash = HashOf(Expected)])
          /\ UNCHANGED <<cordoned, unevicted>>

ApplyVerifying ==
    /\ read.phase = "ApplyVerifying"
    /\ LET synced == [status EXCEPT !.inSync = TRUE]
       IN Rebooted(/\ uncordonUnlessUnsched
                   /\ End("Done", synced, synced)
                   /\ UNCHANGED machine)

HandleApply ==
    \/ ~machine.up /\ Quietly(Requeue)
    \/ machine.up /\ Fail
    \/ /\ machine.up
       /\ \/ ApplyPending
          \/ read.phase # "Pending" /\ UpgradePrepare
          \/ UpgradeInstall \/ UpgradeVerify \/ UpgradeUncordon
          \/ ApplyApplying
          \/ read.phase = "ApplyDrain" /\ Drain("Applying")
          \/ ApplyVerifying

\* handleKubernetesComponentUpgrade.  The version in the status is raised before
\* anything is applied, and is what the configuration is generated from.
NeedsKubeletReboot == Longhorn /\ read.component = "kubelet"

ComponentPending ==
    /\ read.phase = "Pending"
    /\ LET bumped == [status EXCEPT !.kube[read.component] = spec.version]
           next == CASE read.component \in DisabledComponents -> "Done"
                     [] read.component \notin DisabledComponents /\ NeedsKubeletReboot -> "Draining"
                     [] OTHER -> "Applying"
       IN IF status.inSync THEN Quietly(End(next, bumped, bumped)) ELSE Fail

ComponentApply ==
    /\ read.phase = "Applying"
    /\ machine.up
    /\ machine' = Applied(Expected)
    /\ Write(IF NeedsKubeletReboot /\ ~NeedsReboot(Expected) THEN "KubeletReboot" ELSE "Verifying")
    /\ UNCHANGED <<cordoned, unevicted>>

ComponentReboot ==
    \/ read.phase = "KubeletReboot" /\ ~machine.up /\ Quietly(Requeue)
    \/ /\ read.phase = "KubeletReboot" /\ machine.up
       /\ machine' = Rebooting(machine)
       /\ Write("VerifyReboot")
       /\ UNCHANGED <<cordoned, unevicted>>
    \/ /\ read.phase = "VerifyReboot"
       /\ \/ hasNodeRebootedYet /\ Quietly(Write("Verifying"))
          \/ read.late /\ Fail
          \/ ~read.late /\ Quietly(Requeue)

ComponentVerify ==
    /\ read.phase = "Verifying"
    /\ \/ read.late /\ Fail
       \/ ~read.late /\ Quietly(Requeue)
       \/ /\ ~read.late /\ machine.up
          /\ machine.running.kube[read.component] = status.kube[read.component]
          /\ uncordonUnlessUnsched
          /\ Write("Done")
          /\ UNCHANGED machine

HandleComponentUpgrade ==
    \/ Fail
    \/ ComponentPending
    \/ read.phase = "Draining" /\ Drain("Applying")
    \/ ComponentApply
    \/ ComponentReboot
    \/ ComponentVerify

\* A phase that only another operation's handler can have written; the default
\* case of handleNodeUpgrade is among its failures.
UnknownPhase == read.type # "Upgrade" /\ read.phase \notin Ops!PhasesOf(read.type)

Handle ==
    /\ worker.busy
    /\ \/ UnknownPhase /\ Quietly(Requeue)
       \/ read.type = "Reboot" /\ HandleReboot
       \/ read.type = "Upgrade" /\ HandleUpgrade
       \/ read.type = "Apply" /\ HandleApply
       \/ read.type = "KubernetesComponentUpgrade" /\ HandleComponentUpgrade
    /\ UNCHANGED <<spec, requests, events>>

-----------------------------------------------------------------------------
\* The next boot changes nothing: no reboot is due, nothing is staged on disk.
NothingPending ==
    ~machine.rebooting /\ machine.disk = machine.running /\ machine.installed = machine.release

\* The types that runSubOperations starts.
ClusterTypes == {"Reboot", "Apply", "KubernetesComponentUpgrade"}

\* The intake of a request, by the worker itself, or the Cluster controller, also
\* in the middle of a reconcile, stores an operation in the place of another.
StartOp(t, c) ==
    /\ requests < MaxRequests
    /\ worker.busy => t \in ClusterTypes
    /\ op' = [type |-> t, component |-> c, phase |-> "Pending", late |-> FALSE, own |-> TRUE]
    /\ worker' = [worker EXCEPT !.stale = worker.busy]
    /\ began' = [boot |-> machine.boot, release |-> machine.release, cordoned |-> cordoned,
                 clean |-> isOperationComplete /\ NothingPending]
    /\ requests' = requests + 1
    /\ UNCHANGED <<spec, status, machine, cordoned, unevicted, events, faults>>

Elapse ==
    /\ ~isOperationComplete /\ op.phase # "Pending" /\ ~op.late
    /\ op' = [op EXCEPT !.late = TRUE]
    /\ UNCHANGED <<spec, status, machine, cordoned, unevicted, worker, began,
                   requests, events, faults>>

\* The scheduler puts pods on a schedulable node.
Schedule ==
    /\ machine.up /\ ~cordoned /\ ~unevicted
    /\ unevicted' = TRUE
    /\ UNCHANGED <<spec, status, op, machine, cordoned, worker, began,
                   requests, events, faults>>

\* The machine goes down for the reboot it was told to make, and comes back
\* with the configuration and the release on its disk.
GoDown ==
    /\ machine.up /\ machine.rebooting
    /\ machine' = [machine EXCEPT !.up = FALSE]
    /\ unevicted' = FALSE
    /\ UNCHANGED <<spec, status, op, cordoned, worker, began, requests, events, faults>>

ComeUp ==
    /\ ~machine.up
    /\ machine' = [machine EXCEPT !.up = TRUE, !.rebooting = FALSE, !.boot = @ + 1,
                                  !.running = machine.disk, !.release = machine.installed]
    /\ UNCHANGED <<spec, status, op, cordoned, unevicted, worker, began,
                   requests, events, faults>>

\* What others do: edit the specs, edit the machine's configuration by hand,
\* cordon or uncordon an idle node; or the machine fails.
Disturb(e) ==
    /\ events + faults < MaxTroubles
    /\ e \in Events
    /\ events' = events + 1
    /\ began' = [began EXCEPT !.clean = FALSE]
    /\ UNCHANGED <<status, op, worker, requests, faults>>

EditSpec ==
    /\ Disturb("spec")
    /\ \E u \in Cfgs, r \in Releases : spec' = [spec EXCEPT !.user = u, !.release = r]
    /\ spec' # spec
    /\ UNCHANGED <<machine, cordoned, unevicted>>

SetVersion ==
    /\ Disturb("version")
    /\ \E v \in Versions \ {spec.version} : spec' = [spec EXCEPT !.version = v]
    /\ UNCHANGED <<machine, cordoned, unevicted>>

HandEdit ==
    /\ Disturb("edit")
    /\ machine.up
    /\ \E u \in Cfgs \ {machine.running.user} :
          LET new == [machine.running EXCEPT !.user = u]
          IN machine' = [machine EXCEPT !.running = new, !.disk = new]
    /\ UNCHANGED <<spec, cordoned, unevicted>>

Cordon ==
    /\ Disturb("cordon")
    /\ isOperationComplete
    /\ cordoned' = ~cordoned
    /\ UNCHANGED <<spec, machine, unevicted>>

Outage ==
    /\ Disturb("outage")
    /\ machine.up
    /\ machine' = [machine EXCEPT !.up = FALSE]
    /\ unevicted' = FALSE
    /\ UNCHANGED <<spec, cordoned>>

\* A provisioned node in sync with its specs, its first operation still to come.
Init ==
    /\ \E u \in Cfgs, r \in Releases, v \in Versions :
          LET cfg == [user |-> u, release |-> r, kube |-> [c \in Components |-> v]]
          IN /\ spec = [user |-> u, release |-> r, version |-> v]
             /\ machine = [boot |-> 0, up |-> TRUE, rebooting |-> FALSE, running |-> cfg,
                           disk |-> cfg, release |-> r, installed |-> r]
             /\ status = [bootID |-> 0, hash |-> NoHash, kube |-> cfg.kube,
                          inSync |-> TRUE, drift |-> FALSE, unsched |-> FALSE]
    /\ op = NoOperation
    /\ began = [boot |-> 0, release |-> machine.release, cordoned |-> FALSE, clean |-> TRUE]
    /\ worker = IdleWorker
    /\ cordoned = FALSE
    /\ unevicted = TRUE
    /\ requests = 0 /\ events = 0 /\ faults = 0

Next ==
    \/ Refresh \/ Fetch \/ Handle \/ Elapse
    \/ \E t \in OpTypes \ {"KubernetesComponentUpgrade"} : StartOp(t, "none")
    \/ \E c \in Components : /\ "KubernetesComponentUpgrade" \in OpTypes
                             /\ StartOp("KubernetesComponentUpgrade", c)
    \/ Schedule \/ GoDown \/ ComeUp
    \/ EditSpec \/ SetVersion \/ HandEdit \/ Cordon \/ Outage

Spec == Init /\ [][Next]_vars
-----------------------------------------------------------------------------
(***************************************************************************)
(* Properties.                                                             *)
(***************************************************************************)

Statuses == [bootID : Nat, hash : SUBSET Configs, kube : [Components -> Versions],
             inSync : BOOLEAN, drift : BOOLEAN, unsched : BOOLEAN]

Machines == [boot : Nat, up : BOOLEAN, rebooting : BOOLEAN, running : Configs,
             disk : Configs, release : Releases, installed : Releases]

Operations == [type : ModelledTypes \union {"None"}, component : Components \union {"none"},
               phase : Phases, late : BOOLEAN, own : BOOLEAN]

Beginnings == [boot : Nat, release : Releases, cordoned : BOOLEAN, clean : BOOLEAN]

\* Type correctness of the node's objects, the machine and the reconcile.
MachineTypeOK ==
    /\ spec \in [user : Cfgs, release : Releases, version : Versions]
    /\ status \in Statuses
    /\ machine \in Machines
    /\ cordoned \in BOOLEAN
    /\ unevicted \in BOOLEAN
    /\ worker \in [busy : BOOLEAN, stale : BOOLEAN, op : Operations]
    /\ op \in Operations
    /\ began \in Beginnings
    /\ requests \in Nat
    /\ events \in Nat
    /\ faults \in Nat

\* The machine of a reboot that is Done was booted after the reboot was asked
\* for: a boot ID left from before, crashes of the manager between its writes
\* and outages do not make hasNodeRebootedYet see a reboot that was not, nor does
\* a handler that is overtaken by the request while it works on another
\* operation, unless it writes the phase it decided on for that one here.
RebootDoneMeansRebooted ==
    op.type = "Reboot" /\ op.phase = "Done" /\ op.own => machine.boot > began.boot

\* What is true of a machine when nothing but the operation touched it.
Settled == machine.up /\ ~machine.rebooting

\* Apply and the component upgrade uncordon "only if it was not cordoned
\* before" (node_controller_apply.go); an upgrade of the OS always uncordons.
CordonKept ==
    \/ cordoned = began.cordoned
    \/ op.type = "Apply" /\ machine.release # began.release

\* An undisturbed operation that is Done did what it is for, whatever phases
\* it took: the machine runs the expected configuration or release, has no
\* reboot before it, and its node is as schedulable as it was.  The upgrade of a
\* disabled component only raises the version in the status.
DoneIsDone ==
    op.phase = "Done" /\ began.clean =>
        /\ Settled
        /\ op.type = "Reboot" => ~cordoned
        /\ op.type = "Upgrade" => machine.release = spec.release
        /\ op.type = "Apply" => InSync(status) /\ CordonKept
        /\ op.type = "KubernetesComponentUpgrade" =>
              /\ op.component \notin DisabledComponents => InSync(status)
              /\ CordonKept

\* The operator tells the machine to reboot.
TellsToReboot == machine'.rebooting /\ ~machine.rebooting

\* The configuration is applied in AUTO mode, in which Talos may reboot.
AppliesConfig ==
    read.type \in {"Apply", "KubernetesComponentUpgrade"} /\ read.phase = "Applying"

\* A reboot, an OS upgrade and a kubelet upgrade beside Longhorn reboot the
\* machine only once the evictions of its pods were accepted and before new ones
\* come, also after crashes and outages and when the operation was replaced by
\* another under its handler; unless its phase is another operation's.
DrainedForReboot == [][TellsToReboot /\ ~AppliesConfig /\ read.own => ~unevicted]_vars

\* "If the drain fails, the operator will not proceed with the operation"
\* (5.2-resolving_failed_operations.md): no safe operation reboots a machine
\* with pods whose eviction was not accepted.
NeverRebootsUndrained == [][TellsToReboot => ~unevicted]_vars

\* The operations on a machine implement the operations of NodeOps.
NodeOpsSpec == Ops!Spec

=============================================================================
