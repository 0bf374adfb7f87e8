# talos-operator: a verification project

TLA+ modules, TLC configurations and TLAPS proofs about the Talos operator: how
operations on the nodes and clusters of a Talos fleet are taken, run, kept apart
and ended, what they do to machines, how a cluster is founded and kept up to date
by itself, and how machine configurations come about. Source references are
relative to `src/`; files without a path are in `internal/controller/`.

## The system

One manager process runs two controllers, each with one worker.

| Component | State | Operations | Interacts through |
|---|---|---|---|
| Node controller (`node_controller.go`) | `Node.Operation` (request), `Node.Status.Operation` (type, options, phase, time), conditions | take a request, default versions, publish the configuration, run the handler, clean up a deleted node | API server, informer cache, the machine's Talos API |
| Node operations (`node_controller_{power,apply,upgrade,kubernetes_upgrade,reset,provision,bootstrap}.go`) | the phase; the machine | one step of a phase machine per reconcile | each other, through the other nodes' phases in the cache |
| Drain and reboot detection (`helpers_k8s.go`) | cordon, boot ID | drain, uncordon, has it rebooted | Kubernetes API of the managed cluster |
| Node status (`node_controller_status.go`) | boot ID, sync, drift, cordon, readiness | compare machine and configuration | feeds triggers and refusals |
| Configuration (`helpers_talos_config.go`) | none | generate from Cluster, Node and ConfigMaps | informer cache |
| Cluster controller (`cluster_controller.go`) | `Cluster.Operation`, `Cluster.Status.Operation` with its plan | take a request, bootstrap by itself, trigger in a window, make a plan, finish | Node controller, through `Node.Status.Operation` only |
| Sub-operations (`cluster_controller_subop.go`) | phase and start time of each step | start, record, monitor, time out | writes and reads (cached) the nodes' statuses |
| Cluster status, secrets (`cluster_controller_{status,secrets}.go`) | Bootstrapped, sync, next window; bundle, kubeconfig, talosconfig | look for etcd data, compute the window, refresh secrets | the first control planes' Talos API |
| Clients, plugin, manager | | | see "Not modelled" |

What is hard about it:

* **Reads and writes are apart.** A reconcile starts with a fresh read
  (`APIReader`), every later read is from the informer cache, and every write
  is a cached read plus an update guarded by the resource version. Handlers
  talk to machines for minutes in between, while the other controller writes
  the same status.
* **Exclusion by convention.** Nothing but `areOtherOperationsInProgress`, a
  look at cached phases, keeps two nodes of a cluster from being taken down
  together. The in-process mutex is released when the handler returns.
* **Two writes where one is meant**: copy a request and clear it; start a node
  operation and record the start; act on a machine and record that; set a
  condition and then the phase.
* **Machines disappear** as a matter of course: they reboot, are reset, or fail.
* **Decisions rest on what was seen before**: a boot ID, a cordon, a hash, the
  start of a window, Bootstrapped, a cached Cluster.

The properties that make the parts correct: one node at a time; phases belong to
their operation; finished operations stay finished; only provisioned nodes are
worked on; started operations end; plans run in order, on healthy results, and
stop at the first failure; a reboot that is reported was made, after a drain;
what is Done is done; a cluster has one etcd and one set of credentials;
automation is triggered by windows; a ready cluster is bootstrapped; patches apply by
priority and the last edit is published. PROJECT.json lists the hazards behind
them, each at its line.

## Modules

| Module | Content |
|---|---|
| `NodeOps` | the Node controller and all eight node operations |
| `NodeLock` | abstract specification: the nodes of a cluster take turns |
| `ClusterOps` | the Cluster controller's plans composed with `NodeOps` |
| `NodeMachine` | one node and its machine: what operations do to it; implements `NodeOps` |
| `ClusterReconcile` | all stages of the Cluster's reconcile against control planes from provisioning to reset |
| `MachineConfig` | generation and publication of a Node's configuration |
| `NodeList` | the loop of `listEligibleNodes`, used by `ClusterOps` and `ClusterReconcile` |
| `MC*` | instances for TLC |
| `*_proofs` | theorems; those about `ClusterOps` are in `ClusterOps_proofs` (what it means for nodes) and `ClusterPlan_proofs` (plans), those about `ClusterReconcile` in `ClusterReconcile_proofs` (credentials, windows) and `ClusterEtcd_proofs` |

```
NodeLock <= NodeOps                    (<= : is implemented by)
            NodeOps <= NodeMachine     (for one node)
            NodeOps in ClusterOps      (extended: its steps are steps of NodeOps)
```

A definition whose comment says *Mutant* is a plausible bug: it is used nowhere
but to show that a property would notice it (PROJECT.json, `mutants`).

### NodeOps

`request[n]` is `node.Operation`, `op[n]` is `node.Status.Operation` in the API
server, `cached[n]` its phase in the informer cache, `provisioned[n]` the
condition, `answers[n]` whether the machine is there, `kubernetes` whether a client
of the cluster's Kubernetes API can be had, `works[n]` whether the node's Cluster is
there and its configuration generates, `worker` the reconcile in progress with the
operation it has read. `op[n].late` says that the timeout of
the current phase has passed: a write of a phase resets it (`LastTransitionTime`).

A reconcile is `IntakeCopy` and `IntakeClear` (the two writes of the intake), or
`Fetch` (the read and every early return up to the handler) and `Handle` (what
the handler decides and writes). Each handler is a relation
`XStep(o, up, p)`: having read operation `o`, it may end with phase `p`, or
without a write (`"Requeue"`). It has one disjunct per case of the handler's
switch, with its early returns; the outcome of a call to a machine, to the
Kubernetes API or of an image check is a free choice among the outcomes the case
distinguishes. `Step` puts before it what comes before the switch: most handlers
call `getKubernetesClient` first and return its error (`NeedsClient`). A node that
does not work is given up before the handler, without a requeue. `Store` is the guarded write: refused unless the cached object is
the current one. `SubOpStart` is the environment, the Cluster controller.
`Abort` ends a reconcile between two writes (error, conflicts, restart), with the
condition already written where the code writes it first.

`CoherentCache = TRUE` assumes that a watch event arrives before the next read;
`FALSE` lets the cache lag arbitrarily (`CacheSync`).

### ClusterOps

`clusterOp` is `cluster.Status.Operation` with the plan in `steps`,
`clusterWorker` the reconcile in progress. `MakePlan` stands for the Pending case
of the four handlers, `SubOpBegin`/`SubOpRecord` for the two writes that start a
step, `SubOpMonitor`, `SubOpTimeout`, `SubOpFailed` and `SubOpsDone` for the rest
of `runSubOperations`, `MaintenanceTrigger` for the automation. The cluster is
bootstrapped; refusals because of unready or drifted nodes are a free choice.

### NodeMachine

The machine has a boot ID (a number that grows with every boot), a configuration
and a release that it runs, and those on its disk that the next boot brings;
`rebooting` says that it was told to reboot. `unevicted` says that pods are left whose
eviction nobody accepted: a drain goes on when all evictions are accepted and does not
wait for the pods to be gone (`helpers_k8s.go:277`), so that nothing here says they are.
`status` the part of `node.Status` that handlers decide by: boot ID, hash
of the applied configuration, Kubernetes versions, and the conditions
ConfigInSync, ConfigDriftDetected and KubernetesUnschedulable. A configuration is
the user's part, the install image and a version per component. Talos itself
(`NeedsReboot`, `Applied`, `Installed`, `GoDown`, `ComeUp`) is external.

`Refreshed` is `reconcileNodeStatus`; it runs before the handler as long as the
operation is Pending, and between operations. The handlers of Reboot, Upgrade,
Apply and KubernetesComponentUpgrade are actions with their effects on the
machine. `End(p, first, last)` is how a handler ends: with its last write, or cut
off after it acted, with nothing or with its first write stored; a missing Kubernetes
client is such a cut before anything was done. `StartOp` replaces the operation at any
time, for the types of the Cluster controller also between a handler's read
(`worker.op`) and its write, which then lands on the new operation. Three history
variables: `began`, the machine when the operation was started, and whether a
disturbance came since; `worker.stale`, that the operation was replaced since the
handler read it; and `op.own`, that no such handler has written the operation's phase. Provision, Bootstrap and Reset are in `ClusterReconcile`.
Drains are not skipped (`unsafe` is false), and the Kubernetes node is Ready
whenever the machine answers.

### ClusterReconcile

`worker.pc` walks the stages of `ClusterReconciler.Reconcile`: the name of the
bundle, the bundle (`EnsureBundle`, `CreateBundle`; the cache of Secrets lags),
`updateStatus` with the search for etcd data and the window, `updateSecrets`,
`Trigger` (automatic bootstrap, then the window), `MakePlan` and the steps of a
bootstrap. A rolling operation is one step (`RollingRun`): its plan is the subject
of `ClusterOps`. The control planes are provisioned (`ProvisionSend` acts on the
machine, `ProvisionRecord` writes), bootstrapped and reset (`ResetVerify` clears the
conditions, `ResetDone` writes the phase); a user may replace what a node does by a
provisioning or a reset at any time (`RequestOp`); `etcd` numbers the etcd
cluster a machine is a member of, `data` says that its directory is not empty, so
that a founder which is still pulling its image looks unfounded. `ca` is the bundle
a machine or a secret was made from. `kind` is what a reset wipes: everything, or
user disks only with the mode left out, whose inference Verifying does not see.
Windows start at `Starts` and last `Duration`; `updateMaintenanceStatus` is the
first start after `now - Duration`.

### MachineConfig

A configuration and a patch are sets of pairs of a place and a value; a place is
something of the user's, a secret, the machine type, or a setting the operator
decides (versions, name, label), which Talos knows in an old and in a new syntax.
`UserPatches` is the order of the six lists, `addPatches` their application with its
failures (`Malformed` is a patch that does not parse or that cannot be applied), `operatorPatches` the patches that come last, each in the syntax the
configuration uses. That a label counts as old-style also because of old taints or
kubelet settings is one place here. The reconcile reads the Node and the Cluster
from the API server (`Start`, `EnsureVersions`), generates from the cache
(`Generate`) and writes (`Publish`); `queued` is the work queue. Only events and the
minute's requeue of a provisioned node bring a Node back.

## Runs

Properties that hold:

| Run | Instance | Shows |
|---|---|---|
| `node_ops_exclusion` | 2 nodes, Reboot and Provision by users, Apply and KubernetesComponentUpgrade by an unbounded Cluster controller, coherent cache | `OneNodeAtATime`, `LockSpec` |
| `node_ops_phases` | 1 node, every operation, 3 requests, 2 faults, lagging cache | `PhaseOfType`, `ProvisionedFirst`, `FinishedStaysFinished`, `TypeOK` |
| `node_ops_end` | 2 nodes, Reboot and Upgrade, 2 requests, 1 fault: a reconcile cut off, an outage of Kubernetes or a broken configuration | `StartedOperationsEnd` |
| `cluster_ops` | 2 nodes, 3 cluster operations, rolling reboots of users and Kubernetes upgrades of windows, that follow or replace each other, 1 crash | `DisruptsOneNode`, `StepDoneIsReal`, `DoneEverywhere`, `ClusterOperationEnds`, `ClusterTypeOK` |
| `node_machine` | 2 operations of 4 types, the second also under a running handler, 2 disturbances of which 1 may be a handler cut off, Longhorn, 3 components of which 1 is disabled | `RebootDoneMeansRebooted`, `DoneIsDone`, `DrainedForReboot`, `NodeOpsSpec`, `MachineTypeOK` |
| `cluster_founding` | 2 control planes, one from old media, 4 requests (provisioning, resets, at any time), 1 edit, outage, timeout or aged secret | `OneEtcd`, `CredentialsMatch`, `ReconcileTypeOK` |
| `cluster_window` | the same with a window, 2 requests, 1 event of any kind | `TriggersByWindow`, `AutoBootstraps` |
| `machine_config` | either role, 2 edits of any list, role, version or ConfigMap, 1 restart, lagging caches | `LastPatchWins`, `PublishesAdoptedVersions`, `EventuallyPublished`, `ConfigTypeOK` |

Statements of the repository that the code does not keep (`findings`):

| Run | Statement | What happens |
|---|---|---|
| `node_ops_stale_check` | "acts as a distributed cluster mutex" | a node starts because the cache has not yet seen the other one start |
| `node_machine_drain` | "if the drain fails, the operator will not proceed"; "simply run another apply operation" | the other Apply finds the node cordoned, skips the drain and reboots |
| `cluster_split_etcd` | "only one control plane node should be bootstrapped" | a reset of user disks marks the founder unprovisioned; the automation founds etcd again |
| `cluster_bootstrap_blocked` | the cluster is bootstrapped "once the first control plane node is provisioned and ready" | a second node provisioned between trigger and plan fails the bootstrap for good |

The first needs a watch event that is later than the requeue delay of a few
seconds; the others need no fault at all.

### Other disagreements

Met while modelling and visible in the modules, without a run of their own:

* A request made between the two writes of the intake (`node_controller.go:271`
  and `:286`; the same in the Cluster's) is cleared unseen, although the comment
  at `:266` is about not ignoring requests accidentally.
* `handleNodeApply` requeues when the machine does not answer, before it looks at
  the timeout of its verifying phases (`node_controller_apply.go:99`);
  `api/v1alpha1/cluster_types.go:106` says that the timeout applies to Verifying
  above all.
* The handlers of power, upgrade and apply ask for a Kubernetes client before they
  look at the phase, and return its error (`node_controller_power.go:67`,
  `node_controller_upgrade.go:86`, `node_controller_apply.go:82`). If the machine that
  does not come back is the only control plane there is no client, the operation is
  requeued every five seconds for ever and none of its timeouts is looked at, against
  the same line of `cluster_types.go`. `StartedOperationsEnd` therefore assumes in its
  statement that Kubernetes can be reached from some day on.
* A handler writes the phase it decided on to the operation the status holds by then
  (`helpers_node_controller.go:30`), which the Cluster controller may have replaced
  since the handler read it (`cluster_controller_subop.go:109`). An Apply in its last
  phase so marks a Reboot that was just stored as Done without a reboot, one in
  UpgradeUncordon lets it reboot without a drain, and other phases have no meaning to
  it. `RebootDoneMeansRebooted` and `DrainedForReboot` except operations that were
  given a phase in this way (`op.own`), and are refuted by TLC without the exception.
* The window is not an upper bound. The clock is compared with the window after the
  status update and the secrets, which reach for machines
  (`cluster_controller.go:285`), the plan is made in a later reconcile and the first
  node operation is started in one later still, none of which looks at the window
  again; `4.5-automated_upgrades.md:24` says that operations "will never start outside
  of it". `TriggersByWindow` says what holds: a window was open during the reconcile
  that triggers.
* With a lagging cache `runSubOperations` takes the result of a node's previous
  operation for that of the step it has just started
  (`cluster_controller_subop.go:88`); `4.3-rolling_apply.md:11` says that it waits.
* A user's node operation that starts after the plan was made is replaced by the
  step of the plan (`cluster_controller_subop.go:110`), against the message at
  `cluster_controller_reboot.go:42`. No property says that a plan interrupts nobody.
* A first control plane that never answers stops the reconcile before the
  operation's timeout (`cluster_controller.go:182`); `4.4-kubernetes_upgrades.md:13`
  says that any failure fails the operation. `ClusterOperationEnds` assumes, in its
  statement, that control planes answer again and again.
* A rolling apply of a window before the bootstrap leaves control planes whose last
  operation is not Provision, and the automatic bootstrap is never triggered
  (`cluster_controller.go:246`). `AutoBootstraps` and `BootstrapsWhenReady` count it as
  not ready.
* `1-quick_start.md:111` lists the patch of the Kubernetes version below the users'
  patches; it is applied after them.
* A Node that refers to a ConfigMap of another namespace, which the flag allows,
  is not reconciled when that ConfigMap changes (`node_controller.go:489`).
  `EventuallyPublished` excepts it (`NeedsElsewhere`); once provisioned it is
  reconciled every minute.
* The automation waits after a failure for somebody to look into it, and takes any
  operation on the Cluster that ends well for that, also one that has not touched the
  failed node, such as a Bootstrap: it then goes on to the next node while the failed one
  is still Failed. `DisruptsOneNode` is checked and proved without users' Bootstraps and
  without operations that both start.
* The upgrade of a disabled component is Done with the new version in the status, from
  which the configuration is generated, and without applying it
  (`node_controller_kubernetes_upgrade.go:180`): the node is out of sync from then on,
  and the next component upgrade of the same node, the kubelet's, fails for it (`:109`).
  `DoneIsDone` excepts disabled components.
* `patchHierarchy` is rewritten only when the redacted configuration changes
  (`node_controller.go:251`).

### Bounds

Two nodes suffice for the exclusion (a violation is a pair), for an order between
steps and for a split etcd. `node_ops_phases` has one: its properties speak of a
single node, whose steps another node's operations can only put off, and this leaves
room for requests of every type, a third one and a second crash. In `ClusterOps` one is a control plane, so that a
Kubernetes upgrade visits it four times. Two requests let a request interrupt
another and let both nodes be busy; with a third, an operation of a window can follow one
of a user that followed a failed one; founding, resetting and provisioning again
takes four. One fault puts a crash between any two writes; a second one puts an
outage, an edit or a cordon beside it. `MaxTime = 3` lets a window of length 2
open and close. Two edits let the second overtake the reconcile of the first, and
lists of two let a patch override one of its own list. `answers`, caches and
timeouts of `NodeOps` and `ClusterOps` change at any time without bound. The
theorems have none of these bounds.

`cluster_founding` assumes that no reset wipes a machine during a reconcile of the
Cluster (`ShortReconciles`: seconds against a drain and a reboot) and that no
reconcile is cut off between a call to a machine, or the start of a bootstrap, and
its record. Both are needed: without either TLC finds a second etcd, by a
Bootstrapped that is stale, by a bootstrap started twice, or by a machine that runs
and is not recorded as provisioned (see the hazards). `cluster_window` assumes
neither.

Deadlock is not checked in `node_machine` and `machine_config`: with its requests or
edits used up, a node whose operation is over, or that is not provisioned and has
not changed, has nothing more to do.

### Fairness

`Fairness` (`NodeOps`): a reconcile that was started ends (WF of `IntakeClear`,
`Handle`); the queue gets round to every node, so that a reconcile that could make a
step again and again does (SF of `IntakeCopy`, `Fetch`; strong, because machines and
other nodes' operations disable it in between). The returns of an unfinished operation
requeue the node with a delay; those that do not (`node_controller.go:94-107`,
`:196-247`) end on a node whose Cluster is missing or whose configuration does not
generate. There the steps are disabled (`works`), and what repairs the node is an edit
whose watch event is its next turn. Time passes (`Elapse`) and watches deliver
(`CacheSync`). No machine is assumed to come back, no outage to end and no handler to
succeed: `StartedOperationsEnd` says in its statement that it is about nodes for which
Kubernetes can be reached and the configuration generates from some day on.
It leaves out Apply, KubernetesComponentUpgrade, Reset and Provision, which have phases
without an effective timeout. `ClusterFairness` adds the same for the Cluster
controller, whose failed reconciles are retried with backoff.

`FairSpec` of `ClusterReconcile`: the Cluster and every Node are reconciled again and
again (both are requeued by their own returns), caches follow, machines that
went down come back, and etcd starts on a machine that runs. Users, joins, the clock
and faults owe nothing. `FairSpec` of `MachineConfig`: a queued Node is reconciled
and the watches deliver; nothing brings back a Node that is not queued.

## Proofs

For any set of nodes, any types, requests, faults, configurations and schedules. The
constants' assumptions only give them their types, or keep apart values that the code
keeps apart (no version is the marker of a deleted value); `Duration` is more than one unit
of the clock.

`NodeOps`:

* `TypeCorrect`: `TypeOK` is inductive.
* `MutualExclusion`, `ImplementsLock` (assume `CoherentCache`): `OneNodeAtATime`
  is not inductive, since a handler writes an active phase long after it looked
  at the other nodes. The invariant adds `Coherent` (the cache is the status) and
  `HasTurn`: while a handler that is not a provisioning is running, no other node
  is active. Nobody else can break it, because the Cluster controller's starts
  are Pending. Every step is then an Acquire, a Release or a stutter of `NodeLock`.
* `HandlersKnowTheirPhases` (`PhaseOfType`), `RunsOnProvisioned` (`ProvisionedFirst`),
  `FinishedForGood` (assume `ClusterTypes = {}`, any cache): the invariant adds `Snapshot`
  (what the handler has read is still in the status, since only this worker writes it) and
  `OnProvisioned`. With sub-operations `Snapshot` fails: that is the hazard of the late
  phase write.

`ClusterOps`:

* `ClusterMutualExclusion`: from `MutualExclusion`, for the steps of `ClusterSpec` are
  steps of `NodeOps` by the way the module is built; the lemma
  `CompositionImplementsNodeOps` shows it, with `KnownOperation`, that the operation
  under way is one somebody may start, so that its steps are of `ClusterTypes`.
* `ClusterTypeCorrect`: a plan, and what the worker holds of it, is always well typed.
* `DoneOnEveryNode` (`DoneEverywhere`), `StepsAreReal` (`StepDoneIsReal`); assume
  `CoherentCache` and no users' node
  operations (`UserTypes = {}`), without either of which they are false (see "Other
  disagreements"). `PlanInv` says that a plan is done in order: the steps before the
  current one are Done and stay so on their nodes, those after it have not been started,
  only the node of the current one has an operation in flight and it is the one the plan
  started (`OnlyCurrentRuns`, `WatchesItsOwn`), also between the two writes of a start
  (`Recording`). It rests on the invariant of the lock, whose `Coherent`
  makes true what a plan reads in the cache, and on `HandlesLive`, that a handler works on
  an operation of the type it has read.
* `AutomationDisruptsOneNode` (`DisruptsOneNode`) assumes besides that users start neither
  Bootstraps nor the types of the windows. `DisruptionInv` adds that a window's operation
  starts with no node Failed by the automation, and that it disrupts the node of its
  current step only.
* `PickNodesPicks` (`NodeList_proofs`): the list that plans are made of has every node
  looked for, and no other, for node lists of any length.

`NodeMachine`:

* `MachineTypeCorrect`: `MachineTypeOK` is inductive.
* `RebootsAreReal`: `RebootDoneMeansRebooted` needs `BootInv`, that boot IDs only
  grow and that from the first refresh in Pending on the recorded one is not older
  than the beginning of the operation: a machine with another boot ID has then
  been booted since, by the operation or by itself. `Current` adds that a handler whose
  operation was not replaced still works on the one in the status, so that its write is
  of the operation's own; an operation some other handler wrote to is not spoken of.
* `RebootsAreDrained`: `DrainedForReboot` needs `DrainInv`, that after its drain
  an operation's node stays cordoned and without pods to evict up to the reboot, through
  cut-off handlers, outages and operations stored meanwhile, for the operation in the
  status and for the one a handler has read. Only idle nodes are uncordoned by hand in the model;
  the exception of configurations applied in AUTO mode is the finding
  `node_machine_drain`.
* `OperationsDoTheirWork`: `DoneIsDone` needs `CleanInv`, what the phases of an undisturbed
  operation leave behind: up to the reboot the machine is up with nothing staged and its
  boot ID is the recorded one, so that another boot ID is that of the reboot the
  operation ordered, and the machine then runs what was staged (`RebootFacts`);
  KubernetesUnschedulable is the cordon from before the operation (`CordonSeen`); an
  Apply has upgraded before it applies, and if the node is newly cordoned a reboot is to
  come, after which it uncordons (`ApplyFacts`); a component upgrade starts in sync, so
  that Talos does not reboot by itself, and the kubelet's reboot changes nothing
  (`ComponentFacts`). Operations before it may have been cut off or disturbed.
* `MachineImplementsNodeOps` (`NodeOpsSpec`): every handler ends with a phase that the
  handler of `NodeOps` allows for what it has read (`Conforms`), or is cut off, which is
  its Abort. Starts are those of the Cluster controller, and a machine that goes down or
  comes up is a `MachineChange`.

`ClusterReconcile`:

* `ReconcileTypeCorrect`: `TypesInv` adds that a bootstrap's node is one of the list.
* `OneBundle`: `CredentialsMatch` needs `CredentialsInv`, that there is no second
  bundle and that the cache shows none or the one: whoever waits for the cache then uses the
  right one, and whoever does not see it fails to create another.
* `WindowsTrigger`: `TriggersByWindow` needs `WindowInv`, that the stored start is
  the first one after `at - Duration` for the moment `at` of the status update,
  from which a start before `now` is one whose window was open between the two.
* `OneEtcdForAll` (`OneEtcd`), for any number of control planes, provisionings and resets,
  requested at any time; assumes what `cluster_founding` assumes (see "Bounds") and that resets wipe everything.
  `EtcdInv` says that as long as there is etcd data some provisioned control plane has
  some (`Anchored`), where the Cluster looks for it (`Seen`); that a foundation is under way
  only as the one bootstrap that the Cluster has planned (`OnlyBootstrap`,
  `BeingRecorded`); and that as long as a bootstrap is due there is no etcd (`Before`).

`MachineConfig`:

* `ConfigTypeCorrect` (`ConfigTypeOK`), `AdoptedVersionsPublished`
  (`PublishesAdoptedVersions`): `ConfigInv` adds what a reconcile holds; above all, the
  versions of the Node it has read are those in the status until it ends.
* `PatchesByPriority` (`LastPatchWins`), for lists of any length: `PatchesApplied` is that
  of a list of patches the last one that names a place decides it, `Positions` that
  priority is the position in the joined lists, and `OperatorDecides` that the operator's
  patches come last. Assumes only that an error is not a configuration.

Lists are walked by recursive functions (`Picked`, `PatchedBy`). The provers cannot apply an
induction theorem, so that the lemmas about them take the shortest list for which they
would fail (`Smallest`) and find that there is none.

Only model-checked is all liveness: `StartedOperationsEnd`, `ClusterOperationEnds`,
`AutoBootstraps`, `EventuallyPublished` (the prover has no fairness). Every safety
property of a passing run is a theorem.

## Not modelled

* Talos and Kubernetes clients and the parsing of releases and images: I/O and text;
  their failures are choices in the handlers.
* The YAML of configurations, merging inside a document, contents of secrets, the
  ArgoCD secret.
* The maintenance annotation of Kubernetes nodes and the parts of a status that are
  only shown (`node_controller_status.go`).
* The plugin beyond its patches, the manager's wiring, logging. The mutex map
  (`internal/keyedmutex`) is never contended with one worker per controller.
* Clocks that relate a step's timeout to its node operation's: both may expire at
  any time.
* Users' node operations beside `NodeMachine` and rolling operations in
  `ClusterReconcile`; several Clusters, which share nothing.

## Plan

What could still be proved are stronger statements than the runs check: which parts of
`UserInv` survive sub-operations of the Cluster controller, `PlanInv` with users' node
operations on nodes outside the plan, and what of the plans holds with a lagging cache.
