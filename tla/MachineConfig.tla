---------------------------- MODULE MachineConfig ----------------------------
(***************************************************************************)
(* How a Node gets its machine configuration: GenerateMachineConfig        *)
(* (src/internal/controller/helpers_talos_config.go) and the first part of *)
(* NodeReconciler.Reconcile (node_controller.go), which defaults the       *)
(* Kubernetes versions and publishes the configuration in the status,      *)
(* while the Node, its Cluster and the ConfigMaps they refer to are edited *)
(* and the events of the edits arrive late.                                *)
(*                                                                         *)
(* A configuration is a set of pairs <<place, value>>.  A setting that     *)
(* Talos knows in two syntaxes has two places: <<setting, "old">> is the   *)
(* section of the v1alpha1 document, <<setting, "new">> the document of    *)
(* its own.  A patch is such a set too; the value Deleted deletes.  The    *)
(* reads of one generation from the cache are one step.                    *)
(***************************************************************************)
EXTENDS Integers, Sequences, Functions

CONSTANTS
    Versions,               \* Kubernetes versions
    FirstVersion,           \* the one the Cluster is created with
    Modern,                 \* the version contract is 1.14 or later
    EnableRTLNodeLabel,     \* the feature flag
    Patches,                \* what users write into patches
    FirstPatch,             \* the one in a ConfigMap that exists at the start
    Malformed,              \* a patch that does not parse or cannot be applied
    Deleted,                \* the value a patch gives what it deletes
    Failed,                 \* the outcome of a generation that fails
    None,                   \* no object
    ConfigMaps,             \* names of ConfigMaps
    Elsewhere,              \* those in another namespace than the Node
    MaxEdits,               \* bound on edits
    MaxRestarts,            \* bound on restarts of the manager
    MaxListed               \* bound on the length of a list of patches

ASSUME MachineConfigAssumption ==
    /\ FirstVersion \in Versions
    /\ FirstPatch \in Patches
    /\ "" \notin Versions
    /\ {Modern, EnableRTLNodeLabel} \subseteq BOOLEAN
    /\ {Malformed, Failed, None} \intersect Patches = {}
    /\ Deleted \notin Versions
    /\ Elsewhere \subseteq ConfigMaps
    /\ {MaxEdits, MaxRestarts, MaxListed} \subseteq Nat

VARIABLES
    node,           \* the spec of the Node object
    cluster,        \* the spec of the Cluster object, or None
    clusterSeen,    \* the Cluster in the informer cache
    maps,           \* maps[m]: the patch in ConfigMap m, or None
    mapsSeen,       \* the ConfigMaps in the informer cache
    status,         \* the status of the Node object
    provisioned,    \* its Provisioned condition
    crossNamespace, \* the flag --enable-cross-namespace-patch-refs
    worker,         \* the Node controller's reconcile
    queued,         \* the Node is in the work queue
    edits, restarts

vars == <<node, cluster, clusterSeen, maps, mapsSeen, status, provisioned,
          crossNamespace, worker, queued, edits, restarts>>

-----------------------------------------------------------------------------
(***************************************************************************)
(* Data.                                                                   *)
(***************************************************************************)

ControlPlaneComponents == {"apiServer", "controllerManager", "scheduler"}

Components == ControlPlaneComponents \union {"kubelet"}

\* The settings that exist in two syntaxes.
Settings == Components \union {"proxy", "label", "hostname"}

Places == (Settings \X {"old", "new"}) \union {<<"type">>, <<"user">>, <<"secret">>}

\* What the operator writes itself is never a deletion, and patches name places.
ASSUME PatchesAssumption ==
    /\ Deleted \notin {"", "controlplane", "worker", "demo", "auto", "FQDN", "cluster-name"}
    /\ \A patch \in Patches : \A e \in patch : e = <<e[1], e[2]>> /\ e[1] \in Places

\* The places a configuration or a patch names, and what it says of one.
Named(config) == {e[1] : e \in config}

ValueAt(p, config) == (CHOOSE e \in config : e[1] = p)[2]

\* The settings the operator decides, by the role of the node.
Decided(role) ==
    {"kubelet", "hostname"}
        \union (IF EnableRTLNodeLabel THEN {"label"} ELSE {})
        \union (IF role = "controlplane" THEN ControlPlaneComponents \union {"proxy"} ELSE {})

\* status.kubernetesVersions; nil is no version of anything.
NoVersions == [c \in Components |-> ""]

\* The lists of patches of the Cluster.
ClusterLists == {"patchRefs", "patches", "controlPlanePatchRefs", "controlPlanePatches",
                 "workerPatchRefs", "workerPatches"}

NodeLists == {"patchRefs", "patches"}

RefLists == {"patchRefs", "controlPlanePatchRefs", "workerPatchRefs"}

NewCluster == [version |-> FirstVersion, lists |-> [name \in ClusterLists |-> <<>>]]

NewStatus == [versions |-> NoVersions, effective |-> None, hierarchy |-> <<>>,
              ready |-> "Unknown"]

IdleWorker == [pc |-> "idle", node |-> None, status |-> None, config |-> None,
               hierarchy |-> <<>>]

-----------------------------------------------------------------------------
(***************************************************************************)
(* GenerateMachineConfig.                                                  *)
(***************************************************************************)

makeDefaultKubernetesVersions(role, version) ==
    [c \in Components |-> IF c = "kubelet" \/ role = "controlplane" THEN version ELSE ""]

\* fetchPatchRefs: the patches the references name; Failed stands for one
\* that cannot be had.
Fetched(refs, seen, cross) ==
    [i \in DOMAIN refs |->
        IF (refs[i] \in Elsewhere /\ ~cross) \/ seen[refs[i]] = None
        THEN Failed ELSE seen[refs[i]]]

\* The library's generator, with the cluster's Kubernetes version and the
\* secrets of the demo bundle.  Before 1.14 it writes the old syntax.
BaseConfig(role, version) ==
    LET style == IF Modern THEN "new" ELSE "old"
        components == IF role = "controlplane" THEN Components \union {"proxy"} ELSE {"kubelet"}
        base == (components \X {style}) \union {<<"type">>, <<"secret">>, <<"hostname", "new">>}
    IN  {<<p, CASE p = <<"type">> -> role
                [] p = <<"secret">> -> "demo"
                [] p = <<"hostname", "new">> -> "auto"
                [] OTHER -> version>> : p \in base}

\* addPatchToProvider.
Patched(config, patch) ==
    {e \in config : e[1] \notin Named(patch)} \union {e \in patch : e[2] # Deleted}

\* The configuration after each patch of a list.
PatchedBy(config, patches) ==
    LET after[i \in 0..Len(patches)] ==
            IF i = 0 THEN config ELSE Patched(after[i - 1], patches[i])
    IN  after

\* addPatchesToProvider: one patch that was not found, does not parse or
\* cannot be applied fails it.
addPatches(config, patches) ==
    IF \E i \in DOMAIN patches : patches[i] \in {Failed, Malformed} THEN Failed
    ELSE PatchedBy(config, patches)[Len(patches)]

\* The Cluster's lists for a role.
RoleLists(role) == IF role = "controlplane"
                   THEN <<"controlPlanePatchRefs", "controlPlanePatches">>
                   ELSE <<"workerPatchRefs", "workerPatches">>

\* Mutant: references are fetched last and override what is inline.
UserPatchesInlineFirst(n, c, seen, cross) ==
    LET fetched(refs) == Fetched(refs, seen, cross)
        role == RoleLists(n.role)
    IN  c.lists["patches"] \o fetched(c.lists["patchRefs"])
            \o c.lists[role[2]] \o fetched(c.lists[role[1]])
            \o n.lists["patches"] \o fetched(n.lists["patchRefs"])

\* The patches users wrote, in the order they are applied.
UserPatches(n, c, seen, cross) ==
    LET fetched(refs) == Fetched(refs, seen, cross)
        role == RoleLists(n.role)
    IN  fetched(c.lists["patchRefs"]) \o c.lists["patches"]
            \o fetched(c.lists[role[1]]) \o c.lists[role[2]]
            \o fetched(n.lists["patchRefs"]) \o n.lists["patches"]

\* Where a configuration has a setting: in the old syntax if it uses it.
PlaceOf(setting, config) ==
    <<setting, IF <<setting, "old">> \in Named(config) THEN "old" ELSE "new">>

\* What the operator says of a setting it decides.
DecidedValue(setting, versions) ==
    CASE setting = "hostname" -> "FQDN"
      [] setting = "label" -> "cluster-name"
      [] setting = "proxy" -> versions["kubelet"]
      [] OTHER -> versions[setting]

\* Mutant: the new syntax is written without a test for the old one.
operatorPatchesModern(config, role, versions) ==
    Patched(config, {<<<<"type">>, role>>}
        \union {<<<<s, "new">>, DecidedValue(s, versions)>> : s \in Decided(role)})

\* The operator's own patches, which come last: the role, the versions, the
\* label and the name of the node.  They all test for the syntax in the
\* configuration as users left it, and none touches another's places.
operatorPatches(config, role, versions) ==
    Patched(config, {<<<<"type">>, role>>}
        \union {<<PlaceOf(s, config), DecidedValue(s, versions)>> : s \in Decided(role)})

\* The configuration before the operator's patches.
userConfig(n, c, seen, cross) ==
    IF c = None THEN Failed
    ELSE addPatches(BaseConfig(n.role, c.version), UserPatches(n, c, seen, cross))

GenerateMachineConfig(n, versions, c, seen, cross) ==
    LET config == userConfig(n, c, seen, cross)
        used == IF versions = NoVersions
                THEN makeDefaultKubernetesVersions(n.role, c.version) ELSE versions
    IN  IF config = Failed THEN Failed ELSE operatorPatches(config, n.role, used)

\* The sources the hierarchy names, in the order they are applied.
PatchHierarchy(n, c) ==
    LET role == RoleLists(n.role)
        named(of, name, list) ==
            [i \in DOMAIN list |-> <<of, name, i, IF name \in RefLists THEN list[i] ELSE "inline">>]
        own(name) == named("node", name, n.lists[name])
        shared(name) == named("cluster", name, c.lists[name])
    IN  shared("patchRefs") \o shared("patches") \o shared(role[1]) \o shared(role[2])
            \o own("patchRefs") \o own("patches")

\* RedactMachineConfig, after EncodeMachineConfig.
RedactMachineConfig(config) ==
    {<<e[1], IF e[1] = <<"secret">> THEN "<redacted>" ELSE e[2]>> : e \in config}

-----------------------------------------------------------------------------
(***************************************************************************)
(* Reconcile.                                                              *)
(***************************************************************************)

specs == <<node, cluster, maps>>

caches == <<clusterSeen, mapsSeen>>

environment == <<provisioned, crossNamespace, edits, restarts>>

\* A write to the status that changes it is an event of the Node.
WriteStatus(s) ==
    /\ status' = s
    /\ queued' = (queued \/ s # status)

\* The Node is read from the API server.
Start ==
    /\ worker.pc = "idle"
    /\ queued
    /\ queued' = FALSE
    /\ worker' = [IdleWorker EXCEPT !.pc = "versions", !.node = node, !.status = status]
    /\ UNCHANGED <<specs, caches, status, environment>>

\* The Cluster is read from the API server; there is none.
ClusterNotFound ==
    /\ worker.pc = "versions"
    /\ cluster = None
    /\ WriteStatus([status EXCEPT !.ready = "ClusterNotFound"])
    /\ worker' = IdleWorker
    /\ UNCHANGED <<specs, caches, environment>>

\* Mutant: the kubelet's version is defaulted for control planes only.
DefaultedVersionsOfControlPlanes(role, versions, version) ==
    LET defaults == makeDefaultKubernetesVersions(role, version)
    IN  [c \in Components |-> IF role = "controlplane" /\ versions[c] = ""
                              THEN defaults[c] ELSE versions[c]]

\* The versions a node has after the defaults: a control plane has all of
\* them, a worker the kubelet's.
DefaultedVersions(role, versions, version) ==
    LET defaults == makeDefaultKubernetesVersions(role, version)
    IN  [c \in Components |-> IF versions[c] = "" \/ defaults[c] = ""
                              THEN defaults[c] ELSE versions[c]]

\* The versions are written only if the defaults changed them; the write
\* reads the Node again.
EnsureVersions ==
    /\ worker.pc = "versions"
    /\ cluster # None
    /\ LET new == DefaultedVersions(worker.node.role, worker.status.versions, cluster.version)
           written == [status EXCEPT !.versions = new]
       IN  IF new = worker.status.versions
           THEN /\ worker' = [worker EXCEPT !.pc = "generate"]
                /\ UNCHANGED <<status, queued>>
           ELSE /\ worker' = [worker EXCEPT !.pc = "generate", !.node = node, !.status = written]
                /\ WriteStatus(written)
    /\ UNCHANGED <<specs, caches, environment>>

\* GenerateMachineConfig: the Cluster and the ConfigMaps are read from the
\* cache and the users' patches applied; the operator's follow in Publish.
Generate ==
    /\ worker.pc = "generate"
    /\ worker' = [worker EXCEPT !.pc = "publish",
                    !.config = userConfig(worker.node, clusterSeen, mapsSeen, crossNamespace),
                    !.hierarchy = IF clusterSeen = None THEN <<>>
                                  ELSE PatchHierarchy(worker.node, clusterSeen)]
    /\ UNCHANGED <<specs, caches, status, queued, environment>>

\* A configuration that cannot be generated ends the reconcile for good.
ConfigGenerationFailed ==
    /\ worker.pc = "publish"
    /\ worker.config = Failed
    /\ WriteStatus([status EXCEPT !.ready = "ConfigGenerationFailed"])
    /\ worker' = IdleWorker
    /\ UNCHANGED <<specs, caches, environment>>

\* The configuration and the hierarchy are written if the configuration's
\* text is new.  The rest of Reconcile sets Ready again, and has a provisioned
\* node reconciled again after a minute.
Publish ==
    /\ worker.pc = "publish"
    /\ worker.config # Failed
    /\ LET config == RedactMachineConfig(operatorPatches(worker.config, worker.node.role,
                                                         worker.status.versions))
           checked == [status EXCEPT !.ready = "Checked"]
           new == IF worker.status.effective = config THEN checked
                  ELSE [checked EXCEPT !.effective = config, !.hierarchy = worker.hierarchy]
       IN  /\ status' = new
           /\ queued' = (queued \/ provisioned \/ new # status)
    /\ worker' = IdleWorker
    /\ UNCHANGED <<specs, caches, environment>>

-----------------------------------------------------------------------------
(***************************************************************************)
(* The events the controller watches.  A ConfigMap's event has the Nodes   *)
(* of the ConfigMap's namespace reconciled.                                *)
(***************************************************************************)

\* Mutant: Clusters are cached but not watched.
SeeClusterQuietly ==
    /\ clusterSeen # cluster
    /\ clusterSeen' = cluster
    /\ UNCHANGED <<specs, mapsSeen, status, worker, queued, environment>>

SeeCluster ==
    /\ clusterSeen # cluster
    /\ clusterSeen' = cluster
    /\ queued' = TRUE
    /\ UNCHANGED <<specs, mapsSeen, status, worker, environment>>

SeeConfigMap(m) ==
    /\ mapsSeen[m] # maps[m]
    /\ mapsSeen' = [mapsSeen EXCEPT ![m] = maps[m]]
    /\ queued' = (queued \/ m \notin Elsewhere)
    /\ UNCHANGED <<specs, clusterSeen, status, worker, environment>>

-----------------------------------------------------------------------------
(***************************************************************************)
(* Users, and the other parts of the operator.                             *)
(***************************************************************************)

Edited ==
    /\ edits < MaxEdits
    /\ edits' = edits + 1
    /\ UNCHANGED <<caches, status, worker, provisioned, crossNamespace, restarts>>

\* What a list may be edited to: an entry less or an entry more.
EditsOf(name, list) ==
    LET entries == IF name \in RefLists THEN ConfigMaps ELSE Patches \union {Malformed}
    IN  (IF list = <<>> THEN {} ELSE {Tail(list)})
            \union (IF Len(list) < MaxListed THEN {Append(list, e) : e \in entries} ELSE {})

EditNode ==
    /\ Edited
    /\ queued' = TRUE
    /\ \/ \E name \in NodeLists : \E list \in EditsOf(name, node.lists[name]) :
            node' = [node EXCEPT !.lists[name] = list]
       \/ \E role \in {"controlplane", "worker"} \ {node.role} :
            node' = [node EXCEPT !.role = role]
    /\ UNCHANGED <<cluster, maps>>

EditCluster ==
    /\ Edited
    /\ cluster # None
    /\ \/ \E name \in ClusterLists : \E list \in EditsOf(name, cluster.lists[name]) :
            cluster' = [cluster EXCEPT !.lists[name] = list]
       \/ \E version \in Versions \ {cluster.version} :
            cluster' = [cluster EXCEPT !.version = version]
    /\ UNCHANGED <<node, maps, queued>>

CreateCluster ==
    /\ Edited
    /\ cluster = None
    /\ cluster' = NewCluster
    /\ UNCHANGED <<node, maps, queued>>

EditConfigMap(m) ==
    /\ Edited
    /\ \E patch \in (Patches \union {None}) \ {maps[m]} : maps' = [maps EXCEPT ![m] = patch]
    /\ UNCHANGED <<node, cluster, queued>>

\* A KubernetesComponentUpgrade records the version it brings (NodeMachine).
UpgradeComponent ==
    /\ worker.pc = "idle"
    /\ cluster # None
    /\ edits < MaxEdits
    /\ edits' = edits + 1
    /\ \E c \in {c \in Components : status.versions[c] \notin {"", cluster.version}} :
        WriteStatus([status EXCEPT !.versions[c] = cluster.version])
    /\ UNCHANGED <<specs, caches, worker, provisioned, crossNamespace, restarts>>

\* A Provision operation succeeds (ClusterReconcile).
Provision ==
    /\ worker.pc = "idle"
    /\ ~provisioned
    /\ status.ready = "Checked"
    /\ provisioned' = TRUE
    /\ queued' = TRUE
    /\ UNCHANGED <<specs, caches, status, worker, crossNamespace, edits, restarts>>

\* The manager is started again, maybe with another flag: its caches are
\* filled and every Node is queued.
Restart ==
    /\ restarts < MaxRestarts
    /\ restarts' = restarts + 1
    /\ crossNamespace' \in BOOLEAN
    /\ worker' = IdleWorker
    /\ clusterSeen' = cluster
    /\ mapsSeen' = maps
    /\ queued' = TRUE
    /\ UNCHANGED <<specs, status, provisioned, edits>>

-----------------------------------------------------------------------------
\* A Node is created in a namespace that may have a Cluster and ConfigMaps.
Init ==
    /\ \E role \in {"controlplane", "worker"} :
        node = [role |-> role, lists |-> [name \in NodeLists |-> <<>>]]
    /\ cluster \in {NewCluster, None}
    /\ clusterSeen \in {cluster, None}
    /\ \E patch \in {FirstPatch, None} : maps = [m \in ConfigMaps |-> patch]
    /\ mapsSeen = maps
    /\ status = NewStatus
    /\ provisioned = FALSE
    /\ crossNamespace = FALSE
    /\ worker = IdleWorker
    /\ queued = TRUE
    /\ edits = 0
    /\ restarts = 0

Reconcile ==
    \/ Start \/ ClusterNotFound \/ EnsureVersions \/ Generate \/ ConfigGenerationFailed
    \/ Publish

Next ==
    \/ Reconcile
    \/ SeeCluster
    \/ \E m \in ConfigMaps : SeeConfigMap(m) \/ EditConfigMap(m)
    \/ EditNode \/ EditCluster \/ CreateCluster \/ UpgradeComponent \/ Provision \/ Restart

Spec == Init /\ [][Next]_vars

\* A queued Node is reconciled, and the watches deliver.
FairSpec ==
    /\ Spec
    /\ WF_vars(Reconcile)
    /\ WF_vars(SeeCluster)
    /\ \A m \in ConfigMaps : WF_vars(SeeConfigMap(m))

-----------------------------------------------------------------------------
(***************************************************************************)
(* Properties.                                                             *)
(***************************************************************************)

\* Type correctness of the objects, the caches and the reconcile.  A Node that
\* was given versions keeps a kubelet version, whatever its role becomes, and
\* no configuration is published before.
ConfigTypeOK ==
    /\ node.role \in {"controlplane", "worker"}
    /\ DOMAIN node.lists = NodeLists
    /\ \A c \in {cluster, clusterSeen} \ {None} :
        c.version \in Versions /\ DOMAIN c.lists = ClusterLists
    /\ {maps, mapsSeen} \subseteq [ConfigMaps -> Patches \union {None}]
    /\ status.versions \in [Components -> Versions \union {""}]
    /\ status.versions["kubelet"] = "" => status.versions = NoVersions /\ status.effective = None
    /\ status.effective = None \/ Named(status.effective) \subseteq Places
    /\ status.ready \in {"Unknown", "ClusterNotFound", "ConfigGenerationFailed", "Checked"}
    /\ worker.pc \in {"idle", "versions", "generate", "publish"}
    /\ {provisioned, crossNamespace, queued} \subseteq BOOLEAN
    /\ edits \in 0..MaxEdits
    /\ restarts \in 0..MaxRestarts

\* The patches by priority as docs/mdbook/src/1-quick_start.md lists them.
ByPriority(n, c) ==
    LET role == IF n.role = "worker" THEN <<"workerPatchRefs", "workerPatches">>
                ELSE <<"controlPlanePatchRefs", "controlPlanePatches">>
        fetched(refs) == Fetched(refs, mapsSeen, crossNamespace)
    IN  <<fetched(c.lists["patchRefs"]), c.lists["patches"],
          fetched(c.lists[role[1]]), c.lists[role[2]],
          fetched(n.lists["patchRefs"]), n.lists["patches"]>>

\* GenerateMachineConfig fails if and only if some patch cannot be had or
\* parsed.  Otherwise each place the operator does not decide holds what the
\* patch of the highest priority that names it says, the node's before its
\* role's before the cluster's, inline patches before references and later
\* ones before earlier ones; a place no patch names holds what the generator
\* wrote.
LastPatchWins ==
    worker.pc = "generate" /\ clusterSeen # None =>
        LET config == GenerateMachineConfig(worker.node, worker.status.versions, clusterSeen,
                                            mapsSeen, crossNamespace)
            given == ByPriority(worker.node, clusterSeen)
            all == {e \in (1..6) \X (1..MaxListed) : e[2] \in DOMAIN given[e[1]]}
            at(e) == given[e[1]][e[2]]
            base == BaseConfig(worker.node.role, clusterSeen.version)
            free == {p \in Places : p # <<"type">> /\ p[1] \notin Decided(worker.node.role)}
        IN  /\ config = Failed <=> \E e \in all : at(e) \in {Failed, Malformed}
            /\ config # Failed => \A p \in free :
                LET naming == {e \in all : p \in Named(at(e))}
                    last == CHOOSE e \in naming : \A d \in naming :
                                d[1] < e[1] \/ (d[1] = e[1] /\ d[2] <= e[2])
                    said == IF naming = {} THEN base ELSE at(last)
                IN  {e \in config : e[1] = p} = {e \in said : e[1] = p /\ e[2] # Deleted}

\* A configuration is published with the node's own name and with the
\* Kubernetes versions of its status, in the syntax it uses, whatever patches
\* say and whatever version the Cluster asks for meanwhile: a node's versions
\* change only by an upgrade operation.
PublishesAdoptedVersions ==
    [][status'.effective # status.effective =>
        LET config == status'.effective
        IN  \A s \in Decided(ValueAt(<<"type">>, config)) :
                {e \in config : e[1] = PlaceOf(s, config)}
                    = {<<PlaceOf(s, config), DecidedValue(s, status.versions)>>}]_status

\* The status says what the objects say now.
Settled ==
    IF cluster = None THEN status.ready = "ClusterNotFound"
    ELSE /\ status.versions = DefaultedVersions(node.role, status.versions, cluster.version)
         /\ \E config \in {GenerateMachineConfig(node, status.versions, cluster, maps,
                                                 crossNamespace)} :
                IF config = Failed THEN status.ready = "ConfigGenerationFailed"
                ELSE status.ready = "Checked" /\ status.effective = RedactMachineConfig(config)

\* The Node needs a ConfigMap of another namespace, whose events do not reach it.
NeedsElsewhere ==
    /\ crossNamespace
    /\ cluster # None
    /\ \/ \E m \in Elsewhere, name \in RefLists \intersect Range(<<"patchRefs">> \o RoleLists(node.role)) :
            m \in Range(cluster.lists[name])
       \/ \E m \in Elsewhere : m \in Range(node.lists["patchRefs"])

\* When the edits end, the status comes to show the configuration of the last
\* edit, or that there is none: no event is lost between the reads through
\* the cache, the reads from the API server and the writes, although a
\* reconcile that fails is not repeated.  A Node that uses ConfigMaps of
\* another namespace is excepted, see the README.
EventuallyPublished == <>[](Settled \/ NeedsElsewhere)

=============================================================================
