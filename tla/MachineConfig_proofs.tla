------------------------- MODULE MachineConfig_proofs -------------------------
(***************************************************************************)
(* Theorems about MachineConfig: what a list of patches of any length      *)
(* makes of a configuration, which patch decides a place, and what is      *)
(* published.                                                              *)
(***************************************************************************)
EXTENDS MachineConfig, NodeList_proofs, SequenceTheorems

-----------------------------------------------------------------------------
(***************************************************************************)
(* Configurations and patches.                                             *)
(***************************************************************************)

Roles == {"controlplane", "worker"}

Values ==
    {e[2] : e \in UNION Patches} \union Versions
        \union {"", "controlplane", "worker", "demo", "auto", "FQDN", "cluster-name", "<redacted>"}

Configs == SUBSET (Places \X Values)

\* The pairs a configuration has at a place.
At(p, config) == {e \in config : e[1] = p}

\* Places of one and of two names differ, and so do those of different names.
LEMMA PlacesDiffer ==
    /\ \A s, t, u : <<s, t>> # <<u>>
    /\ \A s, t, u, v : <<s, t>> = <<u, v>> <=> s = u /\ t = v
<1>1. ASSUME NEW s, NEW t, NEW u, <<s, t>> = <<u>> PROVE FALSE
  <2>1. DOMAIN <<s, t>> = 1..2 /\ DOMAIN <<u>> = 1..1
    OBVIOUS
  <2>2. 2 \in 1..2 /\ 2 \notin 1..1
    OBVIOUS
  <2> QED
    BY <1>1, <2>1, <2>2
<1> QED
  BY <1>1

\* A patch is a configuration.
LEMMA PatchIsConfig == Patches \subseteq Configs
<1> SUFFICES ASSUME NEW patch \in Patches, NEW e \in patch PROVE e \in Places \X Values
  BY DEF Configs
<1>1. e = <<e[1], e[2]>> /\ e[1] \in Places
  BY PatchesAssumption
<1>2. e \in UNION Patches
  OBVIOUS
<1>3. e[2] \in Values
  BY <1>2 DEF Values
<1> QED
  BY <1>1, <1>3

\* A patched configuration is a configuration.
LEMMA PatchedIsConfig ==
    ASSUME NEW config \in Configs, NEW patch \in Configs
    PROVE  Patched(config, patch) \in Configs
BY DEF Patched, Configs

\* One patch: a place it names has what it says, any other keeps what it had.
LEMMA PatchedAt ==
    ASSUME NEW config \in Configs, NEW patch \in Configs, NEW p
    PROVE  /\ p \notin Named(patch) => At(p, Patched(config, patch)) = At(p, config)
           /\ p \in Named(patch) =>
                At(p, Patched(config, patch)) = {e \in At(p, patch) : e[2] # Deleted}
<1>1. ASSUME p \notin Named(patch)
      PROVE  At(p, Patched(config, patch)) = At(p, config)
  BY <1>1 DEF At, Patched, Named
<1>2. ASSUME p \in Named(patch)
      PROVE  At(p, Patched(config, patch)) = {e \in At(p, patch) : e[2] # Deleted}
  BY <1>2 DEF At, Patched, Named
<1> QED
  BY <1>1, <1>2

\* f is what the first n patches make of a configuration, one after the other.
AppliedTo(config, patches, f, i) ==
    IF i = 0 THEN config ELSE Patched(f[i - 1], patches[i])

Application(config, patches, f, n) == f = [i \in 0..n |-> AppliedTo(config, patches, f, i)]

\* Any number of patches can be applied.
LEMMA ApplicationsExist ==
    ASSUME NEW config, NEW patches, NEW k \in Nat
    PROVE  \E f : Application(config, patches, f, k)
<1> DEFINE T == {n \in Nat : ~ \E f : Application(config, patches, f, n)}
<1> SUFFICES T = {}
  OBVIOUS
<1> SUFFICES ASSUME T # {} PROVE FALSE
  OBVIOUS
<1>1. PICK n \in T : \A t \in T : n <= t
  BY Smallest
<1>2. n \in Nat /\ ~ \E f : Application(config, patches, f, n)
  OBVIOUS
<1>3. CASE n = 0
  <2> DEFINE f == [i \in 0..0 |-> config]
  <2>1. Application(config, patches, f, 0)
    BY DEF Application, AppliedTo
  <2> QED
    BY <1>2, <1>3, <2>1
<1>4. CASE n # 0
  <2>1. n - 1 \in Nat /\ n - 1 \notin T
    BY <1>1, <1>2, <1>4
  <2>2. PICK g : Application(config, patches, g, n - 1)
    BY <2>1
  <2> DEFINE f == [i \in 0..n |-> IF i = n THEN AppliedTo(config, patches, g, n) ELSE g[i]]
  <2>3. \A i \in 0..n : f[i] = AppliedTo(config, patches, f, i)
    <3> SUFFICES ASSUME NEW i \in 0..n PROVE f[i] = AppliedTo(config, patches, f, i)
      OBVIOUS
    <3>1. i # 0 => f[i - 1] = g[i - 1]
      BY <1>2
    <3>2. i # n => g[i] = AppliedTo(config, patches, g, i)
      BY <1>2, <1>4, <2>2 DEF Application
    <3>3. f[i] = AppliedTo(config, patches, g, i)
      BY <3>2
    <3> HIDE DEF f
    <3> QED
      BY <3>1, <3>3 DEF AppliedTo
  <2>4. Application(config, patches, f, n)
    BY <2>3 DEF Application
  <2> QED
    BY <1>2, <2>4
<1> QED
  BY <1>3, <1>4

\* The recursive function is therefore what its definition says.
LEMMA PatchedByApplies ==
    ASSUME NEW config, NEW patches, Len(patches) \in Nat
    PROVE  Application(config, patches, PatchedBy(config, patches), Len(patches))
<1>1. PICK f : Application(config, patches, f, Len(patches))
  BY ApplicationsExist
<1> DEFINE P == CHOOSE g : g = [i \in 0..Len(patches) |->
            IF i = 0 THEN config ELSE Patched(g[i - 1], patches[i])]
<1>2. P = [i \in 0..Len(patches) |->
            IF i = 0 THEN config ELSE Patched(P[i - 1], patches[i])]
  BY <1>1 DEF Application, AppliedTo
<1>3. PatchedBy(config, patches) = P
  BY DEF PatchedBy
<1> HIDE DEF P
<1> QED
  BY <1>2, <1>3 DEF Application, AppliedTo

\* The patch at k is the last one among the first n that names the place p.
LastNaming(p, patches, n, k) ==
    /\ k \in 1..n
    /\ p \in Named(patches[k])
    /\ \A j \in 1..n : p \in Named(patches[j]) => j <= k

\* What the first n patches have made of a place: it is as before if none of
\* them names it, and otherwise as the last one says that does.
Good(config, patches, f, n) ==
    /\ f[n] \in Configs
    /\ \A p : (\A j \in 1..n : p \notin Named(patches[j])) => At(p, f[n]) = At(p, config)
    /\ \A p : \A k \in 1..n : LastNaming(p, patches, n, k) =>
          At(p, f[n]) = {e \in At(p, patches[k]) : e[2] # Deleted}

\* Patches that can be had and parsed are applied, the last one wins.
LEMMA PatchesApplied ==
    ASSUME NEW config \in Configs, NEW patches \in Seq(Configs)
    PROVE  Good(config, patches, PatchedBy(config, patches), Len(patches))
<1> DEFINE N == Len(patches)
           f == PatchedBy(config, patches)
           T == {n \in 0..N : ~Good(config, patches, f, n)}
<1>1. N \in Nat /\ DOMAIN patches = 1..N /\ \A i \in 1..N : patches[i] \in Configs
  OBVIOUS
<1>2. \A i \in 0..N : f[i] = AppliedTo(config, patches, f, i)
  BY <1>1, PatchedByApplies DEF Application
<1> HIDE DEF f, N
<1>3. T = {}
  <2> SUFFICES ASSUME T # {} PROVE FALSE
    OBVIOUS
  <2>1. T \subseteq Nat
    BY <1>1
  <2>2. PICK n \in T : \A t \in T : n <= t
    BY <2>1, Smallest
  <2>3. n \in 0..N /\ ~Good(config, patches, f, n)
    OBVIOUS
  <2>4. CASE n = 0
    <3>1. f[0] = config
      BY <1>1, <1>2 DEF AppliedTo
    <3>2. Good(config, patches, f, 0)
      <4>1. \A k : k \notin 1..0
        OBVIOUS
      <4>2. \A p : At(p, f[0]) = At(p, config)
        BY <3>1
      <4>3. \A p : \A k \in 1..0 : LastNaming(p, patches, 0, k) =>
              At(p, f[0]) = {e \in At(p, patches[k]) : e[2] # Deleted}
        BY <4>1
      <4> QED
        BY <3>1, <4>2, <4>3 DEF Good
    <3> QED
      BY <2>3, <2>4, <3>2
  <2>5. CASE n # 0
    <3>1. n \in 1..N /\ n - 1 \in 0..N
      BY <1>1, <2>3, <2>5
    <3>2. Good(config, patches, f, n - 1)
      BY <2>2, <3>1
    <3>3. f[n - 1] \in Configs /\ patches[n] \in Configs
      BY <1>1, <3>1, <3>2 DEF Good
    <3>4. f[n] = Patched(f[n - 1], patches[n])
      BY <1>2, <2>3, <2>5 DEF AppliedTo
    <3>5. f[n] \in Configs
      BY <3>3, <3>4, PatchedIsConfig
    <3>6. \A j \in 1..n : j = n \/ j \in 1..(n - 1)
      BY <3>1
    <3>7. 1..(n - 1) \subseteq 1..n /\ n \in 1..n
      BY <3>1
    <3>8. ASSUME NEW p, \A j \in 1..n : p \notin Named(patches[j])
          PROVE  At(p, f[n]) = At(p, config)
      BY <3>2, <3>3, <3>4, <3>7, <3>8, PatchedAt DEF Good
    <3>9. ASSUME NEW p, NEW k \in 1..n, LastNaming(p, patches, n, k)
          PROVE  At(p, f[n]) = {e \in At(p, patches[k]) : e[2] # Deleted}
      <4>1. CASE k = n
        BY <3>3, <3>4, <3>9, <4>1, PatchedAt DEF LastNaming
      <4>2. CASE k # n
        <5>1. k \in 1..(n - 1) /\ p \notin Named(patches[n])
          BY <3>1, <3>6, <3>7, <3>9, <4>2 DEF LastNaming
        <5>2. LastNaming(p, patches, n - 1, k)
          BY <3>7, <3>9, <5>1 DEF LastNaming
        <5>3. At(p, f[n - 1]) = {e \in At(p, patches[k]) : e[2] # Deleted}
          BY <3>2, <5>1, <5>2 DEF Good
        <5> QED
          BY <3>3, <3>4, <5>1, <5>3, PatchedAt
      <4> QED
        BY <4>1, <4>2
    <3> QED
      BY <2>3, <3>5, <3>8, <3>9 DEF Good
  <2> QED
    BY <2>4, <2>5
<1>4. N \in 0..N
  BY <1>1
<1> QED
  BY <1>3, <1>4 DEF f, N

-----------------------------------------------------------------------------
(***************************************************************************)
(* The configurations the operator makes.                                  *)
(***************************************************************************)

VersionsOf == [Components -> Versions \union {""}]

\* The generator writes a configuration and deletes nothing.
LEMMA BaseIsConfig ==
    ASSUME NEW role \in Roles, NEW version \in Versions
    PROVE  /\ BaseConfig(role, version) \in Configs
           /\ \A e \in BaseConfig(role, version) : e[2] # Deleted
<1> DEFINE style == IF Modern THEN "new" ELSE "old"
           components == IF role = "controlplane" THEN Components \union {"proxy"} ELSE {"kubelet"}
           base == (components \X {style}) \union {<<"type">>, <<"secret">>, <<"hostname", "new">>}
           value(p) == CASE p = <<"type">> -> role
                         [] p = <<"secret">> -> "demo"
                         [] p = <<"hostname", "new">> -> "auto"
                         [] OTHER -> version
<1>1. BaseConfig(role, version) = {<<p, value(p)>> : p \in base}
  BY DEF BaseConfig
<1>2. base \subseteq Places
  BY DEF Places, Settings, Components
<1>3. \A p : value(p) \in {role, "demo", "auto", version}
  OBVIOUS
<1>4. {role, "demo", "auto", version} \subseteq Values
  BY DEF Values, Roles
<1>5. Deleted \notin {role, "demo", "auto", version}
  BY MachineConfigAssumption, PatchesAssumption DEF Roles
<1> HIDE DEF value, base
<1> QED
  BY <1>1, <1>2, <1>3, <1>4, <1>5 DEF Configs

\* What the operator decides is a value, and no deletion.
LEMMA DecidedIsValue ==
    ASSUME NEW role \in Roles, NEW versions \in VersionsOf, NEW s \in Decided(role)
    PROVE  s \in Settings /\ DecidedValue(s, versions) \in Values \ {Deleted}
<1>1. s \in Settings /\ (s \in Components \/ s \in {"hostname", "label", "proxy"})
  BY DEF Decided, Settings, Components, ControlPlaneComponents
<1>2. versions["kubelet"] \in Versions \union {""}
  BY DEF VersionsOf, Components
<1>3. s \in Components => versions[s] \in Versions \union {""}
  BY DEF VersionsOf
<1>4. DecidedValue(s, versions) \in Versions \union {"", "FQDN", "cluster-name"}
  BY <1>1, <1>2, <1>3 DEF DecidedValue
<1>5. Versions \union {"", "FQDN", "cluster-name"} \subseteq Values \ {Deleted}
  BY MachineConfigAssumption, PatchesAssumption DEF Values
<1> QED
  BY <1>1, <1>4, <1>5

\* The patch with the operator's decisions for a configuration.
Decisions(config, role, versions) ==
    {<<<<"type">>, role>>}
        \union {<<PlaceOf(s, config), DecidedValue(s, versions)>> : s \in Decided(role)}

\* So is what the operator decides.
LEMMA DecisionsAreConfig ==
    ASSUME NEW role \in Roles, NEW versions \in VersionsOf, NEW config
    PROVE  /\ operatorPatches(config, role, versions)
                = Patched(config, Decisions(config, role, versions))
           /\ Decisions(config, role, versions) \in Configs
           /\ \A e \in Decisions(config, role, versions) : e[2] # Deleted
           /\ Named(Decisions(config, role, versions))
                = {<<"type">>} \union {PlaceOf(s, config) : s \in Decided(role)}
<1>1. operatorPatches(config, role, versions) = Patched(config, Decisions(config, role, versions))
  BY DEF operatorPatches, Decisions
<1>2. <<"type">> \in Places /\ role \in Values \ {Deleted}
  BY PatchesAssumption DEF Places, Values, Roles
<1>3. \A s \in Decided(role) : /\ PlaceOf(s, config) \in Places
                               /\ DecidedValue(s, versions) \in Values \ {Deleted}
  <2> SUFFICES ASSUME NEW s \in Decided(role)
               PROVE  PlaceOf(s, config) \in Places /\ DecidedValue(s, versions) \in Values \ {Deleted}
    OBVIOUS
  <2>1. s \in Settings /\ DecidedValue(s, versions) \in Values \ {Deleted}
    BY DecidedIsValue
  <2>2. PlaceOf(s, config) \in Settings \X {"old", "new"}
    BY <2>1 DEF PlaceOf
  <2> QED
    BY <2>1, <2>2 DEF Places
<1>4. Named(Decisions(config, role, versions))
        = {<<"type">>} \union {PlaceOf(s, config) : s \in Decided(role)}
  <2>1. <<<<"type">>, role>> \in Decisions(config, role, versions)
    BY DEF Decisions
  <2>2. \A s \in Decided(role) :
            <<PlaceOf(s, config), DecidedValue(s, versions)>> \in Decisions(config, role, versions)
    BY DEF Decisions
  <2>3. \A p, v : <<p, v>>[1] = p
    OBVIOUS
  <2>4. \A e \in Decisions(config, role, versions) :
            e[1] = <<"type">> \/ \E s \in Decided(role) : e[1] = PlaceOf(s, config)
    BY <2>3 DEF Decisions
  <2> HIDE DEF Decisions
  <2>5. <<"type">> \in Named(Decisions(config, role, versions))
    BY <2>1, <2>3 DEF Named
  <2>6. ASSUME NEW s \in Decided(role)
        PROVE  PlaceOf(s, config) \in Named(Decisions(config, role, versions))
    BY <2>2, <2>3 DEF Named
  <2>7. ASSUME NEW p \in Named(Decisions(config, role, versions))
        PROVE  p \in {<<"type">>} \union {PlaceOf(s, config) : s \in Decided(role)}
    BY <2>4 DEF Named
  <2> QED
    BY <2>5, <2>6, <2>7
<1> QED
  BY <1>1, <1>2, <1>3, <1>4 DEF Decisions, Configs

\* The operator's patches leave a configuration.
LEMMA OperatorIsConfig ==
    ASSUME NEW role \in Roles, NEW versions \in VersionsOf, NEW config \in Configs
    PROVE  operatorPatches(config, role, versions) \in Configs
BY DecisionsAreConfig, PatchedIsConfig

\* Redaction keeps the places.
LEMMA RedactedIsConfig ==
    ASSUME NEW config \in Configs
    PROVE  /\ RedactMachineConfig(config) \in Configs
           /\ Named(RedactMachineConfig(config)) = Named(config)
           /\ \A p : p # <<"secret">> => At(p, RedactMachineConfig(config)) = At(p, config)
<1>1. \A e \in config : e = <<e[1], e[2]>> /\ e[1] \in Places /\ e[2] \in Values
  BY DEF Configs
<1>2. "<redacted>" \in Values
  BY DEF Values
<1>3. RedactMachineConfig(config) \in Configs
  <2> SUFFICES ASSUME NEW e \in config
               PROVE  <<e[1], IF e[1] = <<"secret">> THEN "<redacted>" ELSE e[2]>> \in Places \X Values
    BY DEF RedactMachineConfig, Configs
  <2> QED
    BY <1>1, <1>2
<1>4. Named(RedactMachineConfig(config)) = Named(config)
  <2> DEFINE redacted(e) == <<e[1], IF e[1] = <<"secret">> THEN "<redacted>" ELSE e[2]>>
  <2>1. RedactMachineConfig(config) = {redacted(e) : e \in config}
    BY DEF RedactMachineConfig
  <2>2. \A e : redacted(e)[1] = e[1]
    OBVIOUS
  <2> HIDE DEF redacted
  <2> QED
    BY <2>1, <2>2 DEF Named
<1>5. ASSUME NEW p, p # <<"secret">>
      PROVE  At(p, RedactMachineConfig(config)) = At(p, config)
  <2>1. \A e \in config : e[1] = p =>
            <<e[1], IF e[1] = <<"secret">> THEN "<redacted>" ELSE e[2]>> = e
    BY <1>1, <1>5
  <2> QED
    BY <1>1, <2>1 DEF RedactMachineConfig, At
<1> QED
  BY <1>3, <1>4, <1>5

\* A configuration names places.
LEMMA ConfigNamesPlaces ==
    ASSUME NEW config \in Configs
    PROVE  Named(config) \subseteq Places
BY DEF Named, Configs

-----------------------------------------------------------------------------
(***************************************************************************)
(* The lists of patches.                                                   *)
(***************************************************************************)

\* What a list may hold, and the lists of an object.
Entries(name) == IF name \in RefLists THEN ConfigMaps ELSE Patches \union {Malformed}

IsList(name, list) == list \in Seq(Entries(name)) /\ Len(list) <= MaxListed

AreLists(lists, names) ==
    /\ lists = [name \in names |-> lists[name]]
    /\ \A name \in names : IsList(name, lists[name])

IsNode(n) ==
    /\ n = [role |-> n.role, lists |-> n.lists]
    /\ n.role \in Roles
    /\ AreLists(n.lists, NodeLists)

IsCluster(c) ==
    /\ c = [version |-> c.version, lists |-> c.lists]
    /\ c.version \in Versions
    /\ AreLists(c.lists, ClusterLists)

AreMaps(seen) == seen \in [ConfigMaps -> Patches \union {None}]

\* A patch as the generation meets it.
Met == Patches \union {Failed, Malformed}

\* What is fetched is a list of patches, as long as its references.
LEMMA FetchedAreMet ==
    ASSUME NEW refs \in Seq(ConfigMaps), NEW seen, AreMaps(seen), NEW cross
    PROVE  /\ Fetched(refs, seen, cross) \in Seq(Met)
           /\ Len(Fetched(refs, seen, cross)) = Len(refs)
<1>1. Len(refs) \in Nat /\ DOMAIN refs = 1..Len(refs)
  OBVIOUS
<1>2. \A i \in 1..Len(refs) : refs[i] \in ConfigMaps /\ seen[refs[i]] \in Patches \union {None}
  BY DEF AreMaps
<1>3. Fetched(refs, seen, cross) \in [1..Len(refs) -> Met]
  BY <1>1, <1>2 DEF Fetched, Met
<1> QED
  BY <1>1, <1>3

\* The six layers of patches, from the lowest priority to the highest.
Layers(n, c, seen, cross) ==
    LET role == RoleLists(n.role)
    IN  <<Fetched(c.lists["patchRefs"], seen, cross), c.lists["patches"],
          Fetched(c.lists[role[1]], seen, cross), c.lists[role[2]],
          Fetched(n.lists["patchRefs"], seen, cross), n.lists["patches"]>>

\* So is each of the six lists.
LEMMA LayersAreMet ==
    ASSUME NEW n, IsNode(n), NEW c, IsCluster(c), NEW seen, AreMaps(seen), NEW cross
    PROVE  \A l \in 1..6 : /\ Layers(n, c, seen, cross)[l] \in Seq(Met)
                           /\ Len(Layers(n, c, seen, cross)[l]) <= MaxListed
<1> DEFINE L == Layers(n, c, seen, cross)
           OK(list) == list \in Seq(Met) /\ Len(list) <= MaxListed
<1>1. ASSUME NEW name \in RefLists, NEW list, IsList(name, list)
      PROVE  OK(Fetched(list, seen, cross))
  BY <1>1, FetchedAreMet DEF IsList, Entries
<1>2. ASSUME NEW name, name \notin RefLists, NEW list, IsList(name, list)
      PROVE  OK(list)
  <2>1. list \in Seq(Patches \union {Malformed}) /\ Len(list) <= MaxListed
    BY <1>2 DEF IsList, Entries
  <2>2. Patches \union {Malformed} \subseteq Met
    BY DEF Met
  <2> QED
    BY <2>1, <2>2, SeqMonotonic
<1>3. \A name \in ClusterLists : IsList(name, c.lists[name])
  BY DEF IsCluster, AreLists
<1>4. \A name \in NodeLists : IsList(name, n.lists[name])
  BY DEF IsNode, AreLists
<1>5. /\ RoleLists(n.role)[1] \in ClusterLists \intersect RefLists
      /\ RoleLists(n.role)[2] \in ClusterLists \ RefLists
  BY DEF RoleLists, ClusterLists, RefLists
<1>6. "patchRefs" \in ClusterLists \intersect NodeLists \intersect RefLists
  BY DEF ClusterLists, NodeLists, RefLists
<1>7. "patches" \in (ClusterLists \intersect NodeLists) \ RefLists
  BY DEF ClusterLists, NodeLists, RefLists
<1> HIDE DEF OK
<1>8. /\ OK(L[1]) /\ OK(L[2]) /\ OK(L[3])
      /\ OK(L[4]) /\ OK(L[5]) /\ OK(L[6])
  BY <1>1, <1>2, <1>3, <1>4, <1>5, <1>6, <1>7 DEF Layers
<1>9. 1..6 = {1, 2, 3, 4, 5, 6}
  OBVIOUS
<1> HIDE DEF L
<1>10. \A l \in 1..6 : OK(L[l])
  BY <1>8, <1>9, SMTT(30)
<1> QED
  BY <1>10 DEF OK, L

\* The patches users wrote are the layers, one after the other.
Joined(L) == L[1] \o L[2] \o L[3] \o L[4] \o L[5] \o L[6]

\* The users' patches are the six lists joined.
LEMMA UserPatchesAreLayers ==
    ASSUME NEW n, NEW c, NEW seen, NEW cross
    PROVE  UserPatches(n, c, seen, cross) = Joined(Layers(n, c, seen, cross))
BY DEF UserPatches, Joined, Layers

\* How many patches the layers below l have.
Below(L, l) ==
    (IF l > 1 THEN Len(L[1]) ELSE 0) + (IF l > 2 THEN Len(L[2]) ELSE 0)
        + (IF l > 3 THEN Len(L[3]) ELSE 0) + (IF l > 4 THEN Len(L[4]) ELSE 0)
        + (IF l > 5 THEN Len(L[5]) ELSE 0)

\* The list t is in J after the first k entries.
Inside(J, k, t) ==
    /\ k + Len(t) <= Len(J)
    /\ \A i \in 1..Len(t) : J[k + i] = t[i]

\* Two lists joined.
LEMMA JoinTwo ==
    ASSUME NEW J \in Seq(Met), NEW t \in Seq(Met)
    PROVE  /\ J \o t \in Seq(Met)
           /\ Len(J \o t) = Len(J) + Len(t)
           /\ Inside(J \o t, Len(J), t)
           /\ \A k \in Nat, u \in Seq(Met) : Inside(J, k, u) => Inside(J \o t, k, u)
<1>1. Len(J) \in Nat /\ Len(t) \in Nat
  OBVIOUS
<1>2. /\ J \o t \in Seq(Met)
      /\ Len(J \o t) = Len(J) + Len(t)
      /\ \A i \in 1..(Len(J) + Len(t)) :
            (J \o t)[i] = IF i <= Len(J) THEN J[i] ELSE t[i - Len(J)]
  BY ConcatProperties
<1>3. Inside(J \o t, Len(J), t)
  BY <1>1, <1>2 DEF Inside
<1>4. ASSUME NEW k \in Nat, NEW u \in Seq(Met), Inside(J, k, u)
      PROVE  Inside(J \o t, k, u)
  <2>1. Len(u) \in Nat
    OBVIOUS
  <2> QED
    BY <1>1, <1>2, <1>4, <2>1 DEF Inside
<1> QED
  BY <1>2, <1>3, <1>4

\* Where the patches of a layer are in the joined list.
LEMMA JoinSix ==
    ASSUME NEW L, \A l \in 1..6 : L[l] \in Seq(Met)
    PROVE  /\ Joined(L) \in Seq(Met)
           /\ \A l \in 1..6 : Len(L[l]) \in Nat /\ Below(L, l) \in Nat
           /\ Len(Joined(L)) = Below(L, 6) + Len(L[6])
           /\ \A l \in 1..6 : Inside(Joined(L), Below(L, l), L[l])
<1>1. PICK s1, s2, s3, s4, s5, s6 \in Seq(Met) :
          L[1] = s1 /\ L[2] = s2 /\ L[3] = s3 /\ L[4] = s4 /\ L[5] = s5 /\ L[6] = s6
  BY SMTT(30)
<1> DEFINE J2 == s1 \o s2
           J3 == J2 \o s3
           J4 == J3 \o s4
           J5 == J4 \o s5
           J6 == J5 \o s6
<1>2. /\ 0 \in Nat /\ Len(s1) \in Nat /\ Len(s2) \in Nat /\ Len(s3) \in Nat
      /\ Len(s4) \in Nat /\ Len(s5) \in Nat /\ Len(s6) \in Nat
  BY SMTT(30)
<1>3. Joined(L) = J6
  BY <1>1 DEF Joined
<1>4. /\ J2 \in Seq(Met) /\ Len(J2) = Len(s1) + Len(s2)
      /\ Inside(J2, 0, s1) /\ Inside(J2, Len(s1), s2)
  <2>1. Inside(s1, 0, s1)
    BY <1>2 DEF Inside
  <2> QED
    BY <2>1, JoinTwo
<1> HIDE DEF J2
<1>5. /\ J3 \in Seq(Met) /\ Len(J3) = Len(J2) + Len(s3) /\ Inside(J3, Len(J2), s3)
      /\ Inside(J3, 0, s1) /\ Inside(J3, Len(s1), s2)
  BY <1>2, <1>4, JoinTwo
<1>6. Len(J2) \in Nat
  BY <1>4
<1> HIDE DEF J3
<1>7. /\ J4 \in Seq(Met) /\ Len(J4) = Len(J3) + Len(s4) /\ Inside(J4, Len(J3), s4)
      /\ Inside(J4, 0, s1) /\ Inside(J4, Len(s1), s2) /\ Inside(J4, Len(J2), s3)
  BY <1>2, <1>5, <1>6, JoinTwo
<1>8. Len(J3) \in Nat
  BY <1>5
<1> HIDE DEF J4
<1>9. /\ J5 \in Seq(Met) /\ Len(J5) = Len(J4) + Len(s5) /\ Inside(J5, Len(J4), s5)
      /\ Inside(J5, 0, s1) /\ Inside(J5, Len(s1), s2) /\ Inside(J5, Len(J2), s3)
      /\ Inside(J5, Len(J3), s4)
  BY <1>2, <1>6, <1>7, <1>8, JoinTwo
<1>10. Len(J4) \in Nat
  BY <1>7
<1> HIDE DEF J5
<1>11. /\ J6 \in Seq(Met) /\ Len(J6) = Len(J5) + Len(s6) /\ Inside(J6, Len(J5), s6)
       /\ Inside(J6, 0, s1) /\ Inside(J6, Len(s1), s2) /\ Inside(J6, Len(J2), s3)
       /\ Inside(J6, Len(J3), s4) /\ Inside(J6, Len(J4), s5)
  BY <1>2, <1>6, <1>8, <1>9, <1>10, JoinTwo
<1>12. Len(J5) \in Nat
  BY <1>9
<1> HIDE DEF J6
<1>13. /\ Below(L, 1) = 0 /\ Below(L, 2) = Len(s1) /\ Below(L, 3) = Len(J2)
       /\ Below(L, 4) = Len(J3) /\ Below(L, 5) = Len(J4) /\ Below(L, 6) = Len(J5)
  BY <1>1, <1>2, <1>4, <1>5, <1>7, <1>9 DEF Below
<1> DEFINE Placed(l) == /\ Len(L[l]) \in Nat /\ Below(L, l) \in Nat
                        /\ Inside(J6, Below(L, l), L[l])
<1>14. \A l \in 1..6 : Placed(l)
  <2>1. Placed(1) /\ Placed(2)
    BY <1>1, <1>2, <1>11, <1>13, Zenon
  <2>2. Placed(3) /\ Placed(4) /\ Placed(5) /\ Placed(6)
    BY <1>1, <1>2, <1>6, <1>8, <1>10, <1>11, <1>12, <1>13, Zenon
  <2>3. 1..6 = {1, 2, 3, 4, 5, 6}
    OBVIOUS
  <2> HIDE DEF Placed
  <2> QED
    BY <2>1, <2>2, <2>3
<1> QED
  BY <1>1, <1>3, <1>11, <1>13, <1>14

\* Patches none of which failed are configurations.
LEMMA UnfailedAreConfigs ==
    ASSUME NEW patches \in Seq(Met), \A i \in DOMAIN patches : patches[i] \notin {Failed, Malformed}
    PROVE  patches \in Seq(Configs)
<1>1. Len(patches) \in Nat /\ patches = [i \in 1..Len(patches) |-> patches[i]]
      /\ DOMAIN patches = 1..Len(patches)
  OBVIOUS
<1>2. \A i \in 1..Len(patches) : patches[i] \in Configs
  <2> SUFFICES ASSUME NEW i \in 1..Len(patches) PROVE patches[i] \in Configs
    OBVIOUS
  <2>1. patches[i] \in Met /\ patches[i] \notin {Failed, Malformed}
    BY <1>1
  <2> QED
    BY <2>1, PatchIsConfig DEF Met
<1>3. patches \in [1..Len(patches) -> Configs]
  BY <1>1, <1>2
<1> QED
  BY <1>1, <1>3, SeqDef

\* What users' patches make of a configuration is one, or a failure.
LEMMA UserConfigIsConfig ==
    ASSUME NEW n, IsNode(n), NEW c, c = None \/ IsCluster(c), NEW seen, AreMaps(seen), NEW cross
    PROVE  userConfig(n, c, seen, cross) \in Configs \union {Failed}
<1>1. CASE c = None
  BY <1>1 DEF userConfig
<1>2. CASE c # None
  <2> DEFINE P == UserPatches(n, c, seen, cross)
             base == BaseConfig(n.role, c.version)
  <2>1. P \in Seq(Met)
    BY <1>2, UserPatchesAreLayers, LayersAreMet, JoinSix
  <2>2. base \in Configs
    BY <1>2, BaseIsConfig DEF IsNode, IsCluster
  <2>3. userConfig(n, c, seen, cross) = addPatches(base, P)
    BY <1>2 DEF userConfig
  <2> HIDE DEF P, base
  <2>4. CASE \E i \in DOMAIN P : P[i] \in {Failed, Malformed}
    BY <2>3, <2>4 DEF addPatches
  <2>5. CASE \A i \in DOMAIN P : P[i] \notin {Failed, Malformed}
    <3>1. P \in Seq(Configs)
      BY <2>1, <2>5, UnfailedAreConfigs
    <3>2. PatchedBy(base, P)[Len(P)] \in Configs
      BY <2>2, <3>1, PatchesApplied DEF Good
    <3> QED
      BY <2>3, <2>5, <3>2 DEF addPatches
  <2> QED
    BY <2>4, <2>5
<1> QED
  BY <1>1, <1>2

-----------------------------------------------------------------------------
(***************************************************************************)
(* The types of the states, with those of what a reconcile has read: the   *)
(* versions it works with are still those of the status.                   *)
(***************************************************************************)

Objects ==
    /\ IsNode(node)
    /\ cluster = None \/ IsCluster(cluster)
    /\ clusterSeen = None \/ IsCluster(clusterSeen)
    /\ AreMaps(maps)
    /\ AreMaps(mapsSeen)

StatusInv ==
    /\ status = [versions |-> status.versions, effective |-> status.effective,
                 hierarchy |-> status.hierarchy, ready |-> status.ready]
    /\ status.versions \in VersionsOf
    /\ status.versions["kubelet"] = "" => status.versions = NoVersions /\ status.effective = None
    /\ status.effective \in Configs \union {None}
    /\ status.ready \in {"Unknown", "ClusterNotFound", "ConfigGenerationFailed", "Checked"}

WorkerInv ==
    /\ worker = [pc |-> worker.pc, node |-> worker.node, status |-> worker.status,
                 config |-> worker.config, hierarchy |-> worker.hierarchy]
    /\ worker.pc \in {"idle", "versions", "generate", "publish"}
    /\ worker.pc # "idle" => IsNode(worker.node) /\ worker.status.versions = status.versions
    /\ worker.pc \in {"generate", "publish"} => status.versions["kubelet"] # ""
    /\ worker.pc = "publish" => worker.config \in Configs \union {Failed}

Others ==
    /\ provisioned \in BOOLEAN
    /\ crossNamespace \in BOOLEAN
    /\ queued \in BOOLEAN
    /\ edits \in 0..MaxEdits
    /\ restarts \in 0..MaxRestarts

ConfigInv == Objects /\ StatusInv /\ WorkerInv /\ Others

\* The invariant is strong enough.
LEMMA InvTypes == ConfigInv => ConfigTypeOK
<1> SUFFICES ASSUME ConfigInv PROVE ConfigTypeOK
  OBVIOUS
<1>1. node.role \in {"controlplane", "worker"} /\ DOMAIN node.lists = NodeLists
  BY DEF ConfigInv, Objects, IsNode, AreLists, Roles
<1>2. \A c \in {cluster, clusterSeen} \ {None} :
        c.version \in Versions /\ DOMAIN c.lists = ClusterLists
  BY DEF ConfigInv, Objects, IsCluster, AreLists
<1>3. status.effective = None \/ Named(status.effective) \subseteq Places
  BY ConfigNamesPlaces DEF ConfigInv, StatusInv
<1>4. {maps, mapsSeen} \subseteq [ConfigMaps -> Patches \union {None}]
  BY DEF ConfigInv, Objects, AreMaps
<1>5. /\ status.versions \in [Components -> Versions \union {""}]
      /\ status.versions["kubelet"] = "" => status.versions = NoVersions /\ status.effective = None
      /\ status.ready \in {"Unknown", "ClusterNotFound", "ConfigGenerationFailed", "Checked"}
      /\ worker.pc \in {"idle", "versions", "generate", "publish"}
  BY DEF ConfigInv, StatusInv, WorkerInv, VersionsOf
<1>6. /\ {provisioned, crossNamespace, queued} \subseteq BOOLEAN
      /\ edits \in 0..MaxEdits
      /\ restarts \in 0..MaxRestarts
  <2> USE DEF ConfigInv, Others
  <2>1. provisioned \in BOOLEAN /\ crossNamespace \in BOOLEAN /\ queued \in BOOLEAN
    OBVIOUS
  <2>2. \A b \in {provisioned, crossNamespace, queued} : b \in BOOLEAN
    BY <2>1, Zenon
  <2>3. edits \in 0..MaxEdits /\ restarts \in 0..MaxRestarts
    OBVIOUS
  <2> QED
    BY <2>2, <2>3, Zenon
<1> QED
  BY <1>1, <1>2, <1>3, <1>4, <1>5, <1>6, Zenon DEF ConfigTypeOK

\* The bounds are numbers.
LEMMA Bounds == MaxEdits \in Nat /\ MaxRestarts \in Nat /\ MaxListed \in Nat
BY MachineConfigAssumption

\* An empty list is a list.
LEMMA NoLists == \A names : AreLists([name \in names |-> <<>>], names)
<1> SUFFICES ASSUME NEW names, NEW name \in names PROVE IsList(name, <<>>)
  BY DEF AreLists
<1> QED
  BY Bounds, EmptySeq DEF IsList

\* A Cluster that is created is one.
LEMMA NewIsCluster == IsCluster(NewCluster)
BY NoLists, MachineConfigAssumption DEF NewCluster, IsCluster

\* The initial states satisfy the invariant.
LEMMA InitInv == Init => ConfigInv
<1> SUFFICES ASSUME Init PROVE ConfigInv
  OBVIOUS
<1>1. IsNode(node)
  <2>1. PICK role \in Roles : node = [role |-> role, lists |-> [name \in NodeLists |-> <<>>]]
    BY DEF Init, Roles
  <2> QED
    BY <2>1, NoLists DEF IsNode
<1>2. AreMaps(maps) /\ AreMaps(mapsSeen)
  <2>1. PICK patch \in {FirstPatch, None} : maps = [m \in ConfigMaps |-> patch]
    BY DEF Init
  <2>2. mapsSeen = maps /\ patch \in Patches \union {None}
    BY MachineConfigAssumption DEF Init
  <2> QED
    BY <2>1, <2>2 DEF AreMaps
<1>3. Objects
  BY <1>1, <1>2, NewIsCluster DEF Init, Objects
<1>4. StatusInv
  BY DEF Init, StatusInv, NewStatus, NoVersions, VersionsOf
<1>5. WorkerInv
  BY DEF Init, WorkerInv, IdleWorker
<1>6. Others
  <2>1. edits \in 0..MaxEdits /\ restarts \in 0..MaxRestarts
    BY Bounds DEF Init
  <2>2. provisioned \in BOOLEAN /\ crossNamespace \in BOOLEAN /\ queued \in BOOLEAN
    BY Zenon DEF Init
  <2> QED
    BY <2>1, <2>2, Zenon DEF Others
<1> QED
  BY <1>3, <1>4, <1>5, <1>6 DEF ConfigInv

\* The defaults give every node a kubelet version.
LEMMA DefaultsAreVersions ==
    ASSUME NEW role \in Roles, NEW versions \in VersionsOf, NEW version \in Versions
    PROVE  /\ DefaultedVersions(role, versions, version) \in VersionsOf
           /\ DefaultedVersions(role, versions, version)["kubelet"] # ""
<1> DEFINE D == makeDefaultKubernetesVersions(role, version)
<1>1. /\ D \in VersionsOf
      /\ D["kubelet"] = version
      /\ "kubelet" \in Components
  BY DEF makeDefaultKubernetesVersions, VersionsOf, Components
<1>2. version # ""
  BY MachineConfigAssumption
<1> HIDE DEF D
<1> QED
  BY <1>1, <1>2 DEF DefaultedVersions, VersionsOf, D

\* An edited list is a list.
LEMMA EditedIsList ==
    ASSUME NEW name, NEW list, IsList(name, list), NEW edited \in EditsOf(name, list)
    PROVE  IsList(name, edited)
<1>1. list \in Seq(Entries(name)) /\ Len(list) <= MaxListed /\ Len(list) \in Nat
  BY DEF IsList
<1>2. \/ list # <<>> /\ edited = Tail(list)
      \/ Len(list) < MaxListed /\ \E e \in Entries(name) : edited = Append(list, e)
  BY DEF EditsOf, Entries
<1>3. CASE list # <<>> /\ edited = Tail(list)
  <2>1. Tail(list) \in Seq(Entries(name)) /\ Len(Tail(list)) = Len(list) - 1
    BY <1>1, <1>3, HeadTailProperties
  <2> QED
    BY <1>1, <1>3, <2>1, Bounds DEF IsList
<1>4. ASSUME Len(list) < MaxListed, NEW e \in Entries(name), edited = Append(list, e)
      PROVE  IsList(name, edited)
  <2>1. Append(list, e) \in Seq(Entries(name)) /\ Len(Append(list, e)) = Len(list) + 1
    BY <1>1, AppendProperties
  <2> QED
    BY <1>1, <1>4, <2>1, Bounds DEF IsList
<1> QED
  BY <1>2, <1>3, <1>4

\* An edited list is a list.
LEMMA EditedAreLists ==
    ASSUME NEW lists, NEW names, AreLists(lists, names), NEW name \in names,
           NEW edited \in EditsOf(name, lists[name])
    PROVE  AreLists([lists EXCEPT ![name] = edited], names)
<1> DEFINE new == [lists EXCEPT ![name] = edited]
<1>1. lists = [m \in names |-> lists[m]] /\ \A m \in names : IsList(m, lists[m])
  BY DEF AreLists
<1>2. IsList(name, edited)
  BY <1>1, EditedIsList
<1>3. DOMAIN lists = names
  BY <1>1
<1>4. new = [m \in names |-> IF m = name THEN edited ELSE lists[m]]
  BY <1>3
<1> HIDE DEF new
<1>5. \A m \in names : new[m] = IF m = name THEN edited ELSE lists[m]
  BY <1>4
<1>6. new = [m \in names |-> new[m]]
  BY <1>4, <1>5
<1> QED
  BY <1>1, <1>2, <1>5, <1>6 DEF AreLists, new

-----------------------------------------------------------------------------
(***************************************************************************)
(* The invariant is kept, action by action.                                *)
(***************************************************************************)

\* A write that leaves the versions and the configuration alone.
LEMMA ReadyWritten ==
    ASSUME StatusInv,
           NEW r \in {"Unknown", "ClusterNotFound", "ConfigGenerationFailed", "Checked"},
           status' = [status EXCEPT !.ready = r]
    PROVE  StatusInv' /\ status'.versions = status.versions
BY DEF StatusInv

\* The steps of a reconcile keep the invariant.
LEMMA ReconcileInv ==
    ASSUME ConfigInv, Reconcile
    PROVE  ConfigInv'
<1> USE DEF ConfigInv
<1>1. UNCHANGED <<specs, caches, environment>>
  BY DEF Reconcile, Start, ClusterNotFound, EnsureVersions, Generate, ConfigGenerationFailed,
         Publish
<1>2. Objects'
  BY <1>1 DEF Objects, specs, caches
<1>3. queued' \in BOOLEAN
  <2>1. queued' = FALSE \/ queued' = queued
        \/ queued' = (queued \/ status' # status)
        \/ queued' = (queued \/ provisioned \/ status' # status)
    BY DEF Reconcile, Start, ClusterNotFound, EnsureVersions, Generate, ConfigGenerationFailed,
           Publish, WriteStatus
  <2>2. queued \in BOOLEAN /\ provisioned \in BOOLEAN
    BY DEF Others
  <2> QED
    BY <2>1, <2>2, Zenon
<1>4. Others'
  <2>1. /\ provisioned' \in BOOLEAN /\ crossNamespace' \in BOOLEAN
        /\ edits' \in 0..MaxEdits /\ restarts' \in 0..MaxRestarts
    BY <1>1 DEF Others, environment
  <2> QED
    BY <1>3, <2>1, Zenon DEF Others
<1>5. StatusInv' /\ WorkerInv'
  <2>1. CASE Start
    BY <2>1 DEF Start, StatusInv, WorkerInv, IdleWorker, Objects
  <2>2. CASE ClusterNotFound
    <3>1. StatusInv'
      BY <2>2, ReadyWritten DEF ClusterNotFound, WriteStatus
    <3> QED
      BY <2>2, <3>1 DEF ClusterNotFound, WorkerInv, IdleWorker
  <2>3. CASE EnsureVersions
    <3> DEFINE new == DefaultedVersions(worker.node.role, worker.status.versions, cluster.version)
               written == [status EXCEPT !.versions = new]
    <3>1. /\ new \in VersionsOf
          /\ new["kubelet"] # ""
          /\ worker.status.versions = status.versions
          /\ IsNode(worker.node)
      <4>1. /\ worker.pc = "versions" /\ cluster # None
        BY <2>3 DEF EnsureVersions
      <4> QED
        BY <4>1, DefaultsAreVersions DEF Objects, StatusInv, WorkerInv, IsNode, IsCluster
    <3> HIDE DEF new
    <3>2. \/ /\ new = worker.status.versions
             /\ worker' = [worker EXCEPT !.pc = "generate"]
             /\ UNCHANGED <<status, queued>>
          \/ /\ worker' = [worker EXCEPT !.pc = "generate", !.node = node, !.status = written]
             /\ status' = written
      BY <2>3 DEF EnsureVersions, WriteStatus, new
    <3>3. CASE new = worker.status.versions
               /\ worker' = [worker EXCEPT !.pc = "generate"] /\ UNCHANGED <<status, queued>>
      BY <3>1, <3>3 DEF StatusInv, WorkerInv
    <3>4. CASE worker' = [worker EXCEPT !.pc = "generate", !.node = node, !.status = written]
               /\ status' = written
      <4>1. /\ status'.versions = new /\ status'.effective = status.effective
            /\ status'.ready = status.ready /\ status'.hierarchy = status.hierarchy
            /\ status' = [versions |-> new, effective |-> status.effective,
                          hierarchy |-> status.hierarchy, ready |-> status.ready]
        BY <3>4 DEF StatusInv
      <4>2. StatusInv'
        BY <3>1, <4>1 DEF StatusInv
      <4>3. /\ worker'.pc = "generate" /\ worker'.node = node /\ worker'.status = status'
            /\ worker' = [pc |-> "generate", node |-> node, status |-> status',
                          config |-> worker.config, hierarchy |-> worker.hierarchy]
        BY <3>4 DEF WorkerInv
      <4>4. WorkerInv'
        BY <1>1, <3>1, <4>1, <4>3 DEF WorkerInv, Objects
      <4> QED
        BY <4>2, <4>4
    <3> QED
      BY <3>2, <3>3, <3>4
  <2>4. CASE Generate
    <3> DEFINE config == userConfig(worker.node, clusterSeen, mapsSeen, crossNamespace)
               hierarchy == IF clusterSeen = None THEN <<>>
                            ELSE PatchHierarchy(worker.node, clusterSeen)
    <3>1. config \in Configs \union {Failed}
      BY <2>4, UserConfigIsConfig DEF Generate, WorkerInv, Objects
    <3> HIDE DEF config, hierarchy
    <3>2. worker' = [worker EXCEPT !.pc = "publish", !.config = config, !.hierarchy = hierarchy]
          /\ worker.pc = "generate" /\ status' = status
      BY <2>4 DEF Generate, config, hierarchy
    <3> QED
      BY <3>1, <3>2 DEF StatusInv, WorkerInv
  <2>5. CASE ConfigGenerationFailed
    <3>1. StatusInv'
      BY <2>5, ReadyWritten DEF ConfigGenerationFailed, WriteStatus
    <3> QED
      BY <2>5, <3>1 DEF ConfigGenerationFailed, WorkerInv, IdleWorker
  <2>6. CASE Publish
    <3> DEFINE config == RedactMachineConfig(operatorPatches(worker.config, worker.node.role,
                                                             worker.status.versions))
               checked == [status EXCEPT !.ready = "Checked"]
    <3>1. /\ worker.pc = "publish" /\ worker.config \in Configs /\ worker.node.role \in Roles
          /\ worker.status.versions = status.versions /\ status.versions["kubelet"] # ""
      BY <2>6 DEF Publish, WorkerInv, IsNode
    <3>2. config \in Configs
      <4>1. worker.status.versions \in VersionsOf
        BY <3>1 DEF StatusInv
      <4> QED
        BY <3>1, <4>1, OperatorIsConfig, RedactedIsConfig
    <3> HIDE DEF config
    <3>3. \/ status' = checked
          \/ status' = [checked EXCEPT !.effective = config, !.hierarchy = worker.hierarchy]
      BY <2>6 DEF Publish, config
    <3>4. StatusInv'
      <4>1. CASE status' = checked
        BY <4>1, ReadyWritten
      <4>2. CASE status' = [checked EXCEPT !.effective = config, !.hierarchy = worker.hierarchy]
        BY <3>1, <3>2, <4>2 DEF StatusInv
      <4> QED
        BY <3>3, <4>1, <4>2
    <3> QED
      BY <2>6, <3>4 DEF Publish, WorkerInv, IdleWorker
  <2> QED
    BY <2>1, <2>2, <2>3, <2>4, <2>5, <2>6 DEF Reconcile
<1> QED
  BY <1>2, <1>4, <1>5

\* The watches deliver, or the manager is started again.
LEMMA EventsInv ==
    ASSUME ConfigInv, SeeCluster \/ (\E m \in ConfigMaps : SeeConfigMap(m)) \/ Restart
    PROVE  ConfigInv'
<1> USE DEF ConfigInv
<1>1. UNCHANGED <<specs, status, provisioned, edits>>
  BY DEF SeeCluster, SeeConfigMap, Restart, environment
<1>2. \/ clusterSeen' = clusterSeen
      \/ clusterSeen' = cluster
  BY DEF SeeCluster, SeeConfigMap, Restart
<1>3. AreMaps(mapsSeen')
  <2>1. CASE \E m \in ConfigMaps : SeeConfigMap(m)
    <3>1. PICK m \in ConfigMaps : mapsSeen' = [mapsSeen EXCEPT ![m] = maps[m]]
      BY <2>1 DEF SeeConfigMap
    <3> QED
      BY <3>1 DEF Objects, AreMaps
  <2>2. CASE SeeCluster \/ Restart
    BY <2>2 DEF SeeCluster, Restart, Objects
  <2> QED
    BY <2>1, <2>2
<1>4. Objects'
  BY <1>1, <1>2, <1>3 DEF Objects, specs
<1>5. StatusInv'
  BY <1>1 DEF StatusInv
<1>6. worker' = worker \/ worker' = IdleWorker
  BY DEF SeeCluster, SeeConfigMap, Restart
<1>7. WorkerInv'
  <2>1. CASE worker' = worker
    BY <1>1, <2>1 DEF WorkerInv
  <2>2. CASE worker' = IdleWorker
    BY <2>2 DEF WorkerInv, IdleWorker
  <2> QED
    BY <1>6, <2>1, <2>2
<1>8. Others'
  <2>1. crossNamespace' \in BOOLEAN /\ restarts' \in 0..MaxRestarts
    BY Bounds DEF SeeCluster, SeeConfigMap, Restart, environment, Others
  <2>2. queued' \in BOOLEAN
    <3>1. queued' = TRUE \/ \E m \in ConfigMaps : queued' = (queued \/ m \notin Elsewhere)
      BY DEF SeeCluster, SeeConfigMap, Restart
    <3>2. queued \in BOOLEAN
      BY DEF Others
    <3> QED
      BY <3>1, <3>2, Zenon
  <2>3. provisioned' \in BOOLEAN /\ edits' \in 0..MaxEdits
    BY <1>1 DEF Others
  <2> QED
    BY <2>1, <2>2, <2>3, Zenon DEF Others
<1> QED
  BY <1>4, <1>5, <1>7, <1>8

\* Users edit.
LEMMA EditsInv ==
    ASSUME ConfigInv,
           EditNode \/ EditCluster \/ CreateCluster \/ \E m \in ConfigMaps : EditConfigMap(m)
    PROVE  ConfigInv'
<1> USE DEF ConfigInv
<1>1. Edited
  BY DEF EditNode, EditCluster, CreateCluster, EditConfigMap
<1>2. UNCHANGED <<caches, status, worker, provisioned, crossNamespace, restarts>>
      /\ edits' \in 0..MaxEdits
  BY <1>1, Bounds DEF Edited, Others
<1>3. StatusInv' /\ WorkerInv'
  BY <1>2 DEF StatusInv, WorkerInv
<1>4. Others'
  <2>1. queued' \in BOOLEAN
    <3>1. queued' = TRUE \/ queued' = queued
      BY DEF EditNode, EditCluster, CreateCluster, EditConfigMap
    <3>2. queued \in BOOLEAN
      BY DEF Others
    <3> QED
      BY <3>1, <3>2, Zenon
  <2>2. provisioned' \in BOOLEAN /\ crossNamespace' \in BOOLEAN /\ restarts' \in 0..MaxRestarts
    BY <1>2 DEF Others
  <2> QED
    BY <1>2, <2>1, <2>2, Zenon DEF Others
<1>5. IsNode(node')
  <2>1. CASE EditNode
    <3>1. node = [role |-> node.role, lists |-> node.lists] /\ node.role \in Roles
          /\ AreLists(node.lists, NodeLists)
      BY DEF Objects, IsNode
    <3>2. CASE \E name \in NodeLists : \E list \in EditsOf(name, node.lists[name]) :
                  node' = [node EXCEPT !.lists[name] = list]
      <4>0. PICK name \in NodeLists : \E list \in EditsOf(name, node.lists[name]) :
                  node' = [node EXCEPT !.lists[name] = list]
        BY <3>2
      <4>1. PICK list \in EditsOf(name, node.lists[name]) :
                  node' = [node EXCEPT !.lists[name] = list]
        BY <4>0
      <4>2. AreLists([node.lists EXCEPT ![name] = list], NodeLists)
        BY <3>1, EditedAreLists
      <4>3. node' = [role |-> node.role, lists |-> [node.lists EXCEPT ![name] = list]]
        BY <3>1, <4>1
      <4> QED
        BY <3>1, <4>2, <4>3 DEF IsNode
    <3>3. CASE \E role \in {"controlplane", "worker"} \ {node.role} :
                  node' = [node EXCEPT !.role = role]
      <4>1. PICK role \in Roles : node' = [node EXCEPT !.role = role]
        BY <3>3 DEF Roles
      <4>2. node' = [role |-> role, lists |-> node.lists]
        BY <3>1, <4>1
      <4> QED
        BY <3>1, <4>2 DEF IsNode
    <3> QED
      BY <2>1, <3>2, <3>3 DEF EditNode
  <2>2. CASE ~EditNode
    BY <2>2 DEF EditCluster, CreateCluster, EditConfigMap, Objects
  <2> QED
    BY <2>1, <2>2
<1>6. cluster' = None \/ IsCluster(cluster')
  <2>1. CASE EditCluster
    <3>1. cluster = [version |-> cluster.version, lists |-> cluster.lists]
          /\ cluster.version \in Versions /\ AreLists(cluster.lists, ClusterLists)
      BY <2>1 DEF EditCluster, Objects, IsCluster
    <3>2. CASE \E name \in ClusterLists : \E list \in EditsOf(name, cluster.lists[name]) :
                  cluster' = [cluster EXCEPT !.lists[name] = list]
      <4>0. PICK name \in ClusterLists : \E list \in EditsOf(name, cluster.lists[name]) :
                  cluster' = [cluster EXCEPT !.lists[name] = list]
        BY <3>2
      <4>1. PICK list \in EditsOf(name, cluster.lists[name]) :
                  cluster' = [cluster EXCEPT !.lists[name] = list]
        BY <4>0
      <4>2. AreLists([cluster.lists EXCEPT ![name] = list], ClusterLists)
        BY <3>1, EditedAreLists
      <4>3. cluster' = [version |-> cluster.version,
                        lists |-> [cluster.lists EXCEPT ![name] = list]]
        BY <3>1, <4>1
      <4> QED
        BY <3>1, <4>2, <4>3 DEF IsCluster
    <3>3. CASE \E version \in Versions \ {cluster.version} :
                  cluster' = [cluster EXCEPT !.version = version]
      <4>1. PICK version \in Versions : cluster' = [cluster EXCEPT !.version = version]
        BY <3>3
      <4>2. cluster' = [version |-> version, lists |-> cluster.lists]
        BY <3>1, <4>1
      <4> QED
        BY <3>1, <4>2 DEF IsCluster
    <3> QED
      BY <2>1, <3>2, <3>3 DEF EditCluster
  <2>2. CASE CreateCluster
    BY <2>2, NewIsCluster DEF CreateCluster
  <2>3. CASE ~EditCluster /\ ~CreateCluster
    BY <2>3 DEF EditNode, EditConfigMap, Objects
  <2> QED
    BY <2>1, <2>2, <2>3
<1>7. AreMaps(maps')
  <2>1. CASE \E m \in ConfigMaps : EditConfigMap(m)
    <3>1. PICK m \in ConfigMaps, patch \in Patches \union {None} :
              maps' = [maps EXCEPT ![m] = patch]
      BY <2>1 DEF EditConfigMap
    <3> QED
      BY <3>1 DEF Objects, AreMaps
  <2>2. CASE EditNode \/ EditCluster \/ CreateCluster
    BY <2>2 DEF EditNode, EditCluster, CreateCluster, Objects
  <2> QED
    BY <2>1, <2>2
<1>8. Objects'
  BY <1>2, <1>5, <1>6, <1>7 DEF Objects, caches
<1> QED
  BY <1>3, <1>4, <1>8

\* Operations record versions and provision the node between reconciles.
LEMMA OperationsInv ==
    ASSUME ConfigInv, UpgradeComponent \/ Provision
    PROVE  ConfigInv'
<1> USE DEF ConfigInv
<1>1. UNCHANGED <<specs, caches, worker, crossNamespace, restarts>> /\ worker.pc = "idle"
  BY DEF UpgradeComponent, Provision
<1>2. Objects' /\ WorkerInv'
  BY <1>1 DEF Objects, WorkerInv, specs, caches
<1>3. StatusInv'
  <2>1. CASE UpgradeComponent
    <3>1. PICK c \in Components : /\ status.versions[c] # ""
                                  /\ status' = [status EXCEPT !.versions[c] = cluster.version]
      BY <2>1 DEF UpgradeComponent, WriteStatus
    <3>2. cluster.version \in Versions /\ "kubelet" \in Components
      BY <2>1 DEF UpgradeComponent, Objects, IsCluster, Components
    <3> DEFINE new == [status.versions EXCEPT ![c] = cluster.version]
    <3>3. /\ status' = [versions |-> new, effective |-> status.effective,
                        hierarchy |-> status.hierarchy, ready |-> status.ready]
      BY <3>1 DEF StatusInv
    <3>4. /\ new \in VersionsOf
      BY <3>2 DEF StatusInv, VersionsOf
    <3>5. status.versions["kubelet"] # ""
      BY <3>1 DEF StatusInv, NoVersions
    <3>6. new["kubelet"] # ""
      BY <3>2, <3>5, MachineConfigAssumption DEF StatusInv, VersionsOf
    <3> HIDE DEF new
    <3> QED
      BY <3>3, <3>4, <3>6 DEF StatusInv
  <2>2. CASE Provision
    BY <2>2 DEF Provision, StatusInv
  <2> QED
    BY <2>1, <2>2
<1>4. Others'
  <2>1. provisioned' \in BOOLEAN /\ queued' \in BOOLEAN
    <3>1. provisioned' = TRUE \/ provisioned' = provisioned
      BY DEF UpgradeComponent, Provision
    <3>2. queued' = TRUE \/ queued' = (queued \/ status' # status)
      BY DEF UpgradeComponent, Provision, WriteStatus
    <3>3. provisioned \in BOOLEAN /\ queued \in BOOLEAN
      BY DEF Others
    <3> QED
      BY <3>1, <3>2, <3>3, Zenon
  <2>2. edits' \in 0..MaxEdits
    <3>1. (edits < MaxEdits /\ edits' = edits + 1) \/ edits' = edits
      BY DEF UpgradeComponent, Provision
    <3> QED
      BY <3>1, Bounds DEF Others
  <2>3. crossNamespace' \in BOOLEAN /\ restarts' \in 0..MaxRestarts
    BY <1>1 DEF Others
  <2> QED
    BY <2>1, <2>2, <2>3, Zenon DEF Others
<1> QED
  BY <1>2, <1>3, <1>4

\* Every step keeps the invariant.
LEMMA NextInv == ConfigInv /\ [Next]_vars => ConfigInv'
<1> SUFFICES ASSUME ConfigInv, [Next]_vars PROVE ConfigInv'
  OBVIOUS
<1>1. CASE Reconcile
  BY <1>1, ReconcileInv
<1>2. CASE SeeCluster \/ (\E m \in ConfigMaps : SeeConfigMap(m)) \/ Restart
  BY <1>2, EventsInv
<1>3. CASE EditNode \/ EditCluster \/ CreateCluster \/ \E m \in ConfigMaps : EditConfigMap(m)
  BY <1>3, EditsInv
<1>4. CASE UpgradeComponent \/ Provision
  BY <1>4, OperationsInv
<1>5. CASE UNCHANGED vars
  BY <1>5, ZenonT(40) DEF vars, ConfigInv, Objects, StatusInv, WorkerInv, Others
<1> QED
  BY <1>1, <1>2, <1>3, <1>4, <1>5 DEF Next

\* The invariant holds in every reachable state.
LEMMA InvAlways == Spec => []ConfigInv
BY InitInv, NextInv, PTL DEF Spec

\* Every reachable state is well typed, for any versions, patches and ConfigMaps:
\* a node keeps a kubelet version once it has one, and what is published is a
\* configuration, for lists of patches of any length.
THEOREM ConfigTypeCorrect == Spec => []ConfigTypeOK
BY InvAlways, InvTypes, PTL

-----------------------------------------------------------------------------
(***************************************************************************)
(* What is published.                                                      *)
(***************************************************************************)

\* What it means for a patch to name a place.
LEMMA NamedAt ==
    ASSUME NEW p, NEW config
    PROVE  p \in Named(config) <=> At(p, config) # {}
BY DEF Named, At

\* A place is that of one setting.
LEMMA PlaceOfSetting ==
    ASSUME NEW s, NEW t, NEW config
    PROVE  /\ PlaceOf(s, config) = PlaceOf(t, config) => s = t
           /\ PlaceOf(s, config) # <<"type">> /\ PlaceOf(s, config) # <<"secret">>
           /\ PlaceOf(s, config)[1] = s
BY PlacesDiffer DEF PlaceOf

\* The operator's patches decide the role, and the settings in the syntax the
\* configuration has for them.
LEMMA OperatorDecides ==
    ASSUME NEW role \in Roles, NEW versions \in VersionsOf, NEW config \in Configs
    PROVE  LET R == operatorPatches(config, role, versions)
           IN  /\ At(<<"type">>, R) = {<<<<"type">>, role>>}
               /\ \A s \in Decided(role) :
                    /\ PlaceOf(s, R) = PlaceOf(s, config)
                    /\ At(PlaceOf(s, config), R)
                         = {<<PlaceOf(s, config), DecidedValue(s, versions)>>}
<1> DEFINE R == operatorPatches(config, role, versions)
           D == Decisions(config, role, versions)
<1>1. /\ R = Patched(config, D)
      /\ D \in Configs
      /\ \A e \in D : e[2] # Deleted
      /\ Named(D) = {<<"type">>} \union {PlaceOf(s, config) : s \in Decided(role)}
  BY DecisionsAreConfig
<1>2. /\ <<<<"type">>, role>> \in D
      /\ \A e \in D : \/ e = <<<<"type">>, role>>
                      \/ \E s \in Decided(role) :
                            e = <<PlaceOf(s, config), DecidedValue(s, versions)>>
      /\ \A s \in Decided(role) : <<PlaceOf(s, config), DecidedValue(s, versions)>> \in D
  BY DEF Decisions
<1> HIDE DEF R, D
<1>3. \A p \in Named(D) : At(p, R) = At(p, D)
  <2> SUFFICES ASSUME NEW p \in Named(D) PROVE At(p, R) = At(p, D)
    OBVIOUS
  <2>1. At(p, R) = {e \in At(p, D) : e[2] # Deleted}
    BY <1>1, PatchedAt
  <2> QED
    BY <1>1, <2>1 DEF At
<1>4. \A p, v : <<p, v>>[1] = p
  OBVIOUS
<1>5. At(<<"type">>, D) = {<<<<"type">>, role>>}
  <2>1. \A e \in D : e[1] = <<"type">> => e = <<<<"type">>, role>>
    BY <1>2, <1>4, PlaceOfSetting
  <2> QED
    BY <1>2, <1>4, <2>1 DEF At
<1>6. ASSUME NEW s \in Decided(role)
      PROVE  /\ PlaceOf(s, R) = PlaceOf(s, config)
             /\ At(PlaceOf(s, config), R)
                  = {<<PlaceOf(s, config), DecidedValue(s, versions)>>}
  <2> DEFINE p == PlaceOf(s, config)
             v == DecidedValue(s, versions)
  <2>1. \A e \in D : e[1] = p => e = <<p, v>>
    BY <1>2, <1>4, PlaceOfSetting
  <2>2. p \in Named(D) /\ <<p, v>> \in D
    BY <1>1, <1>2
  <2> HIDE DEF v
  <2>3. At(p, D) = {<<p, v>>}
    <3> HIDE DEF p
    <3> QED
      BY <1>4, <2>1, <2>2 DEF At
  <2>4. At(p, R) = {<<p, v>>}
    BY <1>3, <2>2, <2>3
  <2>5. CASE <<s, "old">> \in Named(config)
    <3>1. p = <<s, "old">>
      BY <2>5 DEF PlaceOf
    <3>2. <<s, "old">> \in Named(R)
      BY <2>4, <3>1, NamedAt
    <3> QED
      BY <2>4, <3>1, <3>2 DEF PlaceOf, v
  <2>6. CASE <<s, "old">> \notin Named(config)
    <3>1. p = <<s, "new">>
      BY <2>6 DEF PlaceOf
    <3>2. <<s, "old">> \notin Named(D)
      <4>1. <<s, "old">> # <<"type">> /\ <<s, "old">> # <<s, "new">>
        BY PlacesDiffer
      <4>2. \A t \in Decided(role) : PlaceOf(t, config) = <<s, "old">> => t = s
        BY PlacesDiffer DEF PlaceOf
      <4> QED
        BY <1>1, <3>1, <4>1, <4>2
    <3>3. At(<<s, "old">>, R) = {}
      BY <1>1, <2>6, <3>2, PatchedAt, NamedAt
    <3>4. <<s, "old">> \notin Named(R)
      BY <3>3, NamedAt
    <3> QED
      BY <2>4, <3>1, <3>4 DEF PlaceOf, v
  <2> QED
    BY <2>5, <2>6
<1> QED
  BY <1>1, <1>3, <1>5, <1>6 DEF R

\* A step that publishes a configuration publishes one with what the operator
\* decides.
AdoptedPublished ==
    status'.effective # status.effective =>
        LET config == status'.effective
        IN  \A s \in Decided(ValueAt(<<"type">>, config)) :
                {e \in config : e[1] = PlaceOf(s, config)}
                    = {<<PlaceOf(s, config), DecidedValue(s, status.versions)>>}

\* What Publish writes has the versions in the status.
LEMMA PublishAdopted ==
    ASSUME ConfigInv, Publish, status'.effective # status.effective
    PROVE  \A s \in Decided(ValueAt(<<"type">>, status'.effective)) :
              At(PlaceOf(s, status'.effective), status'.effective)
                = {<<PlaceOf(s, status'.effective), DecidedValue(s, status.versions)>>}
<1> DEFINE R == operatorPatches(worker.config, worker.node.role, status.versions)
           config == RedactMachineConfig(R)
<1>1. /\ worker.config \in Configs /\ worker.node.role \in Roles
      /\ worker.status.versions = status.versions /\ status.versions \in VersionsOf
  BY DEF ConfigInv, Publish, WorkerInv, StatusInv, IsNode
<1>2. R \in Configs
  BY <1>1, OperatorIsConfig
<1>3. /\ At(<<"type">>, R) = {<<<<"type">>, worker.node.role>>}
      /\ \A s \in Decided(worker.node.role) :
            /\ PlaceOf(s, R) = PlaceOf(s, worker.config)
            /\ At(PlaceOf(s, worker.config), R)
                  = {<<PlaceOf(s, worker.config), DecidedValue(s, status.versions)>>}
  BY <1>1, OperatorDecides
<1>4. status'.effective = config
  <2> DEFINE checked == [status EXCEPT !.ready = "Checked"]
             new == [checked EXCEPT !.effective = config, !.hierarchy = worker.hierarchy]
  <2>1. status' = checked \/ status' = new
    BY <1>1 DEF Publish
  <2>2. checked.effective = status.effective /\ new.effective = config
    BY DEF ConfigInv, StatusInv
  <2> QED
    BY <2>1, <2>2
<1> HIDE DEF R
<1>5. /\ Named(config) = Named(R)
      /\ \A p : p # <<"secret">> => At(p, config) = At(p, R)
  BY <1>2, RedactedIsConfig
<1> HIDE DEF config
<1>6. \A s : PlaceOf(s, config) = PlaceOf(s, R)
  BY <1>5 DEF PlaceOf
<1>7. ValueAt(<<"type">>, config) = worker.node.role
  <2>1. <<"type">> # <<"secret">>
    OBVIOUS
  <2>2. At(<<"type">>, config) = {<<<<"type">>, worker.node.role>>}
    BY <1>3, <1>5, <2>1
  <2>3. \A e : e \in config /\ e[1] = <<"type">> <=> e = <<<<"type">>, worker.node.role>>
    BY <2>2 DEF At
  <2>4. \E e \in config : e[1] = <<"type">>
    BY <2>3
  <2> DEFINE typed == CHOOSE e \in config : e[1] = <<"type">>
  <2>5. typed \in config /\ typed[1] = <<"type">>
    BY <2>4
  <2>6. ValueAt(<<"type">>, config) = typed[2]
    BY Zenon DEF ValueAt
  <2> HIDE DEF typed
  <2>7. typed = <<<<"type">>, worker.node.role>>
    BY <2>3, <2>5
  <2> QED
    BY <2>6, <2>7
<1>8. ASSUME NEW s \in Decided(worker.node.role)
      PROVE  At(PlaceOf(s, config), config)
                = {<<PlaceOf(s, config), DecidedValue(s, status.versions)>>}
  <2>1. PlaceOf(s, config) = PlaceOf(s, worker.config)
    BY <1>3, <1>6
  <2>2. PlaceOf(s, config) # <<"secret">>
    BY PlaceOfSetting
  <2> QED
    BY <1>3, <1>5, <2>1, <2>2
<1> QED
  BY <1>4, <1>7, <1>8

\* Only Publish changes what is published.
LEMMA NextAdopted == ConfigInv /\ [Next]_vars => [AdoptedPublished]_status
<1> SUFFICES ASSUME ConfigInv, Next, status'.effective # status.effective
             PROVE  AdoptedPublished
  BY DEF AdoptedPublished, vars
<1>1. Publish
  <2>1. \A r : [status EXCEPT !.ready = r].effective = status.effective
    BY DEF ConfigInv, StatusInv
  <2>2. \A v : [status EXCEPT !.versions = v].effective = status.effective
    BY DEF ConfigInv, StatusInv
  <2>3. \A c, v : [status EXCEPT !.versions[c] = v].effective = status.effective
    BY DEF ConfigInv, StatusInv
  <2>4. ~ClusterNotFound /\ ~ConfigGenerationFailed
    BY <2>1 DEF ClusterNotFound, ConfigGenerationFailed, WriteStatus
  <2>5. ~EnsureVersions
    BY <2>2 DEF EnsureVersions, WriteStatus
  <2>6. ~UpgradeComponent
    <3> SUFFICES ASSUME UpgradeComponent PROVE FALSE
      OBVIOUS
    <3>1. PICK c : status' = [status EXCEPT !.versions[c] = cluster.version]
      BY DEF UpgradeComponent, WriteStatus
    <3> QED
      BY <2>3, <3>1
  <2>7. ~Start /\ ~Generate
    BY DEF Start, Generate
  <2>8. ~SeeCluster /\ ~Provision /\ ~Restart /\ \A m \in ConfigMaps : ~SeeConfigMap(m)
    BY DEF SeeCluster, Provision, Restart, SeeConfigMap
  <2>9. ~Edited
    BY DEF Edited
  <2> QED
    BY <2>4, <2>5, <2>6, <2>7, <2>8, <2>9
    DEF Next, Reconcile, EditNode, EditCluster, CreateCluster, EditConfigMap
<1> QED
  BY <1>1, PublishAdopted DEF AdoptedPublished, At

\* Every configuration that is published has the Kubernetes versions of the
\* node's status, its role and its name, for any patches, edits and restarts.
THEOREM AdoptedVersionsPublished == Spec => PublishesAdoptedVersions
<1>1. ConfigInv /\ [Next]_vars =>
        [status'.effective # status.effective =>
            LET config == status'.effective
            IN  \A s \in Decided(ValueAt(<<"type">>, config)) :
                    {e \in config : e[1] = PlaceOf(s, config)}
                        = {<<PlaceOf(s, config), DecidedValue(s, status.versions)>>}]_status
  BY NextAdopted DEF AdoptedPublished
<1> QED
  BY <1>1, InvAlways, PTL DEF Spec, PublishesAdoptedVersions

-----------------------------------------------------------------------------
(***************************************************************************)
(* The patch that decides a place.                                         *)
(***************************************************************************)

\* The patches by layer and index, and their order by priority.
Indices(L) == {e \in (1..6) \X (1..MaxListed) : e[2] \in DOMAIN L[e[1]]}

NotAbove(d, e) == d[1] < e[1] \/ (d[1] = e[1] /\ d[2] <= e[2])

Position(L, e) == Below(L, e[1]) + e[2]

AreLayers(L) == \A l \in 1..6 : L[l] \in Seq(Met) /\ Len(L[l]) <= MaxListed

\* A set of numbers with a bound has a largest one.
LEMMA Largest ==
    ASSUME NEW N \in Nat, NEW T, T \subseteq 0..N, T # {}
    PROVE  \E s \in T : \A t \in T : t <= s
<1> DEFINE U == {u \in 0..N : N - u \in T}
<1>1. PICK t \in T : t \in 0..N
  OBVIOUS
<1>2. N - t \in 0..N /\ N - (N - t) = t
  BY <1>1
<1>3. U # {} /\ U \subseteq Nat
  BY <1>2
<1>4. PICK u \in U : \A v \in U : u <= v
  BY <1>3, Smallest
<1>5. \A v \in T : v <= N - u
  <2> SUFFICES ASSUME NEW v \in T PROVE v <= N - u
    OBVIOUS
  <2>1. v \in 0..N /\ N - v \in 0..N /\ N - (N - v) = v
    OBVIOUS
  <2>2. N - v \in U
    BY <2>1
  <2>3. u <= N - v /\ u \in 0..N
    BY <1>4, <2>2
  <2> HIDE DEF U
  <2> QED
    BY <2>1, <2>3
<1> QED
  BY <1>4, <1>5

\* A layer begins where the one below it ends.
LEMMA BelowSteps ==
    ASSUME NEW L, \A l \in 1..6 : Len(L[l]) \in Nat
    PROVE  /\ Below(L, 1) = 0
           /\ \A l \in 1..6 : Below(L, l) \in Nat
           /\ \A l \in 1..5 : Below(L, l + 1) = Below(L, l) + Len(L[l])
<1> DEFINE n1 == Len(L[1])
           n2 == Len(L[2])
           n3 == Len(L[3])
           n4 == Len(L[4])
           n5 == Len(L[5])
           B(l) == (IF l > 1 THEN n1 ELSE 0) + (IF l > 2 THEN n2 ELSE 0)
                     + (IF l > 3 THEN n3 ELSE 0) + (IF l > 4 THEN n4 ELSE 0)
                     + (IF l > 5 THEN n5 ELSE 0)
<1>1. n1 \in Nat /\ n2 \in Nat /\ n3 \in Nat /\ n4 \in Nat /\ n5 \in Nat
  <2>1. 1 \in 1..6 /\ 2 \in 1..6 /\ 3 \in 1..6 /\ 4 \in 1..6 /\ 5 \in 1..6
    OBVIOUS
  <2> QED
    BY <2>1, Zenon
<1>2. \A l : Below(L, l) = B(l)
  BY Zenon DEF Below
<1>3. \A l \in 1..5 : l = 1 \/ l = 2 \/ l = 3 \/ l = 4 \/ l = 5
  OBVIOUS
<1>4. \A l \in 1..5 : Len(L[l]) = IF l = 1 THEN n1 ELSE IF l = 2 THEN n2 ELSE
                                  IF l = 3 THEN n3 ELSE IF l = 4 THEN n4 ELSE n5
  BY <1>3, Zenon
<1> HIDE DEF n1, n2, n3, n4, n5
<1>5. B(1) = 0 /\ \A l \in 1..6 : B(l) \in Nat
  BY <1>1
<1>6. ASSUME NEW l \in 1..5
      PROVE  B(l + 1) = B(l) + Len(L[l])
  <2> DEFINE n == Len(L[l])
  <2>1. n = IF l = 1 THEN n1 ELSE IF l = 2 THEN n2 ELSE
            IF l = 3 THEN n3 ELSE IF l = 4 THEN n4 ELSE n5
    BY <1>4
  <2> HIDE DEF n
  <2>2. B(l + 1) = B(l) + n
    BY <1>1, <1>3, <2>1
  <2> QED
    BY <2>2 DEF n
<1> HIDE DEF B
<1> QED
  BY <1>2, <1>5, <1>6

\* A layer begins after the end of every layer below it.
LEMMA BelowGrows ==
    ASSUME NEW L, \A l \in 1..6 : Len(L[l]) \in Nat, NEW l \in 1..6, NEW m \in 1..6, l < m
    PROVE  Below(L, l) + Len(L[l]) <= Below(L, m)
<1> DEFINE B(i) == Below(L, i)
           N(i) == Len(L[i])
<1>1. /\ \A i \in 1..6 : N(i) \in Nat /\ B(i) \in Nat
      /\ \A i \in 1..5 : B(i + 1) = B(i) + N(i)
  BY BelowSteps
<1> HIDE DEF B, N
<1> DEFINE T == {i \in 1..6 : l < i /\ ~(B(l) + N(l) <= B(i))}
<1>2. T = {}
  <2> SUFFICES ASSUME T # {} PROVE FALSE
    OBVIOUS
  <2>1. PICK i \in T : \A j \in T : i <= j
    <3>1. T \subseteq Nat
      OBVIOUS
    <3> HIDE DEF T
    <3> QED
      BY <3>1, Smallest
  <2>2. i \in 1..6 /\ l < i /\ i - 1 \in 1..5 /\ i - 1 \in 1..6 /\ i - 1 \notin T
    BY <2>1
  <2>3. B(i) = B(i - 1) + N(i - 1)
    <3>1. B((i - 1) + 1) = B(i - 1) + N(i - 1)
      BY <1>1, <2>2
    <3>2. (i - 1) + 1 = i
      BY <2>2
    <3> QED
      BY <3>1, <3>2
  <2>4. /\ B(i) \in Nat /\ B(l) \in Nat /\ N(l) \in Nat
        /\ B(i - 1) \in Nat /\ N(i - 1) \in Nat
    BY <1>1, <2>2, Zenon
  <2>5. ~(B(l) + N(l) <= B(i))
    OBVIOUS
  <2>6. CASE i - 1 = l
    <3>1. B(i - 1) = B(l) /\ N(i - 1) = N(l)
      BY <2>6
    <3>2. B(i) = B(l) + N(l)
      BY <2>3, <3>1
    <3> QED
      BY <2>4, <2>5, <3>2
  <2>7. CASE i - 1 # l
    <3>1. B(l) + N(l) <= B(i - 1)
      BY <2>2, <2>7
    <3> QED
      BY <2>3, <2>4, <2>5, <3>1
  <2> QED
    BY <2>6, <2>7
<1>3. B(l) + N(l) <= B(m)
  BY <1>2
<1> QED
  BY <1>3 DEF B, N

\* Every place of the joined list is in a layer.
LEMMA InSomeLayer ==
    ASSUME NEW L, \A l \in 1..6 : Len(L[l]) \in Nat,
           NEW k \in 1..(Below(L, 6) + Len(L[6]))
    PROVE  \E l \in 1..6 : \E i \in 1..Len(L[l]) : Below(L, l) + i = k
<1>1. \A l \in 1..6 : Below(L, l) \in Nat
  BY BelowSteps
<1> DEFINE T == {l \in 1..6 : Below(L, l) < k}
<1>2. PICK l \in T : \A m \in T : m <= l
  <2>1. Below(L, 1) = 0
    BY BelowSteps
  <2>2. 1 \in T /\ T \subseteq 0..6 /\ 6 \in Nat
    BY <2>1
  <2> HIDE DEF T
  <2> QED
    BY <2>2, Largest
<1>3. k <= Below(L, l) + Len(L[l])
  <2>1. CASE l = 6
    BY <2>1
  <2>2. CASE l # 6
    <3>1. l + 1 \in 1..6 /\ l + 1 \notin T
      BY <1>2, <2>2
    <3>2. k <= Below(L, l + 1)
      BY <1>1, <3>1
    <3>3. Below(L, l + 1) = Below(L, l) + Len(L[l])
      <4>1. l \in 1..5
        BY <2>2
      <4> QED
        BY <4>1, BelowSteps
    <3> QED
      BY <3>2, <3>3
  <2> QED
    BY <2>1, <2>2
<1>4. k - Below(L, l) \in 1..Len(L[l]) /\ Below(L, l) + (k - Below(L, l)) = k
  <2>1. l \in 1..6 /\ Below(L, l) \in Nat /\ Len(L[l]) \in Nat /\ Below(L, l) < k
    BY <1>1
  <2> QED
    BY <1>3, <2>1
<1> QED
  BY <1>4

\* The priority of a patch is its place in the joined list.
LEMMA Positions ==
    ASSUME NEW L, AreLayers(L)
    PROVE  /\ \A e \in Indices(L) : /\ Position(L, e) \in 1..Len(Joined(L))
                                    /\ Joined(L)[Position(L, e)] = L[e[1]][e[2]]
           /\ \A k \in 1..Len(Joined(L)) : \E e \in Indices(L) : Position(L, e) = k
           /\ \A d, e \in Indices(L) : Position(L, d) <= Position(L, e) <=> NotAbove(d, e)
<1>1. /\ Joined(L) \in Seq(Met)
      /\ \A l \in 1..6 : Len(L[l]) \in Nat /\ Below(L, l) \in Nat
      /\ Len(Joined(L)) = Below(L, 6) + Len(L[6])
      /\ \A l \in 1..6 : Inside(Joined(L), Below(L, l), L[l])
  <2>1. \A l \in 1..6 : L[l] \in Seq(Met)
    BY DEF AreLayers
  <2> QED
    BY <2>1, JoinSix
<1>2. Len(Joined(L)) \in Nat
  BY <1>1
<1>3. \A l \in 1..6 : DOMAIN L[l] = 1..Len(L[l])
  BY DEF AreLayers
<1>4. \A e \in Indices(L) : e[1] \in 1..6 /\ e[2] \in 1..Len(L[e[1]])
  BY <1>3 DEF Indices
<1>5. \A l \in 1..6 : \A i \in 1..Len(L[l]) : <<l, i>> \in Indices(L)
  <2> SUFFICES ASSUME NEW l \in 1..6, NEW i \in 1..Len(L[l]) PROVE <<l, i>> \in Indices(L)
    OBVIOUS
  <2>1. i \in 1..MaxListed
    <3>1. Len(L[l]) \in Nat /\ Len(L[l]) <= MaxListed
      BY <1>1 DEF AreLayers
    <3> QED
      BY <3>1, Bounds
  <2> QED
    BY <1>3, <2>1 DEF Indices
<1>6. ASSUME NEW e \in Indices(L)
      PROVE  /\ Position(L, e) \in 1..Len(Joined(L))
             /\ Joined(L)[Position(L, e)] = L[e[1]][e[2]]
  <2> DEFINE l == e[1]
             i == e[2]
  <2>1. l \in 1..6 /\ i \in 1..Len(L[l])
    BY <1>4
  <2> HIDE DEF l, i
  <2>2. Position(L, e) = Below(L, l) + i
    BY DEF Position, l, i
  <2>3. /\ Len(L[l]) \in Nat /\ Below(L, l) \in Nat
        /\ Below(L, l) + Len(L[l]) <= Len(Joined(L))
        /\ Joined(L)[Below(L, l) + i] = L[l][i]
    BY <1>1, <2>1 DEF Inside
  <2> QED
    BY <1>2, <2>1, <2>2, <2>3 DEF l, i
<1>7. ASSUME NEW k \in 1..Len(Joined(L))
      PROVE  \E e \in Indices(L) : Position(L, e) = k
  <2>1. k \in 1..(Below(L, 6) + Len(L[6])) /\ \A l \in 1..6 : Len(L[l]) \in Nat
    BY <1>1
  <2>2. PICK l \in 1..6 : \E i \in 1..Len(L[l]) : Below(L, l) + i = k
    BY <2>1, InSomeLayer
  <2>3. PICK i \in 1..Len(L[l]) : Below(L, l) + i = k
    BY <2>2
  <2>4. <<l, i>> \in Indices(L) /\ Position(L, <<l, i>>) = k
    BY <1>5, <2>3 DEF Position
  <2> QED
    BY <2>4
<1>8. ASSUME NEW d \in Indices(L), NEW e \in Indices(L), d[1] < e[1]
      PROVE  Position(L, d) < Position(L, e)
  <2> DEFINE l == d[1]
             i == d[2]
             m == e[1]
             j == e[2]
  <2>1. l \in 1..6 /\ i \in 1..Len(L[l]) /\ m \in 1..6 /\ j \in 1..Len(L[m]) /\ l < m
    BY <1>4, <1>8
  <2> HIDE DEF l, i, m, j
  <2>2. Below(L, l) + Len(L[l]) <= Below(L, m)
    BY <1>1, <2>1, BelowGrows
  <2>3. Len(L[l]) \in Nat /\ Below(L, l) \in Nat /\ Len(L[m]) \in Nat /\ Below(L, m) \in Nat
    BY <1>1, <2>1
  <2>4. Below(L, l) + i < Below(L, m) + j
    BY <2>1, <2>2, <2>3
  <2> QED
    BY <2>4 DEF Position, l, i, m, j
<1>9. ASSUME NEW d \in Indices(L), NEW e \in Indices(L)
      PROVE  Position(L, d) <= Position(L, e) <=> NotAbove(d, e)
  <2>1. /\ Position(L, d) \in Nat /\ Position(L, e) \in Nat
    BY <1>2, <1>6
  <2>2. d[1] \in 1..6 /\ e[1] \in 1..6
    BY <1>4
  <2>3. CASE d[1] < e[1]
    BY <1>8, <2>1, <2>3 DEF NotAbove
  <2>4. CASE e[1] < d[1]
    <3>1. Position(L, e) < Position(L, d)
      BY <1>8, <2>4
    <3> QED
      BY <2>1, <2>2, <2>4, <3>1 DEF NotAbove
  <2>5. CASE d[1] = e[1]
    <3> DEFINE b == Below(L, e[1])
    <3>1. b \in Nat /\ d[2] \in Nat /\ e[2] \in Nat
      <4>1. d[2] \in 1..Len(L[d[1]]) /\ e[2] \in 1..Len(L[e[1]])
        BY <1>4
      <4>2. b \in Nat
        BY <1>1, <2>2
      <4> QED
        BY <4>1, <4>2
    <3>2. Position(L, d) = b + d[2] /\ Position(L, e) = b + e[2]
      BY <2>5 DEF Position
    <3> HIDE DEF b
    <3> QED
      BY <2>2, <2>5, <3>1, <3>2 DEF NotAbove
  <2> QED
    BY <2>2, <2>3, <2>4, <2>5
<1> QED
  BY <1>6, <1>7, <1>9

\* The patch of the highest priority among some of them.
HighestOf(naming) == CHOOSE e \in naming : \A d \in naming : NotAbove(d, e)

Naming(p, L) == {e \in Indices(L) : p \in Named(L[e[1]][e[2]])}

\* The highest priority is that of the last patch in the joined list.
LEMMA HighestIsLast ==
    ASSUME NEW L, AreLayers(L), NEW p, Naming(p, L) # {}
    PROVE  LET last == HighestOf(Naming(p, L))
           IN  /\ last \in Naming(p, L)
               /\ LastNaming(p, Joined(L), Len(Joined(L)), Position(L, last))
<1> DEFINE J == Joined(L)
           N == Len(J)
           K == {k \in 1..N : p \in Named(J[k])}
           last == HighestOf(Naming(p, L))
<1>1. /\ \A e \in Indices(L) : Position(L, e) \in 1..N /\ J[Position(L, e)] = L[e[1]][e[2]]
      /\ \A k \in 1..N : \E e \in Indices(L) : Position(L, e) = k
      /\ \A d, e \in Indices(L) : Position(L, d) <= Position(L, e) <=> NotAbove(d, e)
  BY Positions
<1>2. N \in Nat
  BY JoinSix DEF AreLayers
<1> HIDE DEF J, N, last
<1>3. \A e \in Naming(p, L) : e \in Indices(L) /\ Position(L, e) \in K
  BY <1>1 DEF Naming
<1>4. \A k \in K : \E e \in Naming(p, L) : Position(L, e) = k
  BY <1>1 DEF Naming
<1>5. K # {} /\ K \subseteq 0..N
  BY <1>2, <1>3
<1>6. PICK k \in K : \A j \in K : j <= k
  <2> HIDE DEF K
  <2> QED
    BY <1>2, <1>5, Largest
<1>7. PICK e \in Naming(p, L) : Position(L, e) = k
  BY <1>4
<1> HIDE DEF K
<1>8. \A d \in Naming(p, L) : NotAbove(d, e)
  BY <1>1, <1>3, <1>6, <1>7
<1>9. last \in Naming(p, L) /\ \A d \in Naming(p, L) : NotAbove(d, last)
  BY <1>8 DEF last, HighestOf
<1>10. \A j \in K : j <= Position(L, last)
  BY <1>1, <1>3, <1>4, <1>9
<1>11. LastNaming(p, J, N, Position(L, last))
  BY <1>3, <1>9, <1>10 DEF LastNaming, K
<1> QED
  BY <1>9, <1>11 DEF J, N, last

\* What becomes of a place the operator does not decide.
LEMMA FreePlaces ==
    ASSUME NEW n, IsNode(n), NEW c, IsCluster(c), c # None, NEW seen, AreMaps(seen), NEW cross,
           NEW versions \in VersionsOf, Failed \notin Configs
    PROVE  LET L == Layers(n, c, seen, cross)
               config == GenerateMachineConfig(n, versions, c, seen, cross)
               base == BaseConfig(n.role, c.version)
           IN  /\ config = Failed <=> \E e \in Indices(L) : L[e[1]][e[2]] \in {Failed, Malformed}
               /\ config # Failed =>
                    \A p : p # <<"type">> /\ p[1] \notin Decided(n.role) =>
                        LET last == HighestOf(Naming(p, L))
                            said == IF Naming(p, L) = {} THEN base ELSE L[last[1]][last[2]]
                        IN  At(p, config) = {e \in said : e[1] = p /\ e[2] # Deleted}
<1> DEFINE L == Layers(n, c, seen, cross)
           J == Joined(L)
           N == Len(J)
           base == BaseConfig(n.role, c.version)
           config == GenerateMachineConfig(n, versions, c, seen, cross)
           user == userConfig(n, c, seen, cross)
           used == IF versions = NoVersions
                   THEN makeDefaultKubernetesVersions(n.role, c.version) ELSE versions
<1>1. n.role \in Roles /\ c.version \in Versions
  BY DEF IsNode, IsCluster
<1>2. AreLayers(L)
  BY LayersAreMet DEF AreLayers
<1>3. base \in Configs /\ \A e \in base : e[2] # Deleted
  BY <1>1, BaseIsConfig
<1>4. used \in VersionsOf
  BY <1>1 DEF makeDefaultKubernetesVersions, VersionsOf
<1>5. user = addPatches(base, J)
  BY UserPatchesAreLayers DEF userConfig
<1>6. config = IF user = Failed THEN Failed ELSE operatorPatches(user, n.role, used)
  BY DEF GenerateMachineConfig
<1> HIDE DEF L, used, config, user, base
<1>7. J \in Seq(Met)
  BY <1>2, JoinSix DEF AreLayers
<1>8. N \in Nat /\ DOMAIN J = 1..N
  BY <1>7
<1> HIDE DEF J, N
<1>9. /\ \A e \in Indices(L) : Position(L, e) \in 1..N /\ J[Position(L, e)] = L[e[1]][e[2]]
      /\ \A k \in 1..N : \E e \in Indices(L) : Position(L, e) = k
  BY <1>2, Positions DEF J, N
<1>10. (\E i \in DOMAIN J : J[i] \in {Failed, Malformed})
         <=> \E e \in Indices(L) : L[e[1]][e[2]] \in {Failed, Malformed}
  BY <1>8, <1>9
<1>11. CASE \E i \in DOMAIN J : J[i] \in {Failed, Malformed}
  <2>1. config = Failed
    BY <1>5, <1>6, <1>11 DEF addPatches
  <2> QED
    BY <1>10, <1>11, <2>1 DEF L, config
<1>12. CASE \A i \in DOMAIN J : J[i] \notin {Failed, Malformed}
  <2>1. J \in Seq(Configs)
    BY <1>7, <1>12, UnfailedAreConfigs
  <2>2. user = PatchedBy(base, J)[N]
    BY <1>5, <1>12 DEF addPatches, N
  <2>3. Good(base, J, PatchedBy(base, J), N)
    BY <1>3, <2>1, PatchesApplied DEF N
  <2>4. user \in Configs
    BY <2>2, <2>3 DEF Good
  <2>5. user # Failed
    BY <2>4
  <2>6. config = operatorPatches(user, n.role, used)
    BY <1>6, <2>5
  <2>7. config \in Configs /\ config # Failed
    BY <1>1, <1>4, <2>4, <2>6, OperatorIsConfig
  <2>8. ASSUME NEW p, p # <<"type">>, p[1] \notin Decided(n.role)
        PROVE  LET last == HighestOf(Naming(p, L))
                   said == IF Naming(p, L) = {} THEN base ELSE L[last[1]][last[2]]
               IN  At(p, config) = {e \in said : e[1] = p /\ e[2] # Deleted}
    <3> DEFINE D == Decisions(user, n.role, used)
               last == HighestOf(Naming(p, L))
               said == IF Naming(p, L) = {} THEN base ELSE L[last[1]][last[2]]
    <3>1. /\ config = Patched(user, D)
          /\ D \in Configs
          /\ Named(D) = {<<"type">>} \union {PlaceOf(s, user) : s \in Decided(n.role)}
      BY <1>1, <1>4, <2>6, DecisionsAreConfig
    <3> HIDE DEF D, last
    <3>2. p \notin Named(D)
      BY <2>8, <3>1, PlaceOfSetting
    <3>3. At(p, config) = At(p, user)
      BY <2>4, <3>1, <3>2, PatchedAt
    <3>4. CASE Naming(p, L) = {}
      <4>1. \A k \in 1..N : p \notin Named(J[k])
        BY <1>9, <3>4 DEF Naming
      <4>2. At(p, user) = At(p, base)
        BY <2>2, <2>3, <4>1 DEF Good
      <4>3. At(p, base) = {e \in base : e[1] = p /\ e[2] # Deleted}
        BY <1>3 DEF At
      <4> QED
        BY <3>3, <3>4, <4>2, <4>3 DEF last
    <3>5. CASE Naming(p, L) # {}
      <4> DEFINE k == Position(L, last)
      <4>1. last \in Naming(p, L) /\ LastNaming(p, J, N, k)
        BY <1>2, <3>5, HighestIsLast DEF last, J, N
      <4>2. last \in Indices(L)
        BY <4>1 DEF Naming
      <4>3. k \in 1..N /\ J[k] = L[last[1]][last[2]]
        BY <1>9, <4>2
      <4> HIDE DEF k
      <4>4. At(p, user) = {e \in At(p, J[k]) : e[2] # Deleted}
        BY <2>2, <2>3, <4>1, <4>3 DEF Good
      <4>5. {e \in At(p, J[k]) : e[2] # Deleted} = {e \in J[k] : e[1] = p /\ e[2] # Deleted}
        BY DEF At
      <4>6. said = J[k]
        BY <3>5, <4>3
      <4> HIDE DEF said
      <4>7. At(p, config) = {e \in said : e[1] = p /\ e[2] # Deleted}
        BY <3>3, <4>4, <4>5, <4>6
      <4> QED
        BY <4>7 DEF said, last
    <3> QED
      BY <3>4, <3>5
  <2> QED
    BY <1>10, <1>12, <2>7, <2>8 DEF L, config, base
<1> QED
  BY <1>11, <1>12

\* The lists by priority are the layers.
LEMMA ByPriorityAreLayers ==
    ASSUME NEW n, IsNode(n), NEW c
    PROVE  ByPriority(n, c) = Layers(n, c, mapsSeen, crossNamespace)
BY SMTT(30) DEF ByPriority, Layers, RoleLists, IsNode, Roles

\* The invariant gives LastPatchWins.
LEMMA InvPatches ==
    ASSUME Failed \notin Configs
    PROVE  ConfigInv => LastPatchWins
<1> SUFFICES ASSUME ConfigInv, worker.pc = "generate" /\ clusterSeen # None
             PROVE  LastPatchWins
  BY DEF LastPatchWins
<1> DEFINE config == GenerateMachineConfig(worker.node, worker.status.versions, clusterSeen,
                                           mapsSeen, crossNamespace)
           given == ByPriority(worker.node, clusterSeen)
           base == BaseConfig(worker.node.role, clusterSeen.version)
<1>1. /\ IsNode(worker.node) /\ IsCluster(clusterSeen) /\ AreMaps(mapsSeen)
      /\ worker.status.versions \in VersionsOf
  BY DEF ConfigInv, WorkerInv, StatusInv, Objects
<1>2. given = Layers(worker.node, clusterSeen, mapsSeen, crossNamespace)
  BY <1>1, ByPriorityAreLayers
<1>3. /\ config = Failed <=>
            \E e \in Indices(given) : given[e[1]][e[2]] \in {Failed, Malformed}
      /\ config # Failed =>
            \A p : p # <<"type">> /\ p[1] \notin Decided(worker.node.role) =>
                LET last == HighestOf(Naming(p, given))
                    said == IF Naming(p, given) = {} THEN base ELSE given[last[1]][last[2]]
                IN  At(p, config) = {e \in said : e[1] = p /\ e[2] # Deleted}
  BY <1>1, <1>2, FreePlaces
<1> HIDE DEF config, given, base
<1> QED
  BY <1>3, ZenonT(40) DEF LastPatchWins, config, given, base, Indices, HighestOf, NotAbove, Naming, At

\* Whatever lists users write, of any length, GenerateMachineConfig fails if and
\* only if a patch cannot be had or parsed, and otherwise the patch of the highest
\* priority that names a place decides it.  Failed stands for an error: it is
\* only assumed not to be a configuration.
THEOREM PatchesByPriority ==
    ASSUME Failed \notin Configs PROVE Spec => []LastPatchWins
BY InvAlways, InvPatches, PTL

=============================================================================
