-------------------------- MODULE NodeMachine_proofs --------------------------
(***************************************************************************)
(* Proofs about NodeMachine: types, what Done means for a reboot and for   *)
(* every other operation, that machines are drained before they are told   *)
(* to reboot, and that the module implements NodeOps.                      *)
(***************************************************************************)
EXTENDS NodeMachine, TLAPS

-----------------------------------------------------------------------------
(***************************************************************************)
(* Types.                                                                  *)
(***************************************************************************)

\* A boot ID that a handler may leave in the status.
BootIDs == {status.bootID, machine.boot}

Workers == [busy : BOOLEAN, stale : BOOLEAN, op : Operations]

\* The end of a handler: what it writes has its types, the operation keeps its
\* type and component, and a boot ID in the status is old or the machine's.
EndsWell ==
    /\ worker' \in Workers
    /\ op' \in Operations
    /\ status' \in Statuses
    /\ began' \in Beginnings
    /\ faults' \in Nat
    /\ ~worker'.busy
    /\ op'.type = op.type
    /\ op'.component = op.component
    /\ op' = op \/ op'.own = (op.own /\ ~worker.stale)
    /\ began'.boot = began.boot
    /\ status'.bootID \in BootIDs

\* What a handler does to the machine and its node; it does not boot it.
NodeKept ==
    /\ machine' \in Machines
    /\ machine'.boot = machine.boot
    /\ cordoned' \in BOOLEAN
    /\ unevicted' \in BOOLEAN

\* The worker between two reconciles.
LEMMA IdleTypes == IdleWorker \in Workers /\ ~IdleWorker.busy
BY DEF IdleWorker, Workers, NoOperation, Operations, Phases

\* Whatever a handler writes last, or was cut off from writing, ends it well.
LEMMA EndTypes ==
    ASSUME MachineTypeOK, NEW p \in Phases, NEW first \in Statuses, NEW last \in Statuses,
           first.bootID \in BootIDs, last.bootID \in BootIDs, End(p, first, last)
    PROVE  EndsWell
<1>1. worker' \in Workers /\ ~worker'.busy
  BY IdleTypes DEF End
<1>2. /\ op' \in Operations /\ op'.type = op.type /\ op'.component = op.component
      /\ op' = op \/ op'.own = (op.own /\ ~worker.stale)
  <2>1. CASE op' = op
    BY <2>1 DEF MachineTypeOK
  <2>2. CASE op' = [op EXCEPT !.phase = p, !.late = FALSE, !.own = op.own /\ ~worker.stale]
    BY <2>2 DEF MachineTypeOK, Operations
  <2> QED
    BY <2>1, <2>2 DEF End
<1>3. status' \in Statuses /\ status'.bootID \in BootIDs
  BY DEF End, MachineTypeOK, BootIDs
<1>4. began' \in Beginnings /\ began'.boot = began.boot
  BY DEF End, MachineTypeOK, Beginnings
<1>5. faults' \in Nat
  BY DEF End, MachineTypeOK
<1> QED
  BY <1>1, <1>2, <1>3, <1>4, <1>5 DEF EndsWell

\* The same for a write of a phase alone.
LEMMA WriteTypes ==
    ASSUME MachineTypeOK, NEW p \in Phases, Write(p)
    PROVE  EndsWell
BY EndTypes DEF Write, MachineTypeOK, BootIDs

\* The same for a handler that writes nothing.
LEMMA RequeueTypes ==
    ASSUME MachineTypeOK, Requeue
    PROVE  EndsWell
BY IdleTypes DEF MachineTypeOK, Requeue, EndsWell, BootIDs

\* The same for a failure.
LEMMA FailTypes ==
    ASSUME MachineTypeOK, Fail
    PROVE  EndsWell /\ NodeKept
BY WriteTypes DEF MachineTypeOK, Fail, Phases, NodeKept

\* A step of a drain keeps the types.
LEMMA DrainTypes ==
    ASSUME MachineTypeOK, NEW p \in Phases, Drain(p)
    PROVE  EndsWell /\ NodeKept
BY WriteTypes, RequeueTypes, FailTypes DEF Drain, MachineTypeOK, NodeKept

\* What Talos makes of a machine is a machine.
LEMMA MachineTypes ==
    ASSUME MachineTypeOK
    PROVE  /\ Applied(Expected) \in Machines
           /\ Applied(Expected).boot = machine.boot
           /\ Rebooting(machine) \in Machines
           /\ Rebooting(machine).boot = machine.boot
           /\ Installed(machine) \in Machines
           /\ Installed(machine).boot = machine.boot
           /\ Rebooting(Installed(machine)) \in Machines
           /\ Rebooting(Installed(machine)).boot = machine.boot
           /\ Expected \in Configs
           /\ Refreshed(status) \in Statuses
<1>1. Expected \in Configs
  BY DEF Expected, ExpectedOf, Configs, MachineTypeOK, Statuses
<1>2. Applied(Expected) \in Machines /\ Applied(Expected).boot = machine.boot
  BY <1>1 DEF Applied, MachineTypeOK, Machines
<1>3. \A m \in Machines : /\ Rebooting(m) \in Machines /\ Rebooting(m).boot = m.boot
                           /\ Installed(m) \in Machines /\ Installed(m).boot = m.boot
  BY DEF Rebooting, Installed, MachineTypeOK, Machines
<1>4. Refreshed(status) \in Statuses
  <2>1. InSync(status) \in BOOLEAN /\ Drifted(status) \in BOOLEAN
    BY DEF InSync, Drifted
  <2> QED
    BY <2>1 DEF Refreshed, MachineTypeOK, Statuses, Machines
<1> QED
  BY <1>1, <1>2, <1>3, <1>4 DEF MachineTypeOK

\* Every handler ends well and keeps the types of the machine.
LEMMA RebootTypes ==
    ASSUME MachineTypeOK, HandleReboot
    PROVE  EndsWell /\ NodeKept
BY WriteTypes, RequeueTypes, FailTypes, DrainTypes, MachineTypes
   DEF HandleReboot, Quietly, Rebooted, doNodeUncordon, MachineTypeOK, NodeKept, Phases

\* The same for the upgrade up to the installation.
LEMMA UpgradePrepareTypes ==
    ASSUME MachineTypeOK, UpgradePrepare
    PROVE  EndsWell /\ NodeKept
BY WriteTypes, DrainTypes DEF UpgradePrepare, Quietly, MachineTypeOK, NodeKept, Phases

\* The same for the installation.
LEMMA UpgradeInstallTypes ==
    ASSUME MachineTypeOK, UpgradeInstall
    PROVE  EndsWell /\ NodeKept
BY WriteTypes, MachineTypes DEF UpgradeInstall, MachineTypeOK, NodeKept, Phases

\* The same for the verification, which writes the boot ID it has seen.
LEMMA UpgradeVerifyTypes ==
    ASSUME MachineTypeOK, UpgradeVerify
    PROVE  EndsWell /\ NodeKept
<1> DEFINE booted == [status EXCEPT !.bootID = machine.boot]
<1>1. booted \in Statuses /\ booted.bootID \in BootIDs
  BY DEF BootIDs, MachineTypeOK, Statuses, Machines
<1>2. ASSUME End("UpgradeUncordon", booted, booted) PROVE EndsWell
  BY <1>1, <1>2, EndTypes DEF Phases
<1> QED
  BY <1>2, RequeueTypes, FailTypes
     DEF UpgradeVerify, Rebooted, Quietly, MachineTypeOK, NodeKept

\* The same for the end of the upgrade.
LEMMA UpgradeUncordonTypes ==
    ASSUME MachineTypeOK, UpgradeUncordon
    PROVE  EndsWell /\ NodeKept
BY WriteTypes DEF UpgradeUncordon, doNodeUncordon, MachineTypeOK, NodeKept, Phases

\* The same for the handler of an upgrade.
LEMMA UpgradeTypes ==
    ASSUME MachineTypeOK, HandleUpgrade
    PROVE  EndsWell /\ NodeKept
BY FailTypes, UpgradePrepareTypes, UpgradeInstallTypes, UpgradeVerifyTypes, UpgradeUncordonTypes
   DEF HandleUpgrade

\* The same for the handler of an Apply.
LEMMA ApplyTypes ==
    ASSUME MachineTypeOK, HandleApply
    PROVE  EndsWell /\ NodeKept
<1>1. ASSUME ApplyPending PROVE EndsWell /\ NodeKept
  <2> DEFINE cleared == [status EXCEPT !.drift = FALSE]
  <2>1. cleared \in Statuses /\ cleared.bootID \in BootIDs
    BY DEF BootIDs, MachineTypeOK, Statuses
  <2>2. ASSUME NEW p \in Phases, End(p, cleared, cleared) PROVE EndsWell
    BY <2>1, <2>2, EndTypes
  <2> QED
    BY <1>1, <2>2 DEF ApplyPending, Quietly, MachineTypeOK, NodeKept, Phases
<1>2. ASSUME ApplyApplying PROVE EndsWell /\ NodeKept
  <2> DEFINE hashed == [status EXCEPT !.hash = HashOf(Expected)]
  <2>1. hashed \in Statuses /\ hashed.bootID \in BootIDs /\ status.bootID \in BootIDs
    BY MachineTypes DEF BootIDs, MachineTypeOK, Statuses, HashOf
  <2>2. ASSUME NEW p \in Phases, End(p, status, hashed) PROVE EndsWell
    BY <2>1, <2>2, EndTypes DEF MachineTypeOK
  <2> QED
    BY <1>2, <2>2, WriteTypes, MachineTypes
       DEF ApplyApplying, Quietly, MachineTypeOK, NodeKept, Phases
<1>3. ASSUME ApplyVerifying PROVE EndsWell /\ NodeKept
  <2> DEFINE synced == [status EXCEPT !.inSync = TRUE]
  <2>1. synced \in Statuses /\ synced.bootID \in BootIDs
    BY DEF BootIDs, MachineTypeOK, Statuses
  <2>2. ASSUME End("Done", synced, synced) PROVE EndsWell
    BY <2>1, <2>2, EndTypes DEF Phases
  <2> QED
    BY <1>3, <2>2, RequeueTypes, FailTypes
       DEF ApplyVerifying, Rebooted, Quietly, uncordonUnlessUnsched, doNodeUncordon,
           MachineTypeOK, NodeKept
<1>4. ASSUME Quietly(Requeue) PROVE EndsWell /\ NodeKept
  BY <1>4, RequeueTypes DEF Quietly, MachineTypeOK, NodeKept
<1> QED
  BY <1>1, <1>2, <1>3, <1>4, FailTypes, DrainTypes, UpgradePrepareTypes, UpgradeInstallTypes,
     UpgradeVerifyTypes, UpgradeUncordonTypes DEF HandleApply, Phases

\* The same for the handler of a component upgrade.
LEMMA ComponentTypes ==
    ASSUME MachineTypeOK, HandleComponentUpgrade
    PROVE  EndsWell /\ NodeKept
<1>1. ASSUME ComponentPending PROVE EndsWell /\ NodeKept
  <2> DEFINE bumped == [status EXCEPT !.kube[read.component] = spec.version]
  <2>1. bumped \in Statuses /\ bumped.bootID \in BootIDs
    BY DEF BootIDs, MachineTypeOK, Statuses
  <2>2. ASSUME NEW p \in Phases, End(p, bumped, bumped) PROVE EndsWell
    BY <2>1, <2>2, EndTypes
  <2> QED
    BY <1>1, <2>2, FailTypes DEF ComponentPending, Quietly, MachineTypeOK, NodeKept, Phases
<1>2. ASSUME ComponentApply PROVE EndsWell /\ NodeKept
  BY <1>2, WriteTypes, MachineTypes DEF ComponentApply, MachineTypeOK, NodeKept, Phases
<1>3. ASSUME ComponentReboot PROVE EndsWell /\ NodeKept
  BY <1>3, WriteTypes, RequeueTypes, FailTypes, MachineTypes
     DEF ComponentReboot, Quietly, MachineTypeOK, NodeKept, Phases
<1>4. ASSUME ComponentVerify PROVE EndsWell /\ NodeKept
  BY <1>4, WriteTypes, RequeueTypes, FailTypes
     DEF ComponentVerify, Quietly, uncordonUnlessUnsched, doNodeUncordon, MachineTypeOK,
         NodeKept, Phases
<1> QED
  BY <1>1, <1>2, <1>3, <1>4, FailTypes, DrainTypes DEF HandleComponentUpgrade, Phases

\* All handlers together.
LEMMA HandleEndsWell ==
    ASSUME MachineTypeOK, Handle
    PROVE  EndsWell /\ NodeKept
<1>1. ASSUME Quietly(Requeue) PROVE EndsWell /\ NodeKept
  BY <1>1, RequeueTypes DEF Quietly, MachineTypeOK, NodeKept
<1> QED
  BY <1>1, RebootTypes, UpgradeTypes, ApplyTypes, ComponentTypes DEF Handle

\* The initial states are well typed.
LEMMA InitTypes == Init => MachineTypeOK
<1> SUFFICES ASSUME Init PROVE MachineTypeOK
  OBVIOUS
<1>1. PICK u \in Cfgs, r \in Releases, v \in Versions :
        LET cfg == [user |-> u, release |-> r, kube |-> [c \in Components |-> v]]
        IN  /\ spec = [user |-> u, release |-> r, version |-> v]
            /\ machine = [boot |-> 0, up |-> TRUE, rebooting |-> FALSE, running |-> cfg,
                          disk |-> cfg, release |-> r, installed |-> r]
            /\ status = [bootID |-> 0, hash |-> NoHash, kube |-> cfg.kube,
                         inSync |-> TRUE, drift |-> FALSE, unsched |-> FALSE]
  BY DEF Init
<1>2. machine \in Machines /\ machine.release = r
  BY <1>1 DEF Machines, Configs
<1>3. status \in Statuses
  BY <1>1 DEF Statuses, NoHash
<1>4. op \in Operations /\ began \in Beginnings
  BY <1>2 DEF Init, NoOperation, Operations, Beginnings, Phases
<1> QED
  BY <1>1, <1>2, <1>3, <1>4, IdleTypes DEF Init, MachineTypeOK, Workers

\* Every step keeps the types.
LEMMA NextTypes == MachineTypeOK /\ [Next]_vars => MachineTypeOK'
<1> SUFFICES ASSUME MachineTypeOK, [Next]_vars PROVE MachineTypeOK'
  OBVIOUS
<1>1. CASE Refresh
  BY <1>1, MachineTypes DEF Refresh, MachineTypeOK
<1>2. CASE Fetch
  BY <1>2, MachineTypes DEF Fetch, MachineTypeOK, Operations
<1>3. CASE Handle
  <2>1. EndsWell /\ NodeKept
    BY <1>3, HandleEndsWell
  <2> QED
    BY <1>3, <2>1 DEF Handle, EndsWell, NodeKept, MachineTypeOK, Workers
<1>4. CASE Elapse
  BY <1>4 DEF Elapse, MachineTypeOK, Operations
<1>5. ASSUME NEW t \in ModelledTypes, NEW c \in Components \union {"none"}, StartOp(t, c)
      PROVE  MachineTypeOK'
  <2>1. op' \in Operations
    BY <1>5 DEF StartOp, Operations, Phases
  <2>2. began' \in Beginnings
    BY <1>5 DEF StartOp, Beginnings, MachineTypeOK, Machines, isOperationComplete, NothingPending
  <2>3. worker' \in Workers
    BY <1>5 DEF StartOp, MachineTypeOK, Workers
  <2> QED
    BY <1>5, <2>1, <2>2, <2>3 DEF StartOp, MachineTypeOK, Workers
<1>6. CASE Schedule \/ GoDown \/ ComeUp
  <2>1. machine' \in Machines
    <3>1. CASE Schedule \/ GoDown
      BY <3>1 DEF Schedule, GoDown, MachineTypeOK, Machines
    <3>2. CASE ComeUp
      <4>1. machine \in Machines /\ machine.boot + 1 \in Nat
        BY DEF MachineTypeOK, Machines
      <4>2. [machine EXCEPT !.up = TRUE, !.rebooting = FALSE, !.boot = machine.boot + 1] \in Machines
        BY <4>1 DEF Machines
      <4>3. ASSUME NEW m \in Machines
            PROVE  [m EXCEPT !.running = machine.disk, !.release = machine.installed] \in Machines
        BY <4>1 DEF Machines
      <4>4. machine' = [[machine EXCEPT !.up = TRUE, !.rebooting = FALSE, !.boot = machine.boot + 1]
                           EXCEPT !.running = machine.disk, !.release = machine.installed]
        BY <3>2, <4>1 DEF ComeUp, Machines
      <4> QED
        BY <4>2, <4>3, <4>4
    <3> QED
      BY <1>6, <3>1, <3>2
  <2>2. unevicted' \in BOOLEAN
    BY <1>6 DEF Schedule, GoDown, ComeUp, MachineTypeOK
  <2> QED
    BY <1>6, <2>1, <2>2 DEF Schedule, GoDown, ComeUp, MachineTypeOK
<1>7. ASSUME NEW e, Disturb(e)
      PROVE  /\ began' \in Beginnings /\ events' \in Nat
             /\ UNCHANGED <<status, op, worker, requests, faults>>
  <2>1. began' \in Beginnings
    BY <1>7 DEF Disturb, MachineTypeOK, Beginnings
  <2> QED
    BY <1>7, <2>1 DEF Disturb, MachineTypeOK
<1>8. CASE EditSpec \/ SetVersion
  <2>1. spec' \in [user : Cfgs, release : Releases, version : Versions]
    BY <1>8 DEF EditSpec, SetVersion, MachineTypeOK
  <2> QED
    BY <1>7, <1>8, <2>1 DEF EditSpec, SetVersion, MachineTypeOK
<1>9. CASE HandEdit
  <2>1. PICK u \in Cfgs :
            LET new == [machine.running EXCEPT !.user = u]
            IN  machine' = [machine EXCEPT !.running = new, !.disk = new]
    BY <1>9 DEF HandEdit
  <2>2. [machine.running EXCEPT !.user = u] \in Configs
    BY DEF MachineTypeOK, Machines, Configs
  <2>3. machine' \in Machines
    BY <2>1, <2>2 DEF MachineTypeOK, Machines
  <2> QED
    BY <1>7, <1>9, <2>3 DEF HandEdit, MachineTypeOK
<1>10. CASE Cordon \/ Outage
  <2>1. machine' \in Machines
    BY <1>10 DEF Cordon, Outage, MachineTypeOK, Machines
  <2> QED
    BY <1>7, <1>10, <2>1 DEF Cordon, Outage, MachineTypeOK
<1>11. CASE UNCHANGED vars
  BY <1>11 DEF vars, MachineTypeOK
<1> QED
  BY <1>1, <1>2, <1>3, <1>4, <1>5, <1>6, <1>7, <1>8, <1>9, <1>10, <1>11, MachineAssumption
     DEF Next, ModelledTypes

\* Every reachable state is well typed, for any patches, releases, versions and
\* components, whatever disturbs the operations.
THEOREM MachineTypeCorrect == Spec => []MachineTypeOK
BY InitTypes, NextTypes, PTL DEF Spec

\* However a handler ends, the worker is free again.
LEMMA HandleEndsIdle ==
    ASSUME Handle
    PROVE  worker' = IdleWorker
<1>1. /\ \A p, first, last : End(p, first, last) => worker' = IdleWorker
      /\ Requeue => worker' = IdleWorker
  BY DEF End, Requeue
<1>2. /\ \A p : Write(p) => worker' = IdleWorker
      /\ Fail => worker' = IdleWorker
      /\ \A p : Drain(p) => worker' = IdleWorker
  BY <1>1 DEF Write, Fail, Drain
<1>3. ASSUME UpgradePrepare \/ UpgradeInstall \/ UpgradeVerify \/ UpgradeUncordon
      PROVE  worker' = IdleWorker
  BY <1>1, <1>2, <1>3 DEF UpgradePrepare, UpgradeInstall, UpgradeVerify, UpgradeUncordon, Quietly,
                          Rebooted
<1>4. ASSUME HandleReboot PROVE worker' = IdleWorker
  BY <1>1, <1>2, <1>4 DEF HandleReboot, Quietly, Rebooted
<1>5. ASSUME HandleApply PROVE worker' = IdleWorker
  BY <1>1, <1>2, <1>3, <1>5 DEF HandleApply, ApplyPending, ApplyApplying, ApplyVerifying, Quietly,
                                Rebooted
<1>6. ASSUME HandleComponentUpgrade PROVE worker' = IdleWorker
  BY <1>1, <1>2, <1>6 DEF HandleComponentUpgrade, ComponentPending, ComponentApply,
                          ComponentReboot, ComponentVerify, Quietly
<1> QED
  BY <1>1, <1>2, <1>3, <1>4, <1>5, <1>6 DEF Handle, HandleUpgrade, Quietly

-----------------------------------------------------------------------------
(***************************************************************************)
(* What a handler works on.                                                *)
(***************************************************************************)

\* The operation is the one that the handler has read.
Current ==
    /\ read.type = op.type /\ read.component = op.component
    /\ read.phase = op.phase /\ read.own = op.own

\* An operation stored under a handler is Pending for as long as that works.
Snapshot ==
    worker.busy =>
        /\ ~worker.stale => Current
        /\ worker.stale => op.phase = "Pending"

\* Every step keeps it.
LEMMA NextSnapshot == MachineTypeOK /\ Snapshot /\ [Next]_vars => Snapshot'
<1> SUFFICES ASSUME MachineTypeOK, Snapshot, [Next]_vars PROVE Snapshot'
  OBVIOUS
<1>1. CASE Handle
  BY <1>1, HandleEndsIdle, IdleTypes DEF Snapshot
<1>2. CASE Fetch
  BY <1>2 DEF Fetch, Snapshot, Current, read
<1>3. CASE Elapse
  BY <1>3 DEF Elapse, Snapshot, Current, read, MachineTypeOK, Operations
<1>4. ASSUME NEW t, NEW c, StartOp(t, c) PROVE Snapshot'
  BY <1>4 DEF StartOp, Snapshot, MachineTypeOK
<1>5. CASE \/ Refresh \/ Schedule \/ GoDown \/ ComeUp
           \/ EditSpec \/ SetVersion \/ HandEdit \/ Cordon \/ Outage \/ UNCHANGED vars
  <2>1. UNCHANGED <<op, worker>>
    BY <1>5 DEF Refresh, Schedule, GoDown, ComeUp, EditSpec, SetVersion, HandEdit, Cordon, Outage,
                Disturb, vars
  <2> QED
    BY <2>1 DEF Snapshot, Current, read
<1> QED
  BY <1>1, <1>2, <1>3, <1>4, <1>5 DEF Next

\* It holds initially.
LEMMA InitSnapshot == Init => Snapshot
BY IdleTypes DEF Init, Snapshot

-----------------------------------------------------------------------------
(***************************************************************************)
(* A reboot that is Done.                                                  *)
(***************************************************************************)

\* A reboot whose handler has seen the status refreshed.
RebootUnderWay ==
    /\ op.type = "Reboot" /\ op.own
    /\ \/ op.phase \in {"Draining", "Applying", "Verifying"}
       \/ op.phase = "Pending" /\ worker.busy /\ ~worker.stale

\* RebootDoneMeansRebooted is not inductive: what makes the comparison of boot
\* IDs sound is that the one in the status is the machine's at some moment
\* after the operation began and before it was told to reboot.
BootInv ==
    /\ MachineTypeOK
    /\ Snapshot
    /\ status.bootID <= machine.boot
    /\ began.boot <= machine.boot
    /\ RebootUnderWay => began.boot <= status.bootID
    /\ RebootDoneMeansRebooted

\* The steps of a reboot keep the boot ID of the status, and it is Done only
\* when the machine has another.
LEMMA RebootSteps ==
    ASSUME MachineTypeOK, Current, HandleReboot
    PROVE  /\ status' = status
           /\ op.phase \in {"Pending", "Draining", "Applying", "Verifying"}
           /\ op'.phase = "Done" => machine.boot # status.bootID
<1>1. ASSUME NEW p, Write(p)
      PROVE  status' = status /\ op'.phase \in {p, op.phase}
  BY <1>1 DEF Write, End, MachineTypeOK, Operations
<1>2. ASSUME Requeue PROVE status' = status /\ op' = op
  BY <1>2 DEF Requeue
<1>3. op.phase \in {"Pending", "Draining", "Applying", "Verifying"}
  BY DEF HandleReboot, Current
<1>4. status' = status
  BY <1>1, <1>2 DEF HandleReboot, Quietly, Drain, Fail, Rebooted
<1>5. op'.phase = "Done" => machine.boot # status.bootID
  BY <1>1, <1>2, <1>3 DEF HandleReboot, Quietly, Drain, Fail, Rebooted, hasNodeRebootedYet
<1> QED
  BY <1>3, <1>4, <1>5

\* Every step keeps the invariant about boot IDs.
LEMMA NextBoot == BootInv /\ [Next]_vars => BootInv'
<1> SUFFICES ASSUME BootInv, [Next]_vars PROVE BootInv'
  OBVIOUS
<1>1. MachineTypeOK' /\ Snapshot'
  BY NextTypes, NextSnapshot DEF BootInv
<1>2. /\ status.bootID \in Nat /\ machine.boot \in Nat /\ began.boot \in Nat
      /\ MachineTypeOK
  BY DEF BootInv, MachineTypeOK, Statuses, Machines, Beginnings
<1>3. CASE Refresh
  BY <1>1, <1>2, <1>3 DEF Refresh, Refreshed, isOperationComplete, BootInv, RebootUnderWay,
                          RebootDoneMeansRebooted, MachineTypeOK, Statuses
<1>4. CASE Fetch
  <2>1. /\ UNCHANGED <<machine, op, began>>
        /\ op.phase = "Pending" => status'.bootID = machine.boot
        /\ op.phase # "Pending" => status' = status
    BY <1>2, <1>4 DEF Fetch, Refreshed, MachineTypeOK, Statuses
  <2> QED
    BY <1>1, <1>2, <2>1 DEF BootInv, RebootUnderWay, RebootDoneMeansRebooted
<1>5. CASE Handle
  <2>1. EndsWell /\ NodeKept
    BY <1>2, <1>5, HandleEndsWell
  <2>2. status'.bootID <= machine'.boot /\ began'.boot <= machine'.boot
    BY <1>2, <2>1 DEF BootInv, EndsWell, NodeKept, BootIDs
  <2>3. CASE worker.stale
    <3>1. op.phase = "Pending" /\ (op' = op \/ ~op'.own)
      BY <1>5, <2>1, <2>3 DEF Handle, BootInv, Snapshot, EndsWell
    <3> QED
      BY <1>1, <2>1, <2>2, <3>1 DEF BootInv, EndsWell, RebootUnderWay, RebootDoneMeansRebooted
  <2>4. CASE ~worker.stale /\ op.type = "Reboot" /\ op.own
    <3>1. worker.busy /\ Current /\ read.type = "Reboot"
      BY <1>5, <2>4 DEF Handle, BootInv, Snapshot, Current
    <3>2. CASE HandleReboot
      <4>1. RebootUnderWay
        BY <1>2, <2>4, <3>1, <3>2, RebootSteps DEF RebootUnderWay
      <4>2. began'.boot <= status'.bootID
        BY <1>2, <2>1, <3>1, <3>2, <4>1, RebootSteps DEF BootInv, EndsWell
      <4>3. RebootDoneMeansRebooted'
        BY <1>2, <2>1, <3>1, <3>2, <4>1, RebootSteps
           DEF BootInv, EndsWell, NodeKept, RebootDoneMeansRebooted
      <4> QED
        BY <1>1, <2>2, <4>2, <4>3 DEF BootInv
    <3>3. CASE Quietly(Requeue)
      <4>1. UNCHANGED <<op, status, began, machine>>
        BY <3>3 DEF Quietly, Requeue
      <4> QED
        BY <1>1, <2>1, <4>1 DEF BootInv, EndsWell, RebootUnderWay, RebootDoneMeansRebooted
    <3> QED
      BY <1>5, <3>1, <3>2, <3>3 DEF Handle
  <2>5. CASE ~(op.type = "Reboot" /\ op.own)
    <3>1. ~(op'.type = "Reboot" /\ op'.own)
      BY <2>1, <2>5 DEF EndsWell
    <3> QED
      BY <1>1, <2>2, <3>1 DEF BootInv, RebootUnderWay, RebootDoneMeansRebooted
  <2> QED
    BY <2>3, <2>4, <2>5
<1>6. CASE Elapse
  BY <1>1, <1>6 DEF Elapse, BootInv, RebootUnderWay, RebootDoneMeansRebooted, MachineTypeOK,
                    Operations
<1>7. ASSUME NEW t, NEW c, StartOp(t, c) PROVE BootInv'
  BY <1>1, <1>2, <1>7 DEF StartOp, BootInv, RebootUnderWay, RebootDoneMeansRebooted, MachineTypeOK
<1>8. CASE Schedule \/ GoDown \/ ComeUp
  <2>1. machine'.boot \in Nat /\ machine.boot <= machine'.boot
    <3>1. machine'.boot \in {machine.boot, machine.boot + 1}
      BY <1>2, <1>8 DEF Schedule, GoDown, ComeUp, MachineTypeOK, Machines
    <3> QED
      BY <1>2, <3>1
  <2>2. UNCHANGED <<status, op, worker, began>>
    BY <1>8 DEF Schedule, GoDown, ComeUp
  <2> QED
    BY <1>1, <1>2, <2>1, <2>2 DEF BootInv, RebootUnderWay, RebootDoneMeansRebooted
<1>9. CASE EditSpec \/ SetVersion \/ HandEdit \/ Cordon \/ Outage
  <2>1. machine'.boot = machine.boot /\ began'.boot = began.boot
    <3>1. began'.boot = began.boot
      BY <1>2, <1>9 DEF EditSpec, SetVersion, HandEdit, Cordon, Outage, Disturb, MachineTypeOK,
                        Beginnings
    <3>2. machine'.boot = machine.boot
      BY <1>2, <1>9 DEF EditSpec, SetVersion, HandEdit, Cordon, Outage, MachineTypeOK, Machines
    <3> QED
      BY <3>1, <3>2
  <2>2. UNCHANGED <<status, op, worker>>
    BY <1>9 DEF EditSpec, SetVersion, HandEdit, Cordon, Outage, Disturb
  <2> QED
    BY <1>1, <1>2, <2>1, <2>2 DEF BootInv, RebootUnderWay, RebootDoneMeansRebooted
<1>10. CASE UNCHANGED vars
  BY <1>1, <1>10 DEF vars, BootInv, RebootUnderWay, RebootDoneMeansRebooted
<1> QED
  BY <1>3, <1>4, <1>5, <1>6, <1>7, <1>8, <1>9, <1>10 DEF Next

\* It holds initially.
LEMMA InitBoot == Init => BootInv
<1> SUFFICES ASSUME Init PROVE BootInv
  OBVIOUS
<1>1. machine.boot = 0 /\ status.bootID = 0 /\ began.boot = 0 /\ op.type = "None"
  BY DEF Init, NoOperation
<1> QED
  BY <1>1, InitTypes, InitSnapshot DEF BootInv, RebootUnderWay, RebootDoneMeansRebooted

\* A reboot operation is Done only if the machine was booted after the
\* operation began, whatever crashes and outages came between, and also when it
\* was stored under the handler of another operation: unless that one's phase
\* was written on it.
THEOREM RebootsAreReal == Spec => []RebootDoneMeansRebooted
<1>1. BootInv => RebootDoneMeansRebooted
  BY DEF BootInv
<1> QED
  BY <1>1, InitBoot, NextBoot, PTL DEF Spec

-----------------------------------------------------------------------------
(***************************************************************************)
(* Drained before a reboot.                                                *)
(***************************************************************************)

\* The phases between a drain and the reboot it is for.
BetweenDrainAndReboot(o) ==
    \/ o.type = "Reboot" /\ o.phase = "Applying"
    \/ o.phase \in {"UpgradePreflight", "Upgrade113ImagePull", "Upgrade113Upgrade",
                    "UpgradeLegacyUpgrade", "KubeletReboot"}
    \/ /\ o.type = "KubernetesComponentUpgrade"
       /\ Longhorn /\ o.component = "kubelet"
       /\ o.phase = "Applying"

Drained(o) == BetweenDrainAndReboot(o) => cordoned /\ ~unevicted

\* The operation that is handled is the one that was read.
Handling == MachineTypeOK /\ Current /\ Drained(op)

\* That no pod is left unevicted is not inductive: none comes because the node
\* is cordoned until the phase after the reboot.  It has to be so for the
\* operation that a handler has read as well, when another took its place.
DrainInv ==
    /\ MachineTypeOK
    /\ Snapshot
    /\ op.own => Drained(op)
    /\ worker.busy /\ read.own => Drained(read)

\* Ends of handlers by what becomes of the operation.
LEMMA Ends ==
    ASSUME MachineTypeOK, NEW p, NEW first, NEW last, End(p, first, last)
    PROVE  /\ op' = op \/ op'.phase = p
           /\ op'.type = op.type
           /\ op'.component = op.component
BY DEF End, MachineTypeOK, Operations

\* The same for a write of a phase alone.
LEMMA Writes ==
    ASSUME MachineTypeOK, NEW p, Write(p)
    PROVE  /\ op' = op \/ op'.phase = p
           /\ op'.type = op.type
           /\ op'.component = op.component
BY Ends DEF Write

\* A handler that leaves the node alone and writes a phase that needs no drain
\* or comes after one that did.
LEMMA QuietlyDrained ==
    ASSUME Handling, NEW p, Write(p) \/ Requeue, UNCHANGED <<cordoned, unevicted>>,
           \/ p \in {"Done", "Failed", "Draining", "Verifying", "UpgradeDrain", "ApplyDrain",
                     "VerifyReboot", "UpgradeVerifying", "UpgradeUncordon", "ApplyVerifying"}
           \/ BetweenDrainAndReboot(op)
           \/ p = "Applying" /\ op.type = "Apply"
    PROVE  Drained(op)'
BY Writes DEF Handling, Drained, BetweenDrainAndReboot, Requeue

\* A failed operation needs no drain.
LEMMA FailDrained ==
    ASSUME Handling, Fail
    PROVE  Drained(op)'
BY QuietlyDrained DEF Fail

\* A drain that is over leaves the node cordoned, with every eviction accepted.
LEMMA DrainDrained ==
    ASSUME Handling, NEW p, Drain(p), op.phase \in {"Draining", "UpgradeDrain", "ApplyDrain"}
    PROVE  Drained(op)'
<1>1. CASE read.late
  BY <1>1, FailDrained DEF Drain
<1>2. CASE cordoned' /\ ~unevicted'
  BY <1>2 DEF Drained
<1>3. CASE Requeue
  BY <1>3 DEF Requeue, Drained, BetweenDrainAndReboot
<1> QED
  BY <1>1, <1>2, <1>3 DEF Drain

\* Uncordoning comes with a phase after the reboot.
LEMMA UncordonDrained ==
    ASSUME Handling, NEW p, NEW first, NEW last, End(p, first, last),
           op.phase \in {"Verifying", "UpgradeUncordon", "ApplyVerifying", "UpgradeVerifying"},
           p \in {"Done", "UpgradeUncordon", "Applying"}, p = "Applying" => op.type = "Apply"
    PROVE  Drained(op)'
BY Ends DEF Handling, Drained, BetweenDrainAndReboot

\* The same for a write of a phase alone.
LEMMA WriteDrained ==
    ASSUME Handling, NEW p, Write(p),
           op.phase \in {"Verifying", "UpgradeUncordon"},
           p \in {"Done", "Applying"}, p = "Applying" => op.type = "Apply"
    PROVE  Drained(op)'
BY UncordonDrained DEF Write

\* Waiting for a reboot changes nothing.
LEMMA RebootedDrained ==
    ASSUME Handling, Quietly(Requeue) \/ Fail
    PROVE  Drained(op)'
<1>1. CASE Quietly(Requeue)
  BY <1>1 DEF Quietly, Requeue, Handling, Drained, BetweenDrainAndReboot
<1> QED
  BY <1>1, FailDrained

\* The handler of a reboot keeps drained what must be.
LEMMA RebootDrains ==
    ASSUME Handling, HandleReboot, op.type = "Reboot"
    PROVE  Drained(op)'
<1> read.type = op.type /\ read.component = op.component /\ read.phase = op.phase
  BY DEF Handling, Current
<1>1. CASE op.phase = "Pending" /\ Quietly(Write("Draining"))
  BY <1>1, QuietlyDrained DEF Quietly
<1>2. CASE op.phase = "Draining" /\ Drain("Applying")
  BY <1>2, DrainDrained
<1>3. CASE op.phase = "Applying" /\ Write("Verifying") /\ UNCHANGED <<cordoned, unevicted>>
  BY <1>3, QuietlyDrained
<1>4. CASE op.phase = "Verifying" /\ Write("Done")
  BY <1>4, WriteDrained
<1> QED
  BY <1>1, <1>2, <1>3, <1>4, FailDrained, RebootedDrained DEF HandleReboot, Rebooted

\* The same for the upgrade up to the installation.
LEMMA UpgradePrepareDrains ==
    ASSUME Handling, UpgradePrepare
    PROVE  Drained(op)'
<1> read.type = op.type /\ read.component = op.component /\ read.phase = op.phase
  BY DEF Handling, Current
<1>1. CASE op.phase = "Pending" /\ \E p \in {"Done", "UpgradeDrain"} : Quietly(Write(p))
  BY <1>1, QuietlyDrained DEF Quietly
<1>2. CASE op.phase = "UpgradeDrain" /\ Drain("UpgradePreflight")
  BY <1>2, DrainDrained
<1>3. CASE /\ op.phase \in {"UpgradePreflight", "Upgrade113ImagePull"}
           /\ \E p \in {"Upgrade113ImagePull", "UpgradeLegacyUpgrade", "Upgrade113Upgrade"} :
                Quietly(Write(p))
  BY <1>3, QuietlyDrained DEF Quietly, BetweenDrainAndReboot
<1> QED
  BY <1>1, <1>2, <1>3 DEF UpgradePrepare

\* The same for the rest of the upgrade.
LEMMA UpgradeRestDrains ==
    ASSUME Handling, UpgradeInstall \/ UpgradeVerify \/ UpgradeUncordon
    PROVE  Drained(op)'
<1> read.type = op.type /\ read.component = op.component /\ read.phase = op.phase
  BY DEF Handling, Current
<1>1. CASE UpgradeInstall
  BY <1>1, QuietlyDrained DEF UpgradeInstall
<1>2. CASE UpgradeVerify
  <2>1. ASSUME NEW booted, End("UpgradeUncordon", booted, booted), op.phase = "UpgradeVerifying"
        PROVE  Drained(op)'
    BY <2>1, UncordonDrained
  <2> QED
    BY <1>2, <2>1, FailDrained, RebootedDrained DEF UpgradeVerify, Rebooted, Quietly
<1>3. CASE UpgradeUncordon
  <2>1. CASE op.type = "Apply"
    BY <1>3, <2>1, WriteDrained DEF UpgradeUncordon
  <2>2. CASE op.type # "Apply"
    BY <1>3, <2>2, WriteDrained DEF UpgradeUncordon
  <2> QED
    BY <2>1, <2>2
<1> QED
  BY <1>1, <1>2, <1>3

\* The same for an Apply.
LEMMA ApplyDrains ==
    ASSUME Handling, HandleApply, op.type = "Apply"
    PROVE  Drained(op)'
<1> read.type = op.type /\ read.component = op.component /\ read.phase = op.phase
  BY DEF Handling, Current
<1>1. CASE ApplyPending
  <2>1. ASSUME NEW p \in {"Done", "UpgradeDrain", "Applying"}, NEW cleared,
               Quietly(End(p, cleared, cleared)), op.phase = "Pending"
        PROVE  Drained(op)'
    <3>1. op' = op \/ op'.phase = p
      BY <2>1, Ends DEF Handling, Quietly
    <3>2. op'.type = "Apply"
      BY <2>1, Ends DEF Handling, Quietly
    <3> QED
      BY <2>1, <3>1, <3>2 DEF Drained, BetweenDrainAndReboot
  <2> QED
    BY <1>1, <2>1 DEF ApplyPending
<1>2. CASE ApplyApplying
  <2>1. ASSUME NEW p \in {"Done", "ApplyVerifying", "ApplyDrain"}, NEW first, NEW last,
               End(p, first, last), op.phase = "Applying"
        PROVE  Drained(op)'
    BY <2>1, Ends DEF Handling, Drained, BetweenDrainAndReboot
  <2> QED
    BY <1>2, <2>1 DEF ApplyApplying, Quietly, Write
<1>3. CASE ApplyVerifying
  <2>1. ASSUME NEW synced, End("Done", synced, synced), op.phase = "ApplyVerifying"
        PROVE  Drained(op)'
    BY <2>1, UncordonDrained
  <2> QED
    BY <1>3, <2>1, FailDrained, RebootedDrained DEF ApplyVerifying, Rebooted
<1>4. CASE op.phase = "ApplyDrain" /\ Drain("Applying")
  BY <1>4, DrainDrained
<1> QED
  BY <1>1, <1>2, <1>3, <1>4, FailDrained, RebootedDrained, UpgradePrepareDrains,
     UpgradeRestDrains DEF HandleApply

\* The same for a component upgrade.
LEMMA ComponentDrains ==
    ASSUME Handling, HandleComponentUpgrade, op.type = "KubernetesComponentUpgrade"
    PROVE  Drained(op)'
<1> read.type = op.type /\ read.component = op.component /\ read.phase = op.phase
  BY DEF Handling, Current
<1>1. CASE ComponentPending
  <2>1. ASSUME NEW p \in {"Done", "Draining", "Applying"}, NEW bumped,
               p = "Applying" => ~NeedsKubeletReboot,
               Quietly(End(p, bumped, bumped)), op.phase = "Pending"
        PROVE  Drained(op)'
    <3>1. op' = op \/ op'.phase = p
      BY <2>1, Ends DEF Handling, Quietly
    <3>2. op'.type = op.type /\ op'.component = op.component
      BY <2>1, Ends DEF Handling, Quietly
    <3> QED
      BY <2>1, <3>1, <3>2 DEF Drained, BetweenDrainAndReboot, NeedsKubeletReboot
  <2> QED
    BY <1>1, <2>1, FailDrained DEF ComponentPending
<1>2. CASE op.phase = "Draining" /\ Drain("Applying")
  BY <1>2, DrainDrained
<1>3. CASE ComponentApply
  <2>1. CASE NeedsKubeletReboot
    BY <1>3, <2>1, QuietlyDrained DEF ComponentApply, BetweenDrainAndReboot, NeedsKubeletReboot
  <2>2. CASE ~NeedsKubeletReboot
    BY <1>3, <2>2, QuietlyDrained DEF ComponentApply
  <2> QED
    BY <2>1, <2>2
<1>4. CASE ComponentReboot
  BY <1>4, QuietlyDrained, FailDrained, RebootedDrained DEF ComponentReboot, Quietly
<1>5. CASE ComponentVerify
  BY <1>5, WriteDrained, FailDrained, RebootedDrained DEF ComponentVerify
<1> QED
  BY <1>1, <1>2, <1>3, <1>4, <1>5, FailDrained DEF HandleComponentUpgrade

\* The handlers together.  What a handler of another operation writes makes an
\* operation that is no longer its own.
LEMMA HandleDrains ==
    ASSUME DrainInv, Handle
    PROVE  op'.own => Drained(op)'
<1>1. EndsWell
  BY HandleEndsWell DEF DrainInv
<1>2. CASE worker.stale
  <2>1. op.phase = "Pending" /\ (op' = op \/ ~op'.own)
    BY <1>1, <1>2 DEF Handle, DrainInv, Snapshot, EndsWell
  <2> QED
    BY <2>1 DEF Drained, BetweenDrainAndReboot
<1>3. CASE ~worker.stale /\ op.own
  <2>1. Handling /\ read.type = op.type
    BY <1>3 DEF Handle, DrainInv, Snapshot, Handling, Current
  <2> QED
    BY <2>1, RebootDrains, FailDrained, UpgradePrepareDrains, UpgradeRestDrains, ApplyDrains,
       ComponentDrains, RebootedDrained DEF Handle, HandleUpgrade
<1>4. CASE ~op.own
  BY <1>1, <1>4 DEF EndsWell
<1> QED
  BY <1>2, <1>3, <1>4

\* Every step keeps drained what must be: pods come back only to a schedulable node.
LEMMA NextDrain == DrainInv /\ [Next]_vars => DrainInv'
<1> SUFFICES ASSUME DrainInv, [Next]_vars PROVE DrainInv'
  OBVIOUS
<1>1. MachineTypeOK' /\ Snapshot'
  BY NextTypes, NextSnapshot DEF DrainInv
<1> SUFFICES (op.own => Drained(op))' /\ (worker.busy /\ read.own => Drained(read))'
  BY <1>1 DEF DrainInv
<1>2. CASE Handle
  BY <1>2, HandleDrains, HandleEndsIdle, IdleTypes
<1>3. CASE Fetch
  BY <1>3 DEF Fetch, read, DrainInv, Drained, BetweenDrainAndReboot
<1>4. CASE Elapse
  <2>1. /\ op'.type = op.type /\ op'.component = op.component /\ op'.phase = op.phase
        /\ op'.own = op.own /\ UNCHANGED <<worker, cordoned, unevicted>>
    BY <1>4 DEF Elapse, DrainInv, MachineTypeOK, Operations
  <2> QED
    BY <2>1 DEF read, DrainInv, Drained, BetweenDrainAndReboot
<1>5. ASSUME NEW t, NEW c, StartOp(t, c)
      PROVE  (op.own => Drained(op))' /\ (worker.busy /\ read.own => Drained(read))'
  <2>1. /\ op'.phase = "Pending" /\ worker'.busy = worker.busy /\ worker'.op = worker.op
        /\ UNCHANGED <<cordoned, unevicted>>
    BY <1>5 DEF StartOp, DrainInv, MachineTypeOK
  <2> QED
    BY <2>1 DEF read, DrainInv, Drained, BetweenDrainAndReboot
<1>6. CASE \/ Refresh \/ Schedule \/ GoDown \/ ComeUp
           \/ EditSpec \/ SetVersion \/ HandEdit \/ Outage \/ UNCHANGED vars
  <2>1. UNCHANGED <<op, worker, cordoned>>
    BY <1>6 DEF Refresh, Schedule, GoDown, ComeUp, EditSpec, SetVersion, HandEdit, Outage, Disturb,
                vars
  <2>2. ~cordoned \/ unevicted' = unevicted \/ unevicted' = FALSE
    BY <1>6 DEF Refresh, Schedule, GoDown, ComeUp, EditSpec, SetVersion, HandEdit, Outage, vars
  <2> QED
    BY <2>1, <2>2 DEF read, DrainInv, Drained, BetweenDrainAndReboot
<1>7. CASE Cordon
  <2>1. op.phase \in {"None", "Done", "Failed"} /\ UNCHANGED <<op, worker>>
    BY <1>7 DEF Cordon, Disturb, isOperationComplete
  <2>2. worker.busy => read.phase \in {"None", "Done", "Failed"}
    BY <2>1 DEF DrainInv, Snapshot, Current
  <2> QED
    BY <2>1, <2>2 DEF read, Drained, BetweenDrainAndReboot
<1> QED
  BY <1>2, <1>3, <1>4, <1>5, <1>6, <1>7 DEF Next

\* No operation, nothing to drain.
LEMMA InitDrain == Init => DrainInv
<1> SUFFICES ASSUME Init PROVE DrainInv
  OBVIOUS
<1>1. op.type = "None" /\ op.phase = "None" /\ ~worker.busy
  BY IdleTypes DEF Init, NoOperation
<1> QED
  BY <1>1, InitTypes, InitSnapshot DEF DrainInv, Drained, BetweenDrainAndReboot

\* Who tells a machine to reboot.
LEMMA Tellers ==
    ASSUME MachineTypeOK, [Next]_vars, TellsToReboot
    PROVE  worker.busy /\ (BetweenDrainAndReboot(read) \/ AppliesConfig)
<1>1. CASE Handle
  <2> worker.busy
    BY <1>1 DEF Handle
  <2>1. CASE read.type = "Reboot" /\ HandleReboot
    BY <2>1 DEF HandleReboot, Quietly, Drain, Fail, Rebooted, TellsToReboot,
                BetweenDrainAndReboot
  <2>2. ASSUME UpgradePrepare \/ UpgradeInstall \/ UpgradeVerify \/ UpgradeUncordon \/ Fail
        PROVE  BetweenDrainAndReboot(read)
    BY <2>2 DEF UpgradePrepare, UpgradeInstall, UpgradeVerify, UpgradeUncordon, Quietly, Drain,
                Fail, Rebooted, TellsToReboot, BetweenDrainAndReboot
  <2>3. CASE read.type = "Upgrade" /\ HandleUpgrade
    BY <2>2, <2>3 DEF HandleUpgrade
  <2>4. CASE read.type = "Apply" /\ HandleApply
    BY <2>2, <2>4 DEF HandleApply, ApplyPending, ApplyApplying, ApplyVerifying,
                      Quietly, Drain, Fail, Rebooted, TellsToReboot, AppliesConfig
  <2>5. CASE read.type = "KubernetesComponentUpgrade" /\ HandleComponentUpgrade
    BY <2>2, <2>5 DEF HandleComponentUpgrade, ComponentPending, ComponentApply,
                      ComponentReboot, ComponentVerify, Quietly, Drain, Fail, TellsToReboot,
                      AppliesConfig, BetweenDrainAndReboot
  <2>6. CASE Quietly(Requeue)
    BY <2>6 DEF Quietly, TellsToReboot
  <2> QED
    BY <1>1, <2>1, <2>3, <2>4, <2>5, <2>6 DEF Handle
<1>2. CASE \/ Refresh \/ Fetch \/ Elapse \/ (\E t, c : StartOp(t, c))
           \/ Schedule \/ GoDown \/ ComeUp
           \/ EditSpec \/ SetVersion \/ HandEdit \/ Cordon \/ Outage \/ UNCHANGED vars
  <2>1. machine'.rebooting => machine.rebooting
    BY <1>2 DEF Refresh, Fetch, Elapse, StartOp, Schedule, GoDown, ComeUp, EditSpec, SetVersion,
                HandEdit, Cordon, Outage, vars, MachineTypeOK, Machines
  <2> QED
    BY <2>1 DEF TellsToReboot
<1> QED
  BY <1>1, <1>2 DEF Next

\* A machine is told to reboot by a reboot, an OS upgrade or a kubelet upgrade
\* beside Longhorn only when the eviction of all its pods was accepted, for any
\* number of crashes, outages, edits and operations replaced by others, under
\* their handlers too; unless the phase of the operation is another's.
THEOREM RebootsAreDrained == Spec => DrainedForReboot
<1>1. DrainInv /\ [Next]_vars => [TellsToReboot /\ ~AppliesConfig /\ read.own => ~unevicted]_vars
  BY Tellers DEF DrainInv, Drained
<1> QED
  BY <1>1, InitDrain, NextDrain, PTL DEF Spec, DrainedForReboot

-----------------------------------------------------------------------------
(***************************************************************************)
(* The machine's operations are operations of NodeOps.                     *)
(***************************************************************************)

\* The operation that the handler has read, as NodeOps has it.
Read == AsOperation(read)

\* What the end of a handler is to NodeOps: the phase it decided on, nothing
\* written, or cut off.
WritesPhase(p) ==
    /\ op' = [op EXCEPT !.phase = p, !.late = FALSE, !.own = @ /\ ~worker.stale]
    /\ faults' = faults

WritesNothing == op' = op /\ faults' = faults

CutOff == op' = op /\ faults < MaxFaults /\ faults' = faults + 1

Allowed(p) == p \in Phases \union {"Requeue"} /\ Ops!Step(Read, TRUE, machine.up, TRUE, p)

\* The handler does what the handler of NodeOps may do.
Conforms ==
    \/ \E p \in Phases : Allowed(p) /\ WritesPhase(p)
    \/ Allowed("Requeue") /\ WritesNothing
    \/ CutOff

\* A handler conforms if the phase it ends with is allowed.
LEMMA EndConforms ==
    ASSUME NEW p \in Phases, NEW first, NEW last, End(p, first, last), Allowed(p)
    PROVE  Conforms
BY DEF End, Conforms, WritesPhase, CutOff

\* The same for a write of a phase alone.
LEMMA WriteConforms ==
    ASSUME NEW p \in Phases, Write(p), Allowed(p)
    PROVE  Conforms
BY EndConforms DEF Write

\* The same for a handler that writes nothing.
LEMMA RequeueConforms ==
    ASSUME Requeue, Allowed("Requeue")
    PROVE  Conforms
BY DEF Requeue, Conforms, WritesNothing

\* The same for a failure.
LEMMA FailConforms ==
    ASSUME Fail, Allowed("Failed")
    PROVE  Conforms
BY WriteConforms DEF Fail, Phases

\* What NodeOps has of the operation that was read.
LEMMA ReadFields ==
    /\ Read.type = read.type /\ Read.phase = read.phase
    /\ Read.late = read.late /\ Read.unsafe = FALSE
BY DEF Read, AsOperation

\* A drain conforms to the handler it is part of, if that allows the steps of
\* doNodeDrain.
LEMMA DrainConforms ==
    ASSUME NEW next \in Phases, Drain(next),
           \A p : Ops!DrainStep(Read, next, p) => Ops!Step(Read, TRUE, machine.up, TRUE, p)
    PROVE  Conforms
<1>1. CASE read.late /\ Fail
  <2>1. Allowed("Failed")
    BY <1>1, ReadFields DEF Allowed, Ops!DrainStep, Phases
  <2> QED
    BY <1>1, <2>1, FailConforms
<1>2. CASE ~read.late /\ (Write(next) \/ Requeue)
  <2>1. Allowed(next) /\ Allowed("Requeue")
    BY <1>2, ReadFields DEF Allowed, Ops!DrainStep
  <2> QED
    BY <1>2, <2>1, WriteConforms, RequeueConforms
<1> QED
  BY <1>1, <1>2 DEF Drain

\* The handlers one by one: reboots, ...
LEMMA RebootConforms ==
    ASSUME read.type = "Reboot", HandleReboot
    PROVE  Conforms
<1>1. ASSUME NEW p, Ops!PowerStep(Read, machine.up, p)
      PROVE  Ops!Step(Read, TRUE, machine.up, TRUE, p)
  BY <1>1, ReadFields DEF Ops!Step, Ops!HandlerStep
<1>2. ASSUME NEW p \in Phases \union {"Requeue"}, Ops!PowerStep(Read, machine.up, p)
      PROVE  Allowed(p)
  BY <1>1, <1>2 DEF Allowed
<1>3. CASE read.phase = "Pending" /\ Write("Draining")
  BY <1>2, <1>3, ReadFields, WriteConforms DEF Ops!PowerStep, Phases
<1>4. CASE read.phase = "Draining" /\ Drain("Applying")
  BY <1>1, <1>4, ReadFields, DrainConforms DEF Ops!PowerStep, Phases
<1>5. CASE read.phase = "Applying" /\ Fail
  BY <1>2, <1>5, ReadFields, FailConforms DEF Ops!PowerStep, Phases
<1>6. CASE read.phase = "Applying" /\ machine.up /\ Write("Verifying")
  BY <1>2, <1>6, ReadFields, WriteConforms DEF Ops!PowerStep, Phases
<1>7. CASE read.phase = "Verifying" /\ read.late /\ Fail
  BY <1>2, <1>7, ReadFields, FailConforms DEF Ops!PowerStep, Phases
<1>8. CASE read.phase = "Verifying" /\ ~read.late /\ Requeue
  BY <1>2, <1>8, ReadFields, RequeueConforms DEF Ops!PowerStep
<1>9. CASE read.phase = "Verifying" /\ ~read.late /\ machine.up /\ Write("Done")
  BY <1>2, <1>9, ReadFields, WriteConforms DEF Ops!PowerStep, Phases
<1> QED
  BY <1>3, <1>4, <1>5, <1>6, <1>7, <1>8, <1>9
     DEF HandleReboot, Quietly, Rebooted, hasNodeRebootedYet

\* ... the stages of an upgrade, whoever runs them, ...
LEMMA UpgradeStagesConform ==
    ASSUME machine.up, UpgradePrepare \/ UpgradeInstall \/ UpgradeVerify \/ UpgradeUncordon,
           \A p : Ops!UpgradeStep(Read, machine.up, p) => Ops!Step(Read, TRUE, machine.up, TRUE, p)
    PROVE  Conforms
<1>1. ASSUME NEW p \in Phases \union {"Requeue"},
             \/ p = "Failed" \/ Ops!UpgradePrepare(Read, p)
             \/ Ops!UpgradeInstall(Read, p) \/ Ops!UpgradeVerify(Read, p)
      PROVE  Allowed(p)
  BY <1>1 DEF Allowed, Ops!UpgradeStep
<1>2. Fail => Conforms
  BY <1>1, FailConforms DEF Phases
<1>3. CASE UpgradePrepare
  <2>1. CASE read.phase = "Pending" /\ (Write("Done") \/ Write("UpgradeDrain"))
    BY <1>1, <2>1, ReadFields, WriteConforms DEF Ops!UpgradePrepare, Phases
  <2>2. CASE read.phase = "UpgradeDrain" /\ Drain("UpgradePreflight")
    <3>1. \A p : Ops!DrainStep(Read, "UpgradePreflight", p) => Ops!Step(Read, TRUE, machine.up, TRUE, p)
      BY <2>2, ReadFields DEF Ops!UpgradePrepare, Ops!UpgradeStep
    <3> QED
      BY <2>2, <3>1, DrainConforms DEF Phases
  <2>3. CASE /\ read.phase = "UpgradePreflight"
             /\ Write("Upgrade113ImagePull") \/ Write("UpgradeLegacyUpgrade")
    BY <1>1, <2>3, ReadFields, WriteConforms DEF Ops!UpgradePrepare, Phases
  <2>4. CASE read.phase = "Upgrade113ImagePull" /\ Write("Upgrade113Upgrade")
    BY <1>1, <2>4, ReadFields, WriteConforms DEF Ops!UpgradeInstall, Phases
  <2> QED
    BY <1>3, <2>1, <2>2, <2>3, <2>4 DEF UpgradePrepare, Quietly
<1>4. CASE UpgradeInstall
  <2>1. Write("UpgradeVerifying") \/ Write("Failed")
    BY <1>4 DEF UpgradeInstall
  <2>2. Allowed("UpgradeVerifying") /\ Allowed("Failed")
    BY <1>1, <1>4, ReadFields DEF UpgradeInstall, Ops!UpgradeInstall, Phases
  <2> QED
    BY <2>1, <2>2, WriteConforms DEF Phases
<1>5. CASE UpgradeVerify
  <2>1. read.phase = "UpgradeVerifying"
    BY <1>5 DEF UpgradeVerify
  <2>2. CASE ~read.late /\ Requeue
    BY <1>1, <2>1, <2>2, ReadFields, RequeueConforms DEF Ops!UpgradeVerify
  <2>3. ASSUME ~read.late, NEW booted, End("UpgradeUncordon", booted, booted)
        PROVE  Conforms
    <3>1. Allowed("UpgradeUncordon")
      BY <1>1, <2>1, <2>3, ReadFields DEF Ops!UpgradeVerify, Phases
    <3> QED
      BY <2>3, <3>1, EndConforms DEF Phases
  <2> QED
    BY <1>2, <1>5, <2>2, <2>3 DEF UpgradeVerify, Rebooted, Quietly
<1>6. CASE UpgradeUncordon
  <2>1. CASE read.type = "Apply"
    BY <1>1, <1>6, <2>1, ReadFields, WriteConforms DEF UpgradeUncordon, Ops!UpgradeVerify, Phases
  <2>2. CASE read.type # "Apply"
    BY <1>1, <1>6, <2>2, ReadFields, WriteConforms DEF UpgradeUncordon, Ops!UpgradeVerify, Phases
  <2> QED
    BY <2>1, <2>2
<1> QED
  BY <1>3, <1>4, <1>5, <1>6

\* ... OS upgrades, ...
LEMMA UpgradeConforms ==
    ASSUME read.type = "Upgrade", HandleUpgrade
    PROVE  Conforms
<1>1. \A p : Ops!UpgradeStep(Read, machine.up, p) => Ops!Step(Read, TRUE, machine.up, TRUE, p)
  BY ReadFields DEF Ops!Step, Ops!HandlerStep
<1>2. Allowed("Failed")
  BY <1>1 DEF Allowed, Ops!UpgradeStep, Phases
<1> QED
  BY <1>1, <1>2, FailConforms, UpgradeStagesConform DEF HandleUpgrade

\* ... the application of a configuration, ...
LEMMA ApplyConforms ==
    ASSUME read.type = "Apply", HandleApply
    PROVE  Conforms
<1>1. ASSUME NEW p, Ops!ApplyStep(Read, machine.up, p)
      PROVE  Ops!Step(Read, TRUE, machine.up, TRUE, p)
  BY <1>1, ReadFields DEF Ops!Step, Ops!HandlerStep
<1>2. CASE ~machine.up /\ Requeue
  BY <1>1, <1>2, RequeueConforms DEF Allowed, Ops!ApplyStep
<1>3. CASE machine.up
  <2>1. ASSUME NEW p \in Phases \union {"Requeue"},
               p = "Failed" \/ Ops!ApplyStart(Read, p) \/ Ops!ApplyFinish(Read, p)
        PROVE  Allowed(p)
    BY <1>1, <1>3, <2>1 DEF Allowed, Ops!ApplyStep
  <2>2. Fail => Conforms
    BY <2>1, FailConforms DEF Phases
  <2>3. CASE \/ read.phase # "Pending" /\ UpgradePrepare
             \/ UpgradeInstall \/ UpgradeVerify \/ UpgradeUncordon
    <3>1. read.phase \in Ops!UpgradePhases
      BY <2>3 DEF UpgradePrepare, UpgradeInstall, UpgradeVerify, UpgradeUncordon,
                  Ops!UpgradePhases
    <3>2. \A p : Ops!UpgradeStep(Read, machine.up, p) => Ops!Step(Read, TRUE, machine.up, TRUE, p)
      BY <1>1, <1>3, <3>1, ReadFields DEF Ops!ApplyStep
    <3> QED
      BY <1>3, <2>3, <3>2, UpgradeStagesConform
  <2>4. CASE ApplyPending
    <3>1. ASSUME NEW p \in {"Done", "UpgradeDrain", "Applying"}, NEW cleared,
                 End(p, cleared, cleared)
          PROVE  Conforms
      <4>1. Allowed(p) /\ p \in Phases
        BY <2>1, <2>4, <3>1, ReadFields DEF ApplyPending, Ops!ApplyStart, Phases
      <4> QED
        BY <3>1, <4>1, EndConforms
    <3> QED
      BY <2>4, <3>1 DEF ApplyPending, Quietly
  <2>5. CASE ApplyApplying
    <3>1. ASSUME NEW p \in {"ApplyDrain", "ApplyVerifying", "Done"}, NEW first, NEW last,
                 End(p, first, last)
          PROVE  Conforms
      <4>1. Allowed(p) /\ p \in Phases
        BY <2>1, <2>5, <3>1, ReadFields DEF ApplyApplying, Ops!ApplyStart, Phases
      <4> QED
        BY <3>1, <4>1, EndConforms
    <3> QED
      BY <2>5, <3>1 DEF ApplyApplying, Quietly, Write
  <2>6. CASE read.phase = "ApplyDrain" /\ Drain("Applying")
    <3>1. \A p : Ops!DrainStep(Read, "Applying", p) => Ops!Step(Read, TRUE, machine.up, TRUE, p)
      BY <1>1, <1>3, <2>6, ReadFields DEF Ops!ApplyFinish, Ops!ApplyStep
    <3> QED
      BY <2>6, <3>1, DrainConforms DEF Phases
  <2>7. CASE ApplyVerifying
    <3>1. read.phase = "ApplyVerifying"
      BY <2>7 DEF ApplyVerifying
    <3>2. CASE ~read.late /\ Requeue
      BY <2>1, <3>1, <3>2, ReadFields, RequeueConforms DEF Ops!ApplyFinish
    <3>3. ASSUME ~read.late, NEW synced, End("Done", synced, synced)
          PROVE  Conforms
      <4>1. Allowed("Done")
        BY <2>1, <3>1, <3>3, ReadFields DEF Ops!ApplyFinish, Phases
      <4> QED
        BY <3>3, <4>1, EndConforms DEF Phases
    <3> QED
      BY <2>2, <2>7, <3>2, <3>3 DEF ApplyVerifying, Rebooted, Quietly
  <2> QED
    BY <1>3, <2>2, <2>3, <2>4, <2>5, <2>6, <2>7 DEF HandleApply
<1> QED
  BY <1>2, <1>3 DEF HandleApply, Quietly

\* ... and component upgrades.
LEMMA ComponentConforms ==
    ASSUME read.type = "KubernetesComponentUpgrade", HandleComponentUpgrade
    PROVE  Conforms
<1>1. ASSUME NEW p, Ops!KubernetesComponentUpgradeStep(Read, machine.up, p)
      PROVE  Ops!Step(Read, TRUE, machine.up, TRUE, p)
  BY <1>1, ReadFields DEF Ops!Step, Ops!HandlerStep
<1>2. ASSUME NEW p \in Phases \union {"Requeue"},
             \/ p \in {"Failed", "Requeue"} \/ Ops!ComponentPending(Read, p)
             \/ Ops!ComponentApply(Read, machine.up, p) \/ Ops!ComponentVerify(Read, p)
      PROVE  Allowed(p)
  BY <1>1, <1>2 DEF Allowed, Ops!KubernetesComponentUpgradeStep
<1>3. (Fail => Conforms) /\ (Requeue => Conforms)
  BY <1>2, FailConforms, RequeueConforms DEF Phases
<1>4. CASE ComponentPending
  <2>1. ASSUME NEW p \in {"Done", "Draining", "Applying"}, NEW bumped, End(p, bumped, bumped)
        PROVE  Conforms
    <3>1. Allowed(p) /\ p \in Phases
      BY <1>2, <1>4, <2>1, ReadFields DEF ComponentPending, Ops!ComponentPending, Phases
    <3> QED
      BY <2>1, <3>1, EndConforms
  <2> QED
    BY <1>3, <1>4, <2>1 DEF ComponentPending, Quietly
<1>5. CASE read.phase = "Draining" /\ Drain("Applying")
  <2>1. \A p : Ops!DrainStep(Read, "Applying", p) => Ops!Step(Read, TRUE, machine.up, TRUE, p)
    BY <1>1, <1>5, ReadFields DEF Ops!ComponentApply, Ops!KubernetesComponentUpgradeStep
  <2> QED
    BY <1>5, <2>1, DrainConforms DEF Phases
<1>6. CASE ComponentApply
  <2>1. Allowed("KubeletReboot") /\ Allowed("Verifying")
    BY <1>2, <1>6, ReadFields DEF ComponentApply, Ops!ComponentApply, Phases
  <2> QED
    BY <1>6, <2>1, WriteConforms DEF ComponentApply, Phases
<1>7. CASE ComponentReboot
  <2>1. CASE read.phase = "KubeletReboot" /\ machine.up /\ Write("VerifyReboot")
    BY <1>2, <2>1, ReadFields, WriteConforms DEF Ops!ComponentApply, Phases
  <2>2. CASE read.phase = "VerifyReboot" /\ machine.up /\ Write("Verifying")
    BY <1>2, <2>2, ReadFields, WriteConforms DEF Ops!ComponentApply, Phases
  <2> QED
    BY <1>3, <1>7, <2>1, <2>2 DEF ComponentReboot, Quietly, hasNodeRebootedYet
<1>8. CASE ComponentVerify
  <2>1. CASE read.phase = "Verifying" /\ ~read.late /\ Write("Done")
    BY <1>2, <2>1, ReadFields, WriteConforms DEF Ops!ComponentVerify, Phases
  <2> QED
    BY <1>3, <1>8, <2>1 DEF ComponentVerify, Quietly
<1> QED
  BY <1>3, <1>4, <1>5, <1>6, <1>7, <1>8 DEF HandleComponentUpgrade

\* A phase of another operation's handler is left alone.
LEMMA UnknownConforms ==
    ASSUME UnknownPhase, Requeue
    PROVE  Conforms
<1>1. Ops!Step(Read, TRUE, machine.up, TRUE, "Requeue")
  BY ReadFields DEF UnknownPhase, Ops!Step, Ops!HandlerStep
<1> QED
  BY <1>1, RequeueConforms DEF Allowed

\* A handler that conforms is a step of NodeOps: its handler, or its Abort.
LEMMA ConformingStep ==
    ASSUME MachineTypeOK, worker.busy, worker' = IdleWorker, machine'.up = machine.up,
           Conforms
    PROVE  Ops!Next
<1>1. ~worker'.busy
  BY IdleTypes
<1>2. ASSUME NEW p \in Phases, Allowed(p), WritesPhase(p) PROVE Ops!Handle
  <2>1. p \in Ops!Phases /\ p # "Requeue" /\ Ops!Step(Read, TRUE, machine.up, TRUE, p)
    BY <1>2 DEF Allowed, Phases, Ops!Phases, Ops!UpgradePhases, Ops!Complete
  <2>2. TRUE \in Ops!ProvisionedAfter(Read, TRUE, p)
    BY ReadFields DEF Ops!ProvisionedAfter, MachineTypeOK, Operations, ModelledTypes, read
  <2>3. /\ op'.type = op.type /\ op'.phase = p /\ op'.late = FALSE
    BY <1>2 DEF WritesPhase, MachineTypeOK, Operations
  <2>4. /\ (AsOperation(op))' = [type |-> op.type, unsafe |-> FALSE, phase |-> p, late |-> FALSE]
    BY <2>3 DEF AsOperation
  <2>5. Ops!Store("node", [AsOperation(op) EXCEPT !.phase = p, !.late = FALSE])
    <3>1. AsOperation(op) = [type |-> op.type, unsafe |-> FALSE, phase |-> op.phase,
                             late |-> op.late]
      BY DEF AsOperation
    <3>2. [AsOperation(op) EXCEPT !.phase = p, !.late = FALSE] = (AsOperation(op))'
      <4> DEFINE Shapes == [type : {op.type}, unsafe : {FALSE}, phase : {op.phase},
                            late : {op.late}]
                 New == [type |-> op.type, unsafe |-> FALSE, phase |-> p, late |-> FALSE]
      <4>1. AsOperation(op) \in Shapes
        BY <3>1
      <4>2. ASSUME NEW r \in Shapes, NEW s, s = [r EXCEPT !.phase = p, !.late = FALSE]
            PROVE  s = New
        BY <4>2
      <4> HIDE DEF AsOperation, Shapes
      <4> QED
        BY <2>4, <4>1, <4>2, ZenonT(40)
    <3>3. [AsOperation(op) EXCEPT !.phase = p, !.late = FALSE].phase = op'.phase
      BY <2>3, <3>1
    <3>4. op.phase = AsOperation(op).phase
      BY <3>1
    <3> HIDE DEF AsOperation
    <3> QED
      BY <3>2, <3>3, <3>4 DEF Ops!Store
  <2>6. faults' = faults
    BY <1>2 DEF WritesPhase
  <2> QED
    BY <1>1, <2>1, <2>2, <2>5, <2>6 DEF Ops!Handle, Ops!Idle, Ops!outside, Read
<1>3. ASSUME Allowed("Requeue"), WritesNothing PROVE Ops!Handle
  BY <1>1, <1>3 DEF Ops!Handle, Ops!Idle, Ops!outside, Allowed, WritesNothing, Read, AsOperation
<1>4. ASSUME CutOff PROVE Ops!Abort
  BY <1>1, <1>4 DEF Ops!Abort, Ops!Idle, Ops!outside, CutOff, AsOperation
<1> QED
  BY <1>2, <1>3, <1>4 DEF Conforms, Ops!Next, Ops!NodeNext

\* A handler leaves the machine up: told to reboot or not, it has not gone down yet.
LEMMA HandleKeepsUp ==
    ASSUME MachineTypeOK, Handle
    PROVE  machine'.up = machine.up
<1>1. /\ Applied(Expected).up = machine.up
      /\ Rebooting(machine).up = machine.up
      /\ Installed(machine).up = machine.up
      /\ Rebooting(Installed(machine)).up = machine.up
  BY DEF Applied, Rebooting, Installed, MachineTypeOK, Machines
<1>2. ASSUME UpgradePrepare \/ UpgradeInstall \/ UpgradeVerify \/ UpgradeUncordon
      PROVE  machine'.up = machine.up
  BY <1>1, <1>2 DEF UpgradePrepare, UpgradeInstall, UpgradeVerify, UpgradeUncordon, Quietly,
                    Rebooted, Drain, Fail
<1>3. ASSUME HandleReboot PROVE machine'.up = machine.up
  BY <1>1, <1>3 DEF HandleReboot, Quietly, Rebooted, Drain, Fail
<1>4. ASSUME HandleApply PROVE machine'.up = machine.up
  BY <1>1, <1>2, <1>4 DEF HandleApply, ApplyPending, ApplyApplying, ApplyVerifying, Quietly,
                          Rebooted, Drain, Fail
<1>5. ASSUME HandleComponentUpgrade PROVE machine'.up = machine.up
  BY <1>1, <1>5 DEF HandleComponentUpgrade, ComponentPending, ComponentApply,
                    ComponentReboot, ComponentVerify, Quietly, Drain, Fail
<1> QED
  BY <1>2, <1>3, <1>4, <1>5 DEF Handle, HandleUpgrade, Fail, Quietly

\* What the variables of NodeOps are made of.
Mapped == <<op, machine.up, worker, faults>>

\* Steps that leave these alone are invisible to NodeOps.
LEMMA MappedSame ==
    ASSUME UNCHANGED Mapped
    PROVE  UNCHANGED Ops!vars
BY DEF Mapped, Ops!vars, Ops!outside, AsOperation, read

\* The starts of operations are those of the Cluster controller.
LEMMA StartConforms ==
    ASSUME MachineTypeOK, NEW t \in OpTypes, NEW c, StartOp(t, c)
    PROVE  Ops!Next
<1>1. /\ op'.type = t /\ op'.phase = "Pending" /\ op'.late = FALSE
      /\ worker'.busy = worker.busy /\ worker'.op = worker.op
      /\ machine'.up = machine.up /\ faults' = faults
  BY DEF StartOp, MachineTypeOK
<1>2. Ops!SubOpStart("node", t)
  BY <1>1 DEF Ops!SubOpStart, Ops!Store, Ops!Initialized, Ops!outside, AsOperation, read
<1> QED
  BY <1>2 DEF Ops!Next

\* The beginning of a reconcile: with one node, nobody else is in progress.
LEMMA FetchConforms ==
    ASSUME MachineTypeOK, Fetch
    PROVE  Ops!Next
<1>1. /\ ~worker.busy /\ worker'.busy /\ worker'.op = op
      /\ op' = op /\ machine' = machine /\ faults' = faults
      /\ op.phase = "Pending" => machine.up
      /\ op.phase \notin {"None", "Done", "Failed"}
  BY DEF Fetch, isOperationComplete
<1>2. Ops!Runnable("node")
  BY <1>1 DEF Ops!Runnable, Ops!areOtherOperationsInProgress, AsOperation
<1>3. Ops!Fetch("node")
  BY <1>1, <1>2 DEF Ops!Fetch, Ops!Idle, Ops!NoRequest, Ops!isOperationComplete, Ops!Complete,
                    Ops!outside, AsOperation, read
<1> QED
  BY <1>3 DEF Ops!Next, Ops!NodeNext

\* Every step is a step of NodeOps or leaves its variables alone.
LEMMA StepConforms == MachineTypeOK /\ [Next]_vars => [Ops!Next]_(Ops!vars)
<1> SUFFICES ASSUME MachineTypeOK, [Next]_vars PROVE [Ops!Next]_(Ops!vars)
  OBVIOUS
<1>1. CASE Handle
  <2>1. worker.busy /\ Conforms
    BY <1>1, RebootConforms, UpgradeConforms, ApplyConforms, ComponentConforms, UnknownConforms
       DEF Handle, Quietly
  <2>2. worker' = IdleWorker
    BY <1>1, HandleEndsIdle
  <2>3. machine'.up = machine.up
    BY <1>1, HandleKeepsUp
  <2> QED
    BY <2>1, <2>2, <2>3, ConformingStep
<1>2. CASE Fetch
  BY <1>2, FetchConforms
<1>3. CASE Elapse
  <2>1. /\ op'.type = op.type /\ op'.phase = op.phase /\ op'.late = TRUE /\ ~op.late
        /\ op.phase \notin {"None", "Pending", "Done", "Failed"}
        /\ UNCHANGED <<machine, worker, faults>>
    BY <1>3 DEF Elapse, isOperationComplete, MachineTypeOK, Operations
  <2>2. Ops!Elapse("node")
    BY <2>1 DEF Ops!Elapse, Ops!outside, Ops!InProgress, Ops!notInProgressPhases, Ops!Complete, AsOperation, read
  <2> QED
    BY <2>2 DEF Ops!Next, Ops!NodeNext
<1>4. ASSUME NEW t \in OpTypes, NEW c, StartOp(t, c) PROVE [Ops!Next]_(Ops!vars)
  BY <1>4, StartConforms
<1>5. CASE GoDown \/ ComeUp \/ Outage
  <2>1. machine'.up = ~machine.up /\ UNCHANGED <<op, worker, faults>>
    BY <1>5 DEF GoDown, ComeUp, Outage, Disturb, MachineTypeOK, Machines
  <2>2. Ops!MachineChange("node")
    BY <2>1 DEF Ops!MachineChange, Ops!outside, AsOperation, read
  <2> QED
    BY <2>2 DEF Ops!Next, Ops!NodeNext
<1>6. CASE Refresh \/ Schedule \/ EditSpec \/ SetVersion \/ HandEdit \/ Cordon \/ UNCHANGED vars
  <2>1. UNCHANGED Mapped
    BY <1>6 DEF Refresh, Schedule, EditSpec, SetVersion, HandEdit, Cordon, Disturb, vars, Mapped,
                MachineTypeOK, Machines
  <2> QED
    BY <2>1, MappedSame
<1> QED
  BY <1>1, <1>2, <1>3, <1>4, <1>5, <1>6 DEF Next

\* A node that has no operation yet is one of NodeOps.
LEMMA InitConforms == Init => Ops!Init
<1> SUFFICES ASSUME Init PROVE Ops!Init
  OBVIOUS
<1>1. machine.up = TRUE /\ ~worker.busy /\ faults = 0
  BY IdleTypes DEF Init
<1>2. AsOperation(op) = Ops!NoOperation /\ op.phase = "None"
  BY DEF Init, NoOperation, AsOperation, Ops!NoOperation
<1> QED
  BY <1>1, <1>2 DEF Ops!Init, Ops!NoRequest, Ops!NoOperation, Ops!Idle

\* What operations do to a machine, through crashes, outages and edits, is what
\* NodeOps says of their phases, for any configurations, releases and versions.
THEOREM MachineImplementsNodeOps == Spec => NodeOpsSpec
BY InitConforms, InitTypes, NextTypes, StepConforms, PTL DEF Spec, NodeOpsSpec, Ops!Spec

-----------------------------------------------------------------------------
(***************************************************************************)
(* What is Done is done.                                                   *)
(***************************************************************************)

\* The machine answers and will not change by itself.
Stable == machine.up /\ NothingPending

\* What the status refresh of a Pending operation has found is still so.
Fresh ==
    /\ Stable
    /\ status.bootID = machine.boot
    /\ status.inSync = InSync(status)
    /\ status.unsched = cordoned

\* Until its handler ran, nothing has happened since the operation began.
Waiting ==
    op.phase = "Pending" =>
        /\ NothingPending
        /\ cordoned = began.cordoned
        /\ machine.release = began.release
        /\ worker.busy => Fresh

InstallPhases == {"UpgradeDrain", "UpgradePreflight", "Upgrade113ImagePull",
                  "Upgrade113Upgrade", "UpgradeLegacyUpgrade"}

BeforeReboot ==
    op.phase \in InstallPhases \union {"Draining", "Applying", "ApplyDrain", "KubeletReboot"}

AwaitsReboot ==
    \/ op.phase \in {"UpgradeVerifying", "ApplyVerifying", "VerifyReboot"}
    \/ op.type = "Reboot" /\ op.phase = "Verifying"

AfterReboot ==
    \/ op.phase = "UpgradeUncordon"
    \/ op.type = "KubernetesComponentUpgrade" /\ op.phase = "Verifying"

\* A boot ID that is not the recorded one is that of the reboot the operation
\* ordered: the machine is up, with what was staged on its disk.
RebootFacts ==
    /\ BeforeReboot => Stable /\ status.bootID = machine.boot
    /\ AwaitsReboot /\ machine.boot # status.bootID => Stable
    /\ AfterReboot => Stable
    /\ op.phase = "UpgradeUncordon" =>
          status.bootID = machine.boot /\ machine.release = spec.release

\* KubernetesUnschedulable tells whether the node was cordoned before.
CordonSeen ==
    /\ op.type \in {"Apply", "KubernetesComponentUpgrade"}
    /\ op.phase \notin {"None", "Pending", "Done", "Failed"}
    => status.unsched = began.cordoned

StillCordoned == began.cordoned => cordoned

Upgraded == machine.release # began.release

\* An Apply upgrades first if it has to; then it applies what it expects, and a
\* node it has cordoned is one whose machine needs a reboot.
ApplyFacts ==
    op.type = "Apply" =>
        /\ op.phase \in InstallPhases \union {"UpgradeVerifying", "UpgradeUncordon"} =>
              began.release # spec.release
        /\ op.phase \in {"Applying", "ApplyDrain", "ApplyVerifying"} =>
              machine.release = spec.release /\ (StillCordoned \/ Upgraded)
        /\ op.phase = "Applying" =>
              cordoned = began.cordoned \/ Upgraded \/ NeedsReboot(Expected)
        /\ op.phase = "ApplyDrain" => NeedsReboot(Expected)
        /\ op.phase = "ApplyVerifying" =>
              machine.disk = Expected /\ machine.installed = machine.release

\* A component upgrade starts in sync, so that Talos does not reboot for it.
ComponentFacts ==
    op.type = "KubernetesComponentUpgrade" =>
        /\ op.phase \in {"Draining", "Applying", "KubeletReboot", "VerifyReboot", "Verifying"} =>
              /\ machine.release = spec.release /\ machine.installed = spec.release
              /\ machine.running.user = spec.user
              /\ StillCordoned
        /\ op.phase \in {"KubeletReboot", "VerifyReboot", "Verifying"} =>
              machine.running = Expected /\ machine.disk = Expected

\* What is true of an undisturbed operation, phase by phase.
CleanFacts == Waiting /\ RebootFacts /\ CordonSeen /\ ApplyFacts /\ ComponentFacts

\* DoneIsDone is not inductive: that the last phase may conclude Done rests on
\* all that the phases before it have left on the machine and in the status.
CleanInv ==
    /\ MachineTypeOK
    /\ Snapshot
    /\ worker.busy => ~isOperationComplete
    /\ worker.busy /\ began.clean => ~worker.stale
    /\ op.type = "None" => op.phase = "None"
    /\ began.clean => CleanFacts
    /\ DoneIsDone

\* A handler has written phase p, and is not cut off.
Wrote(p) ==
    /\ op'.phase = p /\ op'.type = op.type /\ op'.component = op.component
    /\ began' = began /\ spec' = spec
    /\ ~worker'.busy

Untouched == machine' = machine /\ cordoned' = cordoned

\* Of the ends of a handler the one that leaves the operation clean wrote.
LEMMA CleanEnd ==
    ASSUME MachineTypeOK, spec' = spec, NEW p, NEW first, NEW last, End(p, first, last),
           began'.clean
    PROVE  Wrote(p) /\ status' = last
BY IdleTypes DEF End, Wrote, MachineTypeOK, Operations, Beginnings

\* The same for a write of a phase alone.
LEMMA CleanWrite ==
    ASSUME MachineTypeOK, spec' = spec, NEW p, Write(p), began'.clean
    PROVE  Wrote(p) /\ status' = status
BY CleanEnd DEF Write

\* Nothing is claimed of an operation that failed or is over.
LEMMA OverFacts ==
    ASSUME op'.phase \in {"None", "Done", "Failed"}
    PROVE  CleanFacts'
BY DEF CleanFacts, Waiting, RebootFacts, BeforeReboot, AwaitsReboot, AfterReboot, InstallPhases,
       CordonSeen, ApplyFacts, ComponentFacts

\* The same for a handler that wrote Failed.
LEMMA FailedFacts ==
    ASSUME Wrote("Failed")
    PROVE  CleanFacts' /\ DoneIsDone'
BY OverFacts DEF Wrote, DoneIsDone

\* The facts are about what the operation, the machine and the specs are; that a
\* reconcile ends does not matter.
LEMMA SameFacts ==
    ASSUME CleanFacts, UNCHANGED <<op, status, machine, cordoned, began, spec>>, ~worker'.busy
    PROVE  CleanFacts'
BY DEF CleanFacts, Waiting, RebootFacts, BeforeReboot, AwaitsReboot, AfterReboot, CordonSeen,
       StillCordoned, Upgraded, ApplyFacts, ComponentFacts, Stable, NothingPending, NeedsReboot,
       Expected, ExpectedOf

\* The same for DoneIsDone, which looks at the versions in the status only.
LEMMA SameDone ==
    ASSUME DoneIsDone,
           UNCHANGED <<op, machine, cordoned, began, spec>>, status'.kube = status.kube
    PROVE  DoneIsDone'
BY DEF DoneIsDone, Settled, CordonKept, InSync, ExpectedOf

\* A handler that writes and does nothing keeps everything.
LEMMA RequeueFacts ==
    ASSUME CleanFacts, DoneIsDone, Quietly(Requeue), spec' = spec
    PROVE  CleanFacts' /\ DoneIsDone'
BY SameFacts, SameDone, IdleTypes DEF Quietly, Requeue

\* A drain that goes on leaves the node cordoned, whether or not the pods are gone.
LEMMA DrainCases ==
    ASSUME MachineTypeOK, spec' = spec, NEW next, Drain(next), began'.clean
    PROVE  \/ Wrote("Failed")
           \/ Wrote(next) /\ UNCHANGED <<status, machine>> /\ cordoned' = TRUE
           \/ /\ UNCHANGED <<op, status, machine, began, spec>> /\ cordoned' = TRUE
              /\ ~worker'.busy
BY CleanWrite, IdleTypes DEF Drain, Fail, Requeue

\* Waiting in a drain.
LEMMA DrainingFacts ==
    ASSUME MachineTypeOK, CleanFacts, op.phase \in {"Draining", "UpgradeDrain", "ApplyDrain"},
           UNCHANGED <<op, status, machine, began, spec>>, cordoned' = TRUE, ~worker'.busy
    PROVE  CleanFacts' /\ DoneIsDone'
BY DEF CleanFacts, Waiting, RebootFacts, BeforeReboot, AwaitsReboot, AfterReboot, CordonSeen,
       StillCordoned, Upgraded, ApplyFacts, ComponentFacts, Stable, NothingPending, NeedsReboot,
       Expected, ExpectedOf, DoneIsDone

\* The handler of a reboot.
LEMMA RebootFactsKept ==
    ASSUME MachineTypeOK, CleanFacts, DoneIsDone, worker.busy, spec' = spec, began'.clean,
           Current, op.type = "Reboot", HandleReboot
    PROVE  CleanFacts' /\ DoneIsDone'
<1> USE DEF CleanFacts, Waiting, RebootFacts, BeforeReboot, AwaitsReboot, AfterReboot,
            InstallPhases, CordonSeen, ApplyFacts, ComponentFacts, Stable, DoneIsDone, Wrote,
            Current
<1>1. CASE op.phase = "Pending" /\ Quietly(Write("Draining"))
  <2>1. Wrote("Draining") /\ UNCHANGED <<status, machine>>
    BY <1>1, CleanWrite DEF Quietly
  <2> QED
    BY <1>1, <2>1 DEF Fresh, NothingPending
<1>2. CASE op.phase = "Draining" /\ Drain("Applying")
  <2>1. CASE Wrote("Applying") /\ UNCHANGED <<status, machine>>
    BY <1>2, <2>1 DEF NothingPending
  <2> QED
    BY <1>2, <2>1, DrainCases, DrainingFacts, FailedFacts
<1>3. ASSUME Fail PROVE CleanFacts' /\ DoneIsDone'
  BY <1>3, CleanWrite, FailedFacts DEF Fail
<1>4. CASE op.phase = "Applying" /\ machine' = Rebooting(machine) /\ Write("Verifying")
  <2>1. Wrote("Verifying") /\ status' = status
    BY <1>4, CleanWrite
  <2>2. machine'.boot = status'.bootID
    BY <1>4, <2>1 DEF Rebooting, MachineTypeOK, Machines
  <2> QED
    BY <1>4, <2>1, <2>2
<1>5. CASE /\ op.phase = "Verifying" /\ hasNodeRebootedYet
           /\ doNodeUncordon /\ Write("Done") /\ UNCHANGED machine
  <2>1. Wrote("Done") /\ cordoned' = FALSE /\ machine' = machine
    BY <1>5, CleanWrite DEF doNodeUncordon
  <2>2. machine.up /\ ~machine.rebooting
    BY <1>5 DEF hasNodeRebootedYet, NothingPending
  <2> QED
    BY <2>1, <2>2 DEF Settled
<1> QED
  BY <1>1, <1>2, <1>3, <1>4, <1>5, RequeueFacts DEF HandleReboot, Rebooted

\* The stages of an upgrade, of its own or of an Apply.
LEMMA UpgradeFactsKept ==
    ASSUME MachineTypeOK, CleanFacts, DoneIsDone, worker.busy, spec' = spec, began'.clean,
           Current, op.type \in {"Upgrade", "Apply"}, op.type = "Apply" => op.phase # "Pending",
           machine.up, UpgradePrepare \/ UpgradeInstall \/ UpgradeVerify \/ UpgradeUncordon
    PROVE  CleanFacts' /\ DoneIsDone'
<1> USE DEF CleanFacts, Waiting, RebootFacts, BeforeReboot, AwaitsReboot, AfterReboot,
            InstallPhases, CordonSeen, ApplyFacts, ComponentFacts, Stable, DoneIsDone, Wrote,
            Current
<1>1. ASSUME Fail PROVE CleanFacts' /\ DoneIsDone'
  BY <1>1, CleanWrite, FailedFacts DEF Fail
<1>2. ASSUME NEW p \in InstallPhases, Wrote(p), UNCHANGED <<status, machine>>,
             BeforeReboot, op.phase \in InstallPhases
      PROVE  CleanFacts' /\ DoneIsDone'
  BY <1>2 DEF NothingPending
<1>3. CASE UpgradePrepare
  <2>1. CASE op.phase = "Pending" /\ Quietly(Write("Done")) /\ machine.release = spec.release
    <3>1. Wrote("Done") /\ machine' = machine
      BY <2>1, CleanWrite DEF Quietly
    <3> QED
      BY <2>1, <3>1 DEF Settled, NothingPending
  <2>2. CASE op.phase = "Pending" /\ Quietly(Write("UpgradeDrain"))
    <3>1. Wrote("UpgradeDrain") /\ UNCHANGED <<status, machine>>
      BY <2>2, CleanWrite DEF Quietly
    <3> QED
      BY <2>2, <3>1 DEF Fresh, NothingPending
  <2>3. CASE op.phase = "UpgradeDrain" /\ Drain("UpgradePreflight")
    <3>1. CASE Wrote("UpgradePreflight") /\ UNCHANGED <<status, machine>>
      BY <1>2, <2>3, <3>1
    <3> QED
      BY <2>3, <3>1, DrainCases, DrainingFacts, FailedFacts
  <2>4. ASSUME NEW p \in InstallPhases, op.phase \in {"UpgradePreflight", "Upgrade113ImagePull"},
               Quietly(Write(p))
        PROVE  CleanFacts' /\ DoneIsDone'
    <3>1. Wrote(p) /\ UNCHANGED <<status, machine>>
      BY <2>4, CleanWrite DEF Quietly
    <3> QED
      BY <1>2, <2>4, <3>1
  <2> QED
    BY <1>3, <2>1, <2>2, <2>3, <2>4 DEF UpgradePrepare
<1>4. CASE UpgradeInstall
  <2>1. CASE Write("Failed")
    BY <2>1, CleanWrite, FailedFacts
  <2>2. CASE machine' = Rebooting(Installed(machine)) /\ Write("UpgradeVerifying")
    <3>1. Wrote("UpgradeVerifying") /\ status' = status
      BY <2>2, CleanWrite
    <3>2. machine'.boot = status'.bootID
      BY <1>4, <2>2, <3>1 DEF UpgradeInstall, Rebooting, Installed, MachineTypeOK, Machines
    <3> QED
      BY <1>4, <3>1, <3>2 DEF UpgradeInstall
  <2> QED
    BY <1>4, <2>1, <2>2 DEF UpgradeInstall
<1>5. CASE UpgradeVerify
  <2> DEFINE booted == [status EXCEPT !.bootID = machine.boot]
  <2>1. CASE /\ hasNodeRebootedYet /\ machine.release = spec.release
             /\ Quietly(End("UpgradeUncordon", booted, booted))
    <3>1. Wrote("UpgradeUncordon") /\ status' = booted /\ machine' = machine
      BY <2>1, CleanEnd DEF Quietly
    <3>2. status'.bootID = machine.boot /\ status'.unsched = status.unsched
      BY <3>1 DEF MachineTypeOK, Statuses
    <3>3. Stable /\ op.phase = "UpgradeVerifying"
      BY <1>5, <2>1 DEF UpgradeVerify, hasNodeRebootedYet
    <3> QED
      BY <2>1, <3>1, <3>2, <3>3 DEF NothingPending
  <2> QED
    BY <1>1, <1>5, <2>1, RequeueFacts DEF UpgradeVerify, Rebooted
<1>6. CASE UpgradeUncordon
  <2>1. op.phase = "UpgradeUncordon" /\ machine' = machine
    BY <1>6 DEF UpgradeUncordon
  <2>2. CASE op.type = "Apply"
    <3>1. Wrote("Applying") /\ status' = status
      BY <1>6, <2>2, CleanWrite DEF UpgradeUncordon
    <3> QED
      BY <2>1, <2>2, <3>1 DEF Upgraded, NothingPending
  <2>3. CASE op.type = "Upgrade"
    <3>1. Wrote("Done") /\ status' = status
      BY <1>6, <2>3, CleanWrite DEF UpgradeUncordon
    <3> QED
      BY <2>1, <2>3, <3>1 DEF Settled, NothingPending
  <2> QED
    BY <2>2, <2>3
<1> QED
  BY <1>3, <1>4, <1>5, <1>6

\* The handler of an Apply.
LEMMA ApplyFactsKept ==
    ASSUME MachineTypeOK, CleanFacts, DoneIsDone, worker.busy, spec' = spec, began'.clean,
           Current, op.type = "Apply", HandleApply
    PROVE  CleanFacts' /\ DoneIsDone'
<1> USE DEF CleanFacts, Waiting, RebootFacts, BeforeReboot, AwaitsReboot, AfterReboot,
            InstallPhases, CordonSeen, ApplyFacts, ComponentFacts, Stable, DoneIsDone, Wrote,
            Current
<1>1. ASSUME Fail PROVE CleanFacts' /\ DoneIsDone'
  BY <1>1, CleanWrite, FailedFacts DEF Fail
<1>2. ASSUME status'.kube = status.kube, spec' = spec PROVE Expected' = Expected
  BY <1>2 DEF Expected, ExpectedOf
<1>3. CASE machine.up /\ ApplyPending
  <2> DEFINE cleared == [status EXCEPT !.drift = FALSE]
  <2>1. /\ cleared.bootID = status.bootID /\ cleared.kube = status.kube
        /\ cleared.unsched = status.unsched
    BY DEF MachineTypeOK, Statuses
  <2>2. op.phase = "Pending" /\ machine' = machine /\ cordoned' = cordoned
    BY <1>3 DEF ApplyPending, Quietly
  <2>3. Fresh
    BY <2>2
  <2>4. CASE status.inSync /\ End("Done", cleared, cleared)
    <3>1. Wrote("Done") /\ status' = cleared
      BY <2>4, CleanEnd
    <3>2. InSync(status)'
      BY <2>1, <2>2, <2>3, <2>4, <3>1 DEF Fresh, InSync, ExpectedOf
    <3>3. Settled' /\ CordonKept'
      BY <2>2, <2>3, <3>1 DEF Settled, CordonKept, Fresh, NothingPending
    <3> QED
      BY <3>1, <3>2, <3>3
  <2>5. CASE machine.release # spec.release /\ End("UpgradeDrain", cleared, cleared)
    <3>1. Wrote("UpgradeDrain") /\ status' = cleared
      BY <2>5, CleanEnd
    <3> QED
      BY <2>1, <2>2, <2>3, <2>5, <3>1 DEF Fresh, NothingPending
  <2>6. CASE machine.release = spec.release /\ End("Applying", cleared, cleared)
    <3>1. Wrote("Applying") /\ status' = cleared
      BY <2>6, CleanEnd
    <3> QED
      BY <2>1, <2>2, <2>3, <2>6, <3>1 DEF Fresh, NothingPending, StillCordoned
  <2> QED
    BY <1>3, <2>4, <2>5, <2>6 DEF ApplyPending, Quietly
<1>4. CASE machine.up /\ ApplyApplying
  <2>1. op.phase = "Applying" /\ Stable /\ status.bootID = machine.boot
    BY <1>4 DEF ApplyApplying
  <2>2. CASE NeedsReboot(Expected) /\ ~cordoned /\ Quietly(Write("ApplyDrain"))
    <3>1. Wrote("ApplyDrain") /\ UNCHANGED <<status, machine, cordoned>>
      BY <2>2, CleanWrite DEF Quietly
    <3>2. NeedsReboot(Expected)'
      BY <2>2, <3>1 DEF NeedsReboot, Expected, ExpectedOf
    <3> QED
      BY <2>1, <3>1, <3>2 DEF NothingPending, StillCordoned, Upgraded
  <2> DEFINE hashed == [status EXCEPT !.hash = HashOf(Expected)]
  <2>3. /\ hashed.bootID = status.bootID /\ hashed.kube = status.kube
        /\ hashed.unsched = status.unsched
    BY DEF MachineTypeOK, Statuses
  <2>4. CASE /\ NeedsReboot(Expected) /\ machine' = Applied(Expected)
             /\ End("ApplyVerifying", status, hashed) /\ cordoned' = cordoned
    <3>1. Wrote("ApplyVerifying") /\ status' = hashed
      BY <2>4, CleanEnd
    <3>2. /\ machine'.disk = Expected /\ machine'.boot = machine.boot
          /\ machine'.release = machine.release /\ machine'.installed = machine.installed
      BY <2>4 DEF Applied, MachineTypeOK, Machines
    <3>3. Expected' = Expected
      BY <1>2, <2>3, <3>1
    <3> QED
      BY <2>1, <2>3, <2>4, <3>1, <3>2, <3>3 DEF NothingPending, StillCordoned, Upgraded
  <2>5. CASE /\ ~NeedsReboot(Expected) /\ machine' = Applied(Expected)
             /\ End("Done", status, hashed) /\ cordoned' = cordoned
    <3>1. Wrote("Done") /\ status' = hashed
      BY <2>5, CleanEnd
    <3>2. /\ machine'.running = Expected /\ machine'.release = machine.release
          /\ machine'.up = machine.up /\ machine'.rebooting = machine.rebooting
      BY <2>5 DEF Applied, MachineTypeOK, Machines
    <3>3. Expected' = Expected
      BY <1>2, <2>3, <3>1
    <3>4. InSync(status)'
      BY <2>1, <3>1, <3>2, <3>3 DEF InSync, Expected
    <3>5. Settled'
      BY <2>1, <3>2 DEF Settled, NothingPending
    <3>6. CordonKept'
      BY <2>1, <2>5, <3>1, <3>2 DEF CordonKept, Upgraded
    <3> QED
      BY <3>1, <3>4, <3>5, <3>6
  <2> QED
    BY <1>4, <2>2, <2>4, <2>5 DEF ApplyApplying
<1>5. CASE op.phase = "ApplyDrain" /\ Drain("Applying")
  <2>1. CASE Wrote("Applying") /\ UNCHANGED <<status, machine>> /\ cordoned' = TRUE
    <3>1. NeedsReboot(Expected)'
      BY <1>5, <2>1 DEF NeedsReboot, Expected, ExpectedOf
    <3> QED
      BY <1>5, <2>1, <3>1 DEF NothingPending, StillCordoned
  <2> QED
    BY <1>5, <2>1, DrainCases, DrainingFacts, FailedFacts
<1>6. CASE ApplyVerifying
  <2> DEFINE synced == [status EXCEPT !.inSync = TRUE]
  <2>1. synced.kube = status.kube
    BY DEF MachineTypeOK, Statuses
  <2>2. CASE /\ hasNodeRebootedYet /\ uncordonUnlessUnsched
             /\ End("Done", synced, synced) /\ machine' = machine
    <3>1. Wrote("Done") /\ status' = synced
      BY <2>2, CleanEnd
    <3>2. Stable /\ machine.disk = Expected /\ machine.release = spec.release
      BY <1>6, <2>2 DEF ApplyVerifying, hasNodeRebootedYet
    <3>3. InSync(status)' /\ Settled'
      BY <1>2, <2>1, <2>2, <3>1, <3>2 DEF InSync, Settled, NothingPending, Expected
    <3>4. CordonKept'
      <4>1. status.unsched = began.cordoned /\ (StillCordoned \/ Upgraded)
        BY <1>6 DEF ApplyVerifying
      <4>2. CASE status.unsched
        BY <2>2, <3>1, <4>1, <4>2
           DEF uncordonUnlessUnsched, CordonKept, StillCordoned, Upgraded, MachineTypeOK, Statuses
      <4>3. CASE ~status.unsched
        BY <2>2, <3>1, <4>1, <4>3
           DEF uncordonUnlessUnsched, doNodeUncordon, CordonKept, MachineTypeOK, Statuses
      <4> QED
        BY <4>2, <4>3
    <3> QED
      BY <3>1, <3>3, <3>4
  <2> QED
    BY <1>1, <1>6, <2>2, RequeueFacts DEF ApplyVerifying, Rebooted
<1> QED
  BY <1>1, <1>3, <1>4, <1>5, <1>6, RequeueFacts, UpgradeFactsKept
     DEF HandleApply, UpgradeInstall, UpgradeVerify, UpgradeUncordon

\* The handler of a component upgrade.
LEMMA ComponentFactsKept ==
    ASSUME MachineTypeOK, CleanFacts, DoneIsDone, worker.busy, spec' = spec, began'.clean,
           Current, op.type = "KubernetesComponentUpgrade", HandleComponentUpgrade
    PROVE  CleanFacts' /\ DoneIsDone'
<1> USE DEF CleanFacts, Waiting, RebootFacts, BeforeReboot, AwaitsReboot, AfterReboot,
            InstallPhases, CordonSeen, ApplyFacts, ComponentFacts, Stable, DoneIsDone, Wrote,
            Current
<1>1. ASSUME Fail PROVE CleanFacts' /\ DoneIsDone'
  BY <1>1, CleanWrite, FailedFacts DEF Fail
<1>2. ASSUME status' = status PROVE Expected' = Expected
  BY <1>2 DEF Expected, ExpectedOf
<1>3. CASE ComponentPending
  <2> DEFINE bumped == [status EXCEPT !.kube[read.component] = spec.version]
  <2>1. bumped.bootID = status.bootID /\ bumped.unsched = status.unsched
    BY DEF MachineTypeOK, Statuses
  <2>2. op.phase = "Pending" /\ Fresh
    BY <1>3 DEF ComponentPending
  <2>3. CASE /\ status.inSync /\ Untouched
             /\ op.component \in DisabledComponents /\ End("Done", bumped, bumped)
    <3>1. Wrote("Done")
      BY <2>3, CleanEnd
    <3>2. Settled' /\ CordonKept'
      BY <2>2, <2>3, <3>1 DEF Settled, CordonKept, Fresh, NothingPending, Untouched
    <3> QED
      BY <2>3, <3>1, <3>2
  <2>4. ASSUME NEW p \in {"Draining", "Applying"}, status.inSync, Untouched,
               End(p, bumped, bumped)
        PROVE  CleanFacts' /\ DoneIsDone'
    <3>1. Wrote(p) /\ status' = bumped
      BY <2>4, CleanEnd
    <3>2. InSync(status)
      BY <2>2, <2>4 DEF Fresh
    <3>3. /\ machine.release = spec.release /\ machine.installed = spec.release
          /\ machine.running.user = spec.user
      BY <2>2, <3>2 DEF InSync, ExpectedOf, NothingPending
    <3> QED
      BY <2>1, <2>2, <2>4, <3>1, <3>3 DEF Fresh, NothingPending, StillCordoned, Untouched
  <2> QED
    BY <1>1, <1>3, <2>3, <2>4 DEF ComponentPending, Quietly, Untouched
<1>4. CASE op.phase = "Draining" /\ Drain("Applying")
  <2>1. CASE Wrote("Applying") /\ UNCHANGED <<status, machine>> /\ cordoned' = TRUE
    BY <1>4, <2>1 DEF NothingPending, StillCordoned
  <2> QED
    BY <1>4, <2>1, DrainCases, DrainingFacts, FailedFacts
<1>5. CASE ComponentApply
  <2>1. op.phase = "Applying" /\ Stable /\ cordoned' = cordoned
    BY <1>5 DEF ComponentApply
  <2>2. ~NeedsReboot(Expected)
    BY <2>1 DEF NeedsReboot, Expected, ExpectedOf
  <2>3. PICK p \in {"KubeletReboot", "Verifying"} : Write(p)
    BY <1>5 DEF ComponentApply
  <2>4. Wrote(p) /\ status' = status
    BY <2>3, CleanWrite
  <2>5. /\ machine'.running = Expected /\ machine'.disk = Expected
        /\ machine'.boot = machine.boot /\ machine'.up = machine.up
        /\ machine'.rebooting = machine.rebooting
        /\ machine'.release = machine.release /\ machine'.installed = machine.installed
    BY <1>5, <2>2 DEF ComponentApply, Applied, MachineTypeOK, Machines
  <2>6. machine'.running.user = spec.user
    BY <2>5 DEF Expected, ExpectedOf
  <2>7. Stable'
    BY <2>1, <2>5 DEF NothingPending
  <2> QED
    BY <1>2, <2>1, <2>4, <2>5, <2>6, <2>7 DEF StillCordoned
<1>6. CASE ComponentReboot
  <2>1. CASE /\ op.phase = "KubeletReboot" /\ machine' = Rebooting(machine)
             /\ Write("VerifyReboot") /\ cordoned' = cordoned
    <3>1. Wrote("VerifyReboot") /\ status' = status
      BY <2>1, CleanWrite
    <3>2. /\ machine'.running = machine.running /\ machine'.disk = machine.disk
          /\ machine'.boot = machine.boot
          /\ machine'.release = machine.release /\ machine'.installed = machine.installed
      BY <2>1 DEF Rebooting, MachineTypeOK, Machines
    <3> QED
      BY <1>2, <2>1, <3>1, <3>2 DEF StillCordoned
  <2>2. CASE op.phase = "VerifyReboot" /\ hasNodeRebootedYet /\ Quietly(Write("Verifying"))
    <3>1. Wrote("Verifying") /\ UNCHANGED <<status, machine, cordoned>>
      BY <2>2, CleanWrite DEF Quietly
    <3> QED
      BY <1>2, <2>2, <3>1 DEF hasNodeRebootedYet, StillCordoned, NothingPending
  <2> QED
    BY <1>1, <1>6, <2>1, <2>2, RequeueFacts DEF ComponentReboot
<1>7. CASE ComponentVerify
  <2>1. CASE /\ op.phase = "Verifying" /\ uncordonUnlessUnsched /\ Write("Done")
             /\ machine' = machine
    <3>1. Wrote("Done") /\ status' = status
      BY <2>1, CleanWrite
    <3>2. Settled' /\ InSync(status)'
      BY <1>2, <2>1, <3>1 DEF Settled, InSync, NothingPending, Expected
    <3>3. CordonKept'
      <4>1. status.unsched = began.cordoned /\ StillCordoned
        BY <2>1
      <4>2. CASE status.unsched
        BY <2>1, <3>1, <4>1, <4>2
           DEF uncordonUnlessUnsched, CordonKept, StillCordoned, MachineTypeOK, Statuses
      <4>3. CASE ~status.unsched
        BY <2>1, <3>1, <4>1, <4>3
           DEF uncordonUnlessUnsched, doNodeUncordon, CordonKept, MachineTypeOK, Statuses
      <4> QED
        BY <4>2, <4>3
    <3> QED
      BY <3>1, <3>2, <3>3
  <2> QED
    BY <1>1, <1>7, <2>1, RequeueFacts DEF ComponentVerify
<1> QED
  BY <1>1, <1>3, <1>4, <1>5, <1>6, <1>7 DEF HandleComponentUpgrade

\* A handler that is cut off leaves an operation that is not clean.
LEMMA CleanBefore ==
    ASSUME MachineTypeOK, Handle, began'.clean
    PROVE  began.clean
<1>1. /\ \A p, first, last : End(p, first, last) => began.clean
      /\ Requeue => began.clean
  BY DEF End, Requeue, MachineTypeOK, Beginnings
<1>2. /\ \A p : Write(p) => began.clean
      /\ Fail => began.clean
      /\ \A p : Drain(p) => began.clean
  BY <1>1 DEF Write, Fail, Drain
<1>3. ASSUME UpgradePrepare \/ UpgradeInstall \/ UpgradeVerify \/ UpgradeUncordon
      PROVE  began.clean
  BY <1>1, <1>2, <1>3 DEF UpgradePrepare, UpgradeInstall, UpgradeVerify, UpgradeUncordon, Quietly,
                          Rebooted
<1>4. ASSUME HandleReboot PROVE began.clean
  BY <1>1, <1>2, <1>4 DEF HandleReboot, Quietly, Rebooted
<1>5. ASSUME HandleApply PROVE began.clean
  BY <1>1, <1>2, <1>3, <1>5 DEF HandleApply, ApplyPending, ApplyApplying, ApplyVerifying, Quietly,
                                Rebooted
<1>6. ASSUME HandleComponentUpgrade PROVE began.clean
  BY <1>1, <1>2, <1>6 DEF HandleComponentUpgrade, ComponentPending, ComponentApply,
                          ComponentReboot, ComponentVerify, Quietly
<1> QED
  BY <1>1, <1>2, <1>3, <1>4, <1>5, <1>6 DEF Handle, HandleUpgrade, Quietly

\* The handlers keep the facts, or end an operation that is no longer clean.
LEMMA HandleFacts ==
    ASSUME CleanInv, Handle
    PROVE  (began'.clean => CleanFacts') /\ DoneIsDone'
<1>1. MachineTypeOK /\ DoneIsDone /\ worker.busy /\ spec' = spec
  BY DEF CleanInv, Handle
<1>2. CASE ~began'.clean
  BY <1>2 DEF DoneIsDone
<1>3. CASE began'.clean
  <2>1. CleanFacts /\ Current
    BY <1>1, <1>3, CleanBefore DEF CleanInv, Snapshot
  <2>2. ASSUME Fail PROVE CleanFacts' /\ DoneIsDone'
    BY <1>1, <1>3, <2>2, CleanWrite, FailedFacts DEF Fail
  <2>3. CASE op.type = "Upgrade" /\ HandleUpgrade
    BY <1>1, <1>3, <2>1, <2>2, <2>3, UpgradeFactsKept DEF HandleUpgrade
  <2>4. read.type = op.type
    BY <2>1 DEF Current
  <2> QED
    BY <1>1, <1>3, <2>1, <2>3, <2>4, RebootFactsKept, ApplyFactsKept, ComponentFactsKept,
       RequeueFacts DEF Handle
<1> QED
  BY <1>2, <1>3

\* Machines go down and come back: nothing else happens to them by themselves,
\* and a machine that came back is stable.
LEMMA BootFacts ==
    ASSUME MachineTypeOK, CleanFacts, DoneIsDone, began.clean, GoDown \/ ComeUp
    PROVE  CleanFacts' /\ DoneIsDone'
<1> USE DEF CleanFacts, Waiting, RebootFacts, BeforeReboot, AwaitsReboot, AfterReboot,
            CordonSeen, ApplyFacts, ComponentFacts, DoneIsDone
<1>1. UNCHANGED <<spec, status, op, cordoned, worker, began>>
  BY DEF GoDown, ComeUp
<1>2. Expected' = Expected
  BY <1>1 DEF Expected, ExpectedOf
<1>3. CASE GoDown
  <2>1. machine.rebooting /\ ~NothingPending /\ op.phase # "Done"
    BY <1>3 DEF GoDown, NothingPending, Settled
  <2>2. /\ machine'.boot = machine.boot /\ machine'.running = machine.running
        /\ machine'.disk = machine.disk /\ machine'.release = machine.release
        /\ machine'.installed = machine.installed
    BY <1>3 DEF GoDown, MachineTypeOK, Machines
  <2>3. Waiting' /\ RebootFacts' /\ CordonSeen'
    BY <1>1, <2>1, <2>2 DEF Stable
  <2>4. ~BeforeReboot /\ ~AfterReboot
    BY <2>1 DEF Stable
  <2>5. ApplyFacts' /\ ComponentFacts'
    BY <1>1, <1>2, <2>2, <2>4 DEF StillCordoned, Upgraded, InstallPhases
  <2> QED
    BY <1>1, <2>1, <2>3, <2>5
<1>4. CASE ComeUp
  <2>1. ~machine.up /\ op.phase # "Done"
    BY <1>4 DEF ComeUp, Settled
  <2>2. /\ machine'.up = TRUE /\ machine'.rebooting = FALSE
        /\ machine'.running = machine.disk /\ machine'.disk = machine.disk
        /\ machine'.release = machine.installed /\ machine'.installed = machine.installed
    BY <1>4 DEF ComeUp, MachineTypeOK, Machines
  <2>3. Stable' /\ ~BeforeReboot /\ ~AfterReboot
    BY <2>1, <2>2 DEF Stable, NothingPending
  <2>4. Waiting'
    BY <1>1, <2>1, <2>2, <2>3 DEF Fresh, Stable, NothingPending
  <2>5. RebootFacts' /\ CordonSeen'
    BY <1>1, <2>3
  <2>6. ApplyFacts'
    BY <1>1, <1>2, <2>2, <2>3 DEF StillCordoned, Upgraded, InstallPhases
  <2>7. ComponentFacts'
    BY <1>1, <1>2, <2>2, <2>3 DEF StillCordoned
  <2> QED
    BY <1>1, <2>1, <2>4, <2>5, <2>6, <2>7
<1> QED
  BY <1>3, <1>4

\* Every step keeps the facts about clean operations.
LEMMA NextClean == CleanInv /\ [Next]_vars => CleanInv'
<1> SUFFICES ASSUME CleanInv, [Next]_vars PROVE CleanInv'
  OBVIOUS
<1>1. MachineTypeOK' /\ Snapshot' /\ MachineTypeOK /\ DoneIsDone
  BY NextTypes, NextSnapshot DEF CleanInv
<1>2. CASE Handle
  <2>1. EndsWell
    BY <1>1, <1>2, HandleEndsWell
  <2>2. op.type # "None"
    BY <1>2 DEF Handle, CleanInv, isOperationComplete
  <2> QED
    BY <1>1, <1>2, <2>1, <2>2, HandleFacts DEF CleanInv, EndsWell
<1>3. CASE Refresh
  <2>1. /\ UNCHANGED <<spec, op, machine, cordoned, worker, began>>
        /\ op.phase \in {"None", "Done", "Failed"} /\ ~worker.busy
    BY <1>3 DEF Refresh, isOperationComplete
  <2>2. status'.kube = status.kube
    BY <1>1, <1>3 DEF Refresh, Refreshed, MachineTypeOK, Statuses
  <2> QED
    BY <1>1, <2>1, <2>2, OverFacts, SameDone DEF CleanInv
<1>4. CASE Fetch
  <2>1. /\ UNCHANGED <<spec, op, machine, cordoned, began>> /\ ~worker'.stale
        /\ op.phase \notin {"None", "Done", "Failed"}
    BY <1>4 DEF Fetch, isOperationComplete
  <2>2. DoneIsDone'
    BY <2>1 DEF DoneIsDone
  <2>3. CASE op.phase = "Pending" /\ began.clean
    <3>1. machine.up /\ NothingPending
      BY <1>4, <2>3 DEF Fetch, CleanInv, CleanFacts, Waiting
    <3>2. /\ status'.bootID = machine.boot /\ status'.inSync = InSync(status)
          /\ status'.unsched = cordoned /\ status'.kube = status.kube
      BY <1>1, <1>4, <2>3 DEF Fetch, Refreshed, MachineTypeOK, Statuses
    <3>3. InSync(status)' = InSync(status)
      BY <2>1, <3>2 DEF InSync, ExpectedOf
    <3>4. Stable'
      BY <2>1, <3>1 DEF Stable, NothingPending
    <3>5. Fresh'
      BY <2>1, <3>2, <3>3, <3>4 DEF Fresh
    <3>6. Waiting'
      BY <2>1, <2>3, <3>4, <3>5 DEF Waiting, CleanInv, CleanFacts, Stable
    <3>7. RebootFacts' /\ CordonSeen' /\ ApplyFacts' /\ ComponentFacts'
      BY <2>1, <2>3 DEF RebootFacts, BeforeReboot, AwaitsReboot, AfterReboot, InstallPhases,
                        CordonSeen, ApplyFacts, ComponentFacts
    <3> QED
      BY <1>1, <2>1, <2>2, <3>6, <3>7 DEF CleanInv, CleanFacts, isOperationComplete
  <2>4. CASE op.phase # "Pending" /\ began.clean
    <3>1. status' = status /\ CleanFacts
      BY <1>4, <2>4 DEF Fetch, CleanInv
    <3>2. CleanFacts'
      BY <2>1, <2>4, <3>1
         DEF CleanFacts, Waiting, RebootFacts, BeforeReboot, AwaitsReboot, AfterReboot,
             CordonSeen, StillCordoned, Upgraded, ApplyFacts, ComponentFacts, Stable,
             NothingPending, NeedsReboot, Expected, ExpectedOf
    <3> QED
      BY <1>1, <2>1, <2>2, <3>2 DEF CleanInv, isOperationComplete
  <2> QED
    BY <1>1, <2>1, <2>2, <2>3, <2>4 DEF CleanInv, isOperationComplete
<1>5. CASE Elapse
  <2>1. /\ op'.type = op.type /\ op'.component = op.component /\ op'.phase = op.phase
        /\ UNCHANGED <<spec, status, machine, cordoned, worker, began>>
    BY <1>1, <1>5 DEF Elapse, MachineTypeOK, Operations
  <2>2. CleanFacts' = CleanFacts
    BY <2>1 DEF CleanFacts, Waiting, Fresh, RebootFacts, BeforeReboot, AwaitsReboot, AfterReboot,
                CordonSeen, StillCordoned, Upgraded, ApplyFacts, ComponentFacts, Stable,
                NothingPending, NeedsReboot, InSync, Expected, ExpectedOf
  <2>3. DoneIsDone'
    BY <1>1, <2>1 DEF DoneIsDone, Settled, CordonKept, InSync, ExpectedOf
  <2> QED
    BY <1>1, <2>1, <2>2, <2>3 DEF CleanInv, isOperationComplete
<1>6. ASSUME NEW t \in ModelledTypes, NEW c, StartOp(t, c) PROVE CleanInv'
  <2>1. /\ op'.phase = "Pending" /\ op'.type = t /\ worker'.busy = worker.busy
        /\ UNCHANGED <<machine, cordoned>>
        /\ began'.cordoned = cordoned /\ began'.release = machine.release
        /\ began'.clean => NothingPending /\ isOperationComplete
    BY <1>1, <1>6 DEF StartOp, MachineTypeOK
  <2>3. began'.clean => ~worker'.busy
    BY <2>1 DEF CleanInv
  <2>2. began'.clean => CleanFacts'
    BY <2>1, <2>3 DEF CleanFacts, Waiting, RebootFacts, BeforeReboot, AwaitsReboot, AfterReboot,
                InstallPhases, CordonSeen, ApplyFacts, ComponentFacts, NothingPending
  <2> QED
    BY <1>1, <2>1, <2>2, <2>3 DEF CleanInv, DoneIsDone, ModelledTypes, isOperationComplete
<1>7. CASE GoDown \/ ComeUp
  <2>1. UNCHANGED <<op, worker, began>>
    BY <1>7 DEF GoDown, ComeUp
  <2>2. CASE began.clean
    BY <1>1, <1>7, <2>1, <2>2, BootFacts DEF CleanInv, isOperationComplete
  <2>3. CASE ~began.clean
    BY <1>1, <2>1, <2>3 DEF CleanInv, DoneIsDone, isOperationComplete
  <2> QED
    BY <2>2, <2>3
<1>8. ASSUME NEW e, Disturb(e) PROVE CleanInv'
  <2>1. ~began'.clean /\ UNCHANGED <<op, worker>>
    BY <1>1, <1>8 DEF Disturb, MachineTypeOK, Beginnings
  <2> QED
    BY <1>1, <2>1 DEF CleanInv, DoneIsDone, isOperationComplete
<1>9. CASE Schedule \/ UNCHANGED vars
  <2>1. UNCHANGED <<spec, status, op, machine, cordoned, worker, began>>
    BY <1>9 DEF Schedule, vars
  <2>2. CleanFacts' = CleanFacts
    BY <2>1 DEF CleanFacts, Waiting, Fresh, RebootFacts, BeforeReboot, AwaitsReboot, AfterReboot,
                CordonSeen, StillCordoned, Upgraded, ApplyFacts, ComponentFacts, Stable,
                NothingPending, NeedsReboot, InSync, Expected, ExpectedOf
  <2> QED
    BY <1>1, <2>1, <2>2, SameDone DEF CleanInv, isOperationComplete
<1> QED
  BY <1>2, <1>3, <1>4, <1>5, <1>6, <1>7, <1>8, <1>9, MachineAssumption
     DEF Next, EditSpec, SetVersion, HandEdit, Cordon, Outage, ModelledTypes

\* It holds initially: no operation has begun.
LEMMA InitClean == Init => CleanInv
<1> SUFFICES ASSUME Init PROVE CleanInv
  OBVIOUS
<1>1. op.type = "None" /\ op.phase = "None" /\ ~worker.busy
  BY IdleTypes DEF Init, NoOperation
<1>2. CleanFacts
  BY <1>1 DEF CleanFacts, Waiting, RebootFacts, BeforeReboot, AwaitsReboot, AfterReboot,
              InstallPhases, CordonSeen, ApplyFacts, ComponentFacts
<1> QED
  BY <1>1, <1>2, InitTypes, InitSnapshot DEF CleanInv, DoneIsDone

\* An operation that nobody disturbs is Done only when it has done what it is
\* for: the machine is up with no reboot before it, has the release or the
\* configuration asked for, and its node is as schedulable as before, whatever
\* operations, crashes, edits and outages came before it.
THEOREM OperationsDoTheirWork == Spec => []DoneIsDone
<1>1. CleanInv => DoneIsDone
  BY DEF CleanInv
<1> QED
  BY <1>1, InitClean, NextClean, PTL DEF Spec

=============================================================================
