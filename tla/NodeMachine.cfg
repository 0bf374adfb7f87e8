SPECIFICATION Spec
CONSTANTS
    Cfgs = {"plain", "kernel"}
    RebootCfgs = {"kernel"}
    r1 = r1
    r2 = r2
    Releases = {r1, r2}
    v1 = v1
    v2 = v2
    Versions = {v1, v2}
    Components = {"scheduler", "controller-manager", "kubelet"}
    DisabledComponents = {"scheduler"}
    Longhorn = TRUE
    NeedsInitialUpdate = FALSE
    OpTypes = {"Reboot", "Apply", "Upgrade", "KubernetesComponentUpgrade"}
    Events = {"spec", "version", "edit", "cordon", "outage"}
    MaxRequests = 2
    MaxFaults = 1
    MaxTroubles = 2
SYMMETRY Symmetry
INVARIANTS MachineTypeOK RebootDoneMeansRebooted DoneIsDone
PROPERTIES DrainedForReboot NodeOpsSpec
CHECK_DEADLOCK FALSE
