SPECIFICATION Spec
CONSTANTS
    Cfgs = {"plain", "kernel"}
    RebootCfgs = {"kernel"}
    r1 = r1
    r2 = r2
    Releases = {r1, r2}
    v1 = v1
    v2 = v2
    Versions = {v1, v2}
    Components = {"scheduler", "kubelet"}
    DisabledComponents = {}
    Longhorn = TRUE
    NeedsInitialUpdate = FALSE
    OpTypes = {"Apply"}
    Events = {"spec"}
    MaxRequests = 2
    MaxFaults = 0
    MaxTroubles = 1
PROPERTIES NeverRebootsUndrained
CHECK_DEADLOCK FALSE
