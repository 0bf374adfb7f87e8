SPECIFICATION Spec
CONSTANTS
    NodeOrder <- MCNodeOrder
    SecretOrder <- MCSecretOrder
    OldMedia = {}
    Starts = {}
    Duration = 2
    Events = {"reset"}
    ResetKinds = {"disks"}
    ShortReconciles = TRUE
    MaxTime = 1
    MaxRequests = 3
    MaxTroubles = 0
INVARIANTS OneEtcd
