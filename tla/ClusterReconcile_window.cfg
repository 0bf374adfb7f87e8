SPECIFICATION FairSpec
CONSTANTS
    NodeOrder <- MCNodeOrder
    SecretOrder <- MCSecretOrder
    OldMedia = {"n1"}
    Starts = {1}
    Duration = 2
    Events = {"reset", "edit", "version", "outage", "window", "timeout", "age", "abort", "cut"}
    ResetKinds = {"all", "disks"}
    ShortReconciles = FALSE
    MaxTime = 3
    MaxRequests = 2
    MaxTroubles = 1
PROPERTIES TriggersByWindow AutoBootstraps
