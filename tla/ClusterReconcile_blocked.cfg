SPECIFICATION FairSpec
CONSTANTS
    NodeOrder <- MCNodeOrder
    SecretOrder <- MCSecretOrder
    OldMedia = {}
    Starts = {}
    Duration = 2
    Events = {}
    ResetKinds = {}
    ShortReconciles = TRUE
    MaxTime = 1
    MaxRequests = 2
    MaxTroubles = 0
PROPERTIES BootstrapsWhenReady
