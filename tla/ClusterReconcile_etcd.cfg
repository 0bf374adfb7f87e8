SPECIFICATION Spec
CONSTANTS
    NodeOrder <- MCNodeOrder
    SecretOrder <- MCSecretOrder
    OldMedia = {"n1"}
    Starts = {}
    Duration = 2
    Events = {"reset", "edit", "outage", "timeout", "age"}
    ResetKinds = {"all"}
    ShortReconciles = TRUE
    MaxTime = 1
    MaxRequests = 4
    MaxTroubles = 1
INVARIANTS ReconcileTypeOK OneEtcd CredentialsMatch
