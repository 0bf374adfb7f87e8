SPECIFICATION FairSpec
CONSTANTS
    None = None
    Failed = Failed
    Deleted = Deleted
    Malformed = Malformed
    Versions = {"v1", "v2"}
    FirstVersion = "v1"
    Modern = TRUE
    EnableRTLNodeLabel = TRUE
    Patches <- MCPatches
    FirstPatch <- MCFirstPatch
    ConfigMaps = {"home", "away"}
    Elsewhere = {"away"}
    MaxEdits = 2
    MaxRestarts = 1
    MaxListed = 2
CHECK_DEADLOCK FALSE
PROPERTIES PublishesAdoptedVersions EventuallyPublished
INVARIANTS ConfigTypeOK LastPatchWins
