SPECIFICATION ClusterFairSpec
CONSTANTS
    n1 = n1
    n2 = n2
    Nodes = {n1, n2}
    NodeOrder <- MCNodeOrder
    ControlPlanes = {n1}
    UserTypes = {}
    ClusterTypes = {"Reboot", "KubernetesComponentUpgrade"}
    CoherentCache = TRUE
    MaxRequests = 0
    MaxFaults = 0
    ClusterUserTypes = {"RollingReboot"}
    AutomaticTypes = {"KubernetesUpgrade"}
    MaxClusterRequests = 3
    MaxClusterFaults = 1
INVARIANTS ClusterTypeOK DisruptsOneNode DoneEverywhere
PROPERTIES StepDoneIsReal ClusterOperationEnds
