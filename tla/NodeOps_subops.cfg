SPECIFICATION Spec
CONSTANTS
    n1 = n1
    n2 = n2
    Nodes = {n1, n2}
    UserTypes = {"Reboot", "Provision"}
    ClusterTypes = {"Apply", "KubernetesComponentUpgrade"}
    CoherentCache = TRUE
    MaxRequests = 2
    MaxFaults = 0
SYMMETRY Symmetry
INVARIANTS OneNodeAtATime
PROPERTIES LockSpec
