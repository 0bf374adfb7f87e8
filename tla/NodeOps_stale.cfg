SPECIFICATION Spec
CONSTANTS
    n1 = n1
    n2 = n2
    Nodes = {n1, n2}
    UserTypes = {"Reboot"}
    ClusterTypes = {}
    CoherentCache = FALSE
    MaxRequests = 2
    MaxFaults = 0
INVARIANTS OneNodeAtATime
