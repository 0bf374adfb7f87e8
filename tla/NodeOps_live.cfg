SPECIFICATION FairSpec
CONSTANTS
    n1 = n1
    n2 = n2
    Nodes = {n1, n2}
    UserTypes = {"Reboot", "Upgrade"}
    ClusterTypes = {}
    CoherentCache = TRUE
    MaxRequests = 2
    MaxFaults = 1
PROPERTIES StartedOperationsEnd
