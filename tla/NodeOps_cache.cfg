SPECIFICATION Spec
CONSTANTS
    n1 = n1
    n2 = n2
    Nodes = {n1}
    UserTypes = {"Provision", "Bootstrap", "Apply", "Upgrade", "Reboot", "Shutdown", "Reset", "KubernetesComponentUpgrade"}
    ClusterTypes = {}
    CoherentCache = FALSE
    MaxRequests = 3
    MaxFaults = 2
INVARIANTS TypeOK PhaseOfType ProvisionedFirst
PROPERTIES FinishedStaysFinished
