SPECIFICATION Spec
CONSTANTS
    MaxBuild = 3
    FirstBuild = 2
    MaxPublishes = 1
    MaxGrants = 1
    Requests = {r1, r2}
    FaultKinds = {"server", "network", "device", "repeat"}
    MaxFaults = 2
    DryRun = FALSE
    MaxChecks = 1
    MaxContent = 3
    NoThread = NoThread
CHECK_DEADLOCK FALSE
SYMMETRY Symmetry
 
PROPERTIES InstalledWasOffered
