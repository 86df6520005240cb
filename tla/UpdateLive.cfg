SPECIFICATION FairSpec
CONSTANTS
    MaxBuild = 2
    FirstBuild = 2
    MaxPublishes = 0
    MaxGrants = 2
    Requests = {r1}
    FaultKinds = {"server", "network", "device", "repeat", "time", "maintenance"}
    MaxFaults = 1
    DryRun = FALSE
    MaxChecks = 2
    MaxContent = 2
    NoThread = NoThread
CHECK_DEADLOCK FALSE
INVARIANTS CleanUpdateConfirmed
PROPERTIES CleanUpdateEnds
