SPECIFICATION Spec
CONSTANTS
    MaxBuild = 3
    FirstBuild = 3
    MaxPublishes = 1
    MaxGrants = 1
    Requests = {r1}
    FaultKinds = {}
    MaxFaults = 0
    DryRun = FALSE
    MaxChecks = 1
    MaxContent = 3
    NoThread = NoThread
CHECK_DEADLOCK FALSE
PROPERTIES DownloadsAreNewer
