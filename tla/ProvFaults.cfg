SPECIFICATION FairSpec
CONSTANTS
    Devices = {d1}
    Keys = {k1}
    NoKey = NoKey
    MaxCounter = 2
    MaxFaults = 2
    DeviceKey = k1
    Unsigned = NoKey
    MaxHello = 2
    MaxCommands = 2
    MaxChecks = 0
    Device = d1
CHECK_DEADLOCK FALSE
INVARIANTS TypeOK CleanAttemptAgrees
PROPERTIES KeepsPromise CleanAttemptEnds
