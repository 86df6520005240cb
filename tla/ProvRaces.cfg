SPECIFICATION Spec
CONSTANTS
    Devices = {d1}
    Keys = {k1}
    NoKey = NoKey
    MaxCounter = 3
    MaxFaults = 0
    DeviceKey = k1
    Unsigned = NoKey
    MaxHello = 3
    MaxCommands = 3
    MaxChecks = 1
    Device = d1
CHECK_DEADLOCK FALSE
INVARIANTS CleanAttemptAgrees
PROPERTIES KeepsPromise
