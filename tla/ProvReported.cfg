SPECIFICATION Spec
CONSTANTS
    Devices = {d1}
    Keys = {k1}
    NoKey = NoKey
    MaxCounter = 1
    MaxFaults = 0
    DeviceKey = k1
    Unsigned = NoKey
    MaxHello = 1
    MaxCommands = 1
    MaxChecks = 1
    Device = d1
CHECK_DEADLOCK FALSE
PROPERTIES CompletionReported
