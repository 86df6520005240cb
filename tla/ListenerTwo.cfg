SPECIFICATION Spec
CONSTANTS
    Devices = {d1, d2}
    Keys = {k1}
    NoKey = NoKey
    MaxCounter = 1
    MaxFaults = 1
    MaxAttempts = 2
    MaxCertificates = 1
PROPERTY SessionEnds
