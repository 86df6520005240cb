SPECIFICATION Spec
CONSTANTS
    Devices = {d1}
    Keys = {k1, k2}
    NoKey = NoKey
    MaxCounter = 2
    MaxFaults = 1
    MaxAttempts = 3
    MaxCertificates = 2
SYMMETRY Symmetry
INVARIANTS TypeOK OneOutcome
PROPERTIES ContextAdvances CompletedIsSaved CountersUsedOnce
