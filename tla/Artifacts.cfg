SPECIFICATION FairSpec
CONSTANTS
    Publishers = {d1, d2}
    Versions = {v1, v2}
    Requests = {r1, r2}
    MaxRequests = 3
    MaxFaults = 1
    Nothing = Nothing
CHECK_DEADLOCK FALSE
INVARIANTS TypeOK CleanPublishAgrees ConverterHasBin LoadedWasHeld MetadataOfBin
PROPERTIES EveryRequestEnds
