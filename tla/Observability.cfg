SPECIFICATION Spec
CONSTANTS
    MaxCounter = 3
    MaxRepeats = 1
    MaxFaults = 1
    Writers = {"observer", "server"}
    MaxRows = 4
    MaxTime = 1
    PageSize = 2
    MaxDrops = 1
CHECK_DEADLOCK FALSE
INVARIANTS TypeOK RunningIsShown ShownWasSent 
PROPERTIES NoRowReturns RowsShown
