SPECIFICATION FairSpec
CONSTANTS
    FirstVersion = 3
    MaxFaults = 1
    Projects = {p1, p2}
    MaxInstalls = 2
    MaxSetups = 2
    MaxMishaps = 1
    Nothing = Nothing
CHECK_DEADLOCK FALSE
INVARIANTS TypeOK ServesWhole OneIdentityBuilt LockedIsRegistered OneRoot FirstIdentityStands
PROPERTIES IdentityKept ServerComesBack
