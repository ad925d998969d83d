SPECIFICATION FairSpec
CONSTANTS
    MaxLog = 3
    MaxFailures = 1
    MaxCrashes = 1
    MaxReloads = 1
    MayTrim = TRUE
    MaxResumes = 2
INVARIANTS
    TypeOK
    NothingLost
    StoredLegal
PROPERTIES
    FlushIsQuiescent
    ReleasedWhenStored
    DrainsEnd
CHECK_DEADLOCK FALSE
