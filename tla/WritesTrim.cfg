SPECIFICATION FairSpec
CONSTANTS
    MaxLog = 2
    MaxFailures = 0
    MaxCrashes = 0
    MaxReloads = 0
    MayTrim = TRUE
    MaxResumes = 1
PROPERTY
    TrimCompletes
CHECK_DEADLOCK FALSE
