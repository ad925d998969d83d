SPECIFICATION Spec
CONSTANTS
    MaxLog = 3
    MaxFailures = 0
    MaxCrashes = 0
    MaxReloads = 0
    MayTrim = TRUE
    MaxResumes = 1
PROPERTY
    StaleSessionRejected
CHECK_DEADLOCK FALSE
