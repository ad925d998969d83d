SPECIFICATION FairSpec
CONSTANTS
    Jobs = {j1, j2}
    Owners = {a}
    NoOwner = none
    NoJob = nojob
    Waiters = {w1, w2}
    Limit = 1
CHECK_DEADLOCK FALSE
INVARIANTS
    TypeOK
    NobodyMisses
    WorkIsHeld
PROPERTIES
    EndsOnce
    TeardownJoins
