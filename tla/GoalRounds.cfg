SPECIFICATION FairSpec
CONSTANTS
    Caps = {2}
    MaxChanges = 3
    MaxPrompts = 1
    None = None
CHECK_DEADLOCK FALSE
INVARIANT TypeOK
PROPERTIES
    LogFolds
    AbortHalts
    Checkpointed
    GoalMoves
