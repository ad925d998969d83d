SPECIFICATION Spec
CONSTANTS
    Caps = {1}
    MaxChanges = 3
    MaxPrompts = 2
    None = None
CHECK_DEADLOCK FALSE
PROPERTY FlushesBeforeQueuing
