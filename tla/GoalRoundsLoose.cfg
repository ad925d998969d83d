SPECIFICATION Spec
CONSTANTS
    Caps = {1}
    MaxChanges = 2
    MaxPrompts = 0
    None = None
CHECK_DEADLOCK FALSE
PROPERTY AdmissionCloses
