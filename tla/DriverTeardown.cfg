SPECIFICATION FairSpec
CONSTANTS
  Msgs = {m1}
  MaxDepth = 1
  MaxSteps = 1
  MaxCrashes = 0
CHECK_DEADLOCK FALSE
PROPERTY WhenIdleFulfils
