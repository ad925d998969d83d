SPECIFICATION FairSpec
CONSTANTS
  NumCalls = 3
  MaxParallel = 2
  MaxFlips = 1
CHECK_DEADLOCK FALSE
INVARIANTS
  TypeOK
  ModelOrder
  HonestOutcome
  AllAnswered
  FailsClean
PROPERTIES
  StartsInTurn
  StopsWhenToldTo
  Terminates
