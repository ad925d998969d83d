SPECIFICATION FairSpec
CONSTANTS
  Msgs = {m1, m2}
  MaxDepth = 2
  MaxSteps = 2
  MaxCrashes = 1
CHECK_DEADLOCK FALSE
INVARIANTS
  TypeOK
  PhaseHasOneOwner
  LatchDiscipline
  InboxAccount
  FollowupOwnsTurn
PROPERTIES
  AbortStopsWork
  EndingTellsTruth
  ImplementsTurnLog
  CancelConverges
  LatchedWakeRuns
