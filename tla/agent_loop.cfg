SPECIFICATION Spec
CONSTANTS
  MaxMessages <- Three
  MaxSteps = 3
INVARIANTS
  TypeOK
  EveryMessageAccounted
  FollowupsOwnTheirTurns
  LogClosedBetweenDrivers
PROPERTIES
  CancelConverges
  LatchedWakeRuns
