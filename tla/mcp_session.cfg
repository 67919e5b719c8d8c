SPECIFICATION FairSpec
CONSTANTS
  red = red
  blue = blue
  s60 = s60
  s80 = s80
  None = None
  Sessions <- MCSolo
  Scores = {s60, s80}
  Foreign = {"noise", "null"}
  MaxLines = 4
INVARIANTS
  TypeOK
  ScoreIsFirstAnswer
PROPERTIES
  SettledByItsOwnRequest
  SessionEnds
CHECK_DEADLOCK FALSE
