SPECIFICATION Spec
CONSTANTS
  red = red
  blue = blue
  s60 = s60
  s80 = s80
  None = None
  Sessions <- MCPair
  Scores = {s60, s80}
  Foreign = {"noise"}
  MaxLines = 1
INVARIANT
  FailureIsContained
CHECK_DEADLOCK FALSE
