SPECIFICATION Spec
CONSTANTS
  blue1 = blue1
  blue2 = blue2
  ghost = ghost
  r1 = r1
  r2 = r2
  r3 = r3
  Seats = {blue1, blue2}
  Requests <- MCRequests
  SeatLists <- MCSeatLists
  MaxList = 2
SYMMETRY MCSymmetry
INVARIANTS
  TypeOK
  BusyTellsWork
  MemoryHoldsFinishedRuns
  ResolvedMeansAllDone
