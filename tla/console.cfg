SPECIFICATION ConsoleSpec
CONSTANTS
  Seats <- TwoSeats
  FirstSeat = "seat-staff-1"
  Services <- TwoServices
  Clearance <- Clearances
  Dispatchers <- May
  Approvers = {"director"}
  Document <- Library
  MaxTasks = 2
INVARIANTS
  ConsoleTypeOK
  StoreAgrees
