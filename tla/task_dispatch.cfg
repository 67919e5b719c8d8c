SPECIFICATION Spec
CONSTANTS
  director = director
  staff1 = staff1
  staff2 = staff2
  core = core
  ooda = ooda
  ipb = ipb
  commander = commander
  staff = staff
  Unlisted = Unlisted
  None = None
  Seats <- MCSeats
  SeatIndex <- MCSeatIndex
  Roles <- MCRoles
  SeatRole <- MCSeatRole
  RolePacks <- MCRolePacks
  RoleAllow <- MCRoleAllow
  InitialRights <- MCInitialRights
  Rights <- MCRights
  Registries <- MCRegistries
  TaskInputs <- MCTaskInputs
  MaxTasks = 3
  MaxOutputs = 2
  MaxFeedback = 2
INVARIANTS
  TypeOK
  LoadTellsWork
  RecordsAgree
PROPERTY
  AutoDispatchPicksLeastBusy
CHECK_DEADLOCK FALSE
