SPECIFICATION Spec
CONSTANTS
  Budget = 3
  BatchSize = 2
  Capacity = 2
  FailureLimit = 2
  ParkLeaves = {FALSE}
  EventsRaise = FALSE
  PlateChanged = TRUE
  LastPlate = 3
  MaxSessions = 3
  MaxFaults = 2
INVARIANTS
  LeftDrivenIsOwed
  CastOnceEver
  FaultEscalates
CHECK_DEADLOCK FALSE
