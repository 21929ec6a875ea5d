CONSTANTS
  MaxIterations = 4
  BatchSize = 2
  Capacity = 3
  Occupied = {2}
  FailureLimit = 2
  AutoApprove = FALSE
  GateTimeouts = TRUE
  StepFaults = {"other"}
  StoreFails = TRUE
  ExchangeControls = {}
  LastBoard = 2
SPECIFICATION FairSpec
INVARIANTS WellsKept PlateRecorded ParkedOnce ResumePoint
PROPERTIES NoWorkflowAfterEnd OneLife AbortEnds PauseLands
CHECK_DEADLOCK FALSE
