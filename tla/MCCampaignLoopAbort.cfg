CONSTANTS
  MaxIterations = 4
  BatchSize = 2
  Capacity = 3
  Occupied = {2}
  FailureLimit = 3
  AutoApprove = TRUE
  GateTimeouts = TRUE
  StepFaults = {}
  StoreFails = FALSE
  ExchangeControls = {"equilibrate"}
  LastBoard = 2
SPECIFICATION Spec
PROPERTY NoWorkflowAfterEnd
CHECK_DEADLOCK FALSE
