CONSTANTS
  a = a
  b = b
  Channel = {a, b}
  NoChannel = NoChannel
  Plan <- Pointwise
  Faults = {"comm"}
  ContinueOnError = TRUE
  MaxChannelRetries = 1
  Ceiling = 2
  Threaded = FALSE
  setT0 = setT0
  waitT0 = waitT0
  eisA = eisA
  eisB = eisB
  setT1 = setT1
  temp = temp
  eis = eis
  Unheld = Unheld
  Steps = {setT0, waitT0, eisA, eisB, setT1}
  Needs <- MCNeeds
  Instruments = {temp, eis}
  On <- MCOn
  Coroutine = {waitT0}
  Teardown = {temp}
  Retry <- MCRetry
  PoolSize = 2
SPECIFICATION ExecutionSpec
INVARIANT CastOnce
CHECK_DEADLOCK FALSE
