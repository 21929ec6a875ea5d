CONSTANTS
  bar = bar
  cli = cli
  estop = estop
  Bar = {bar}
  Cli = {cli}
  Estop = estop
  NoReq = NoReq
  Torn = Torn
  MaxPresses = 2
  RenameOpen = TRUE
  Overlap = FALSE
  Gap = FALSE
  Slips = {"read", "handler", "ack"}
  ht = ht
  sweep = sweep
  line = line
  Nobody = Nobody
  Runs = {ht, sweep}
  Fluidic = {ht}
  WholeRig = {ht}
  Resting = {ht}
  Host = ht
  Lines = {line}
  window = window
  child = child
  p1 = p1
  Windows = {window}
  Campaigns = {child}
  Pumps = {p1}
  Full = 4
  Doses = {1, 2}
  HardStop = 1
  Unknown = Unknown
  StoreFaults = 2
  Together = FALSE
SPECIFICATION DesktopSpec
INVARIANTS InOrderOnce ParkedIsTrue ClaimCovers LateOnly StepsMove KeptOffStop
PROPERTIES LastWordObeyed PressAnswered KillIsLastResort PurgeServed
CHECK_DEADLOCK FALSE
