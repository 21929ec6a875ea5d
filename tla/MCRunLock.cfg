CONSTANTS
  p1 = p1
  p2 = p2
  p3 = p3
  Proc = {p1, p2, p3}
  NoOne = NoOne
  Visitor = p3
  Host <- TwoHosts
  Open = {}
  UnlinkOpen = TRUE
  MaxDepth = 2
  MaxCrashes = 2
  Breaks = FALSE
  MidRunSession = FALSE
  Reused = {p1}
SPECIFICATION Spec
INVARIANTS ClaimOnDisk BlocksCovered
PROPERTY Implements
CHECK_DEADLOCK FALSE
