CONSTANTS
  p1 = p1
  p2 = p2
  Proc = {p1, p2}
  NoOne = NoOne
  Visitor = p2
  Host <- OneHost
  Open = {"clear", "write"}
  UnlinkOpen = FALSE
  MaxDepth = 1
  MaxCrashes = 1
  Breaks = TRUE
  MidRunSession = FALSE
  Reused = {}
SPECIFICATION FairSpec
PROPERTY NeverWedged
CHECK_DEADLOCK FALSE
