CONSTANTS
  p1 = p1
  p2 = p2
  p3 = p3
  Proc = {p1, p2, p3}
  NoOne = NoOne
  Visitor = p3
  Host <- OneHost
  Open = {"clear"}
  UnlinkOpen = FALSE
  MaxDepth = 1
  MaxCrashes = 1
  Breaks = FALSE
  MidRunSession = FALSE
  Reused = {}
SPECIFICATION Spec
INVARIANT OneOwner
CHECK_DEADLOCK FALSE
