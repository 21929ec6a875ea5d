CONSTANTS
  Programs = {"sweep"}
  l1 = l1
  Loops = {l1}
  Callers = {"hand", "park"}
  Parker = "park"
  NoLoop = NoLoop
  Points = 1
  Ceiling = 1
  RoundFloor = 1
  Presses = 1
  Faults = 1
  Straddles = FALSE
SPECIFICATION InstrumentsSpec
PROPERTIES WindowParkLands
CHECK_DEADLOCK FALSE
