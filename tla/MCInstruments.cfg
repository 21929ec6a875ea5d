CONSTANTS
  Programs = {"anneal", "sweep"}
  l1 = l1
  l2 = l2
  Loops = {l1, l2}
  Callers = {"hand", "park"}
  Parker = "park"
  NoLoop = NoLoop
  Points = 2
  Ceiling = 2
  RoundFloor = 1
  Presses = 3
  Faults = 2
  Straddles = FALSE
SPECIFICATION InstrumentsSpec
INVARIANTS ParkLandsLast AbortParkLands DryAfterPark HandedBackCold
PROPERTIES ParkedDry RigHandedBack
CHECK_DEADLOCK FALSE
