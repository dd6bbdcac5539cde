SPECIFICATION Spec
CONSTANTS
  p1 = p1
  p2 = p2
  p3 = p3
  tool = tool
  payload = payload
  Nobody = Nobody
  Pids = {p1, p2, p3}
  Trunk = p1
  Exes = {tool, payload}
  First = tool
  Boxes <- MCBoxes
  Kinds <- MCArmed
  Tolerance = 1
  MaxSteps = 2
  MaxTargets = 2
  Batch = 1
  LastStep = 3
  MaxWorld = 2
  MaxCommands = 1
  MaxFaults = 1
SYMMETRY MCSymmetry
INVARIANTS OnlyTheImplicated OneBurst NothingLeftStopped
PROPERTIES NoStartingPistol NoneImplicatedLeft
CHECK_DEADLOCK FALSE
