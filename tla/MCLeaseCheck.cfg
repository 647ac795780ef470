CONSTANTS
  Rasterizers = {a, b}
  WithViews = {a, b}
  LeaseTerm = 3
  MaxLag = 1
  MaxFrames = 5
  MaxSwitches = 0
SPECIFICATION Spec
INVARIANT ChecksHold
CHECK_DEADLOCK FALSE
