CONSTANTS
  Rasterizers = {a, b}
  WithViews = {a}
  LeaseTerm = 3
  MaxLag = 1
  MaxFrames = 4
  MaxSwitches = 3
SPECIFICATION Spec
INVARIANTS MergerInv SubmittedOnPlatformThread ChecksHold
PROPERTY DisabledKeepsThreads
CHECK_DEADLOCK FALSE
