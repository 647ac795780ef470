CONSTANTS
  Views = {v1, v2}
  Depth = 2
  MaxFrames = 3
  MaxInputs = 2
  MaxResubmits = 1
  MayShutDown = TRUE
SPECIFICATION Spec
CHECK_DEADLOCK FALSE
INVARIANTS FrameInv OneFrameRequest
PROPERTIES DrawnInOrder DroppedOnlyWhenSuperseded
