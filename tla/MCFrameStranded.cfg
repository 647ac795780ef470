CONSTANTS
  Views = {v1}
  Depth = 2
  MaxFrames = 3
  MaxInputs = 1
  MaxResubmits = 0
  MayShutDown = FALSE
SPECIFICATION FairSpec
CHECK_DEADLOCK FALSE
PROPERTY CommittedFrameIsDrawn
