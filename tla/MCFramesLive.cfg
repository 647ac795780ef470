CONSTANTS
  Views = {v1}
  Depth = 1
  MaxFrames = 3
  MaxInputs = 2
  MaxResubmits = 1
  MayShutDown = TRUE
SPECIFICATION FairSpec
CHECK_DEADLOCK FALSE
PROPERTIES CommittedFrameIsDrawn RequestedFrameBegins DartTasksResume ShutdownCompletes
