CONSTANTS
  Views = {"a", "b"}
  Sizes = {1, 2}
  WindowSize = 1
  MaxEvents = 2
SPECIFICATION FairSpec
CHECK_DEADLOCK FALSE
INVARIANTS SurfaceInv NoDeadWindow
PROPERTIES AttachedIsShown FirstFrameIsReported
