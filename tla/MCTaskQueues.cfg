CONSTANTS
  Queues = {platform, raster}
  kUnmerged = kUnmerged
  Pairs <- AllPairs
  Pausable = {platform}
  Joined = {raster}
  Posters = {a}
  MaxTime = 1
  MaxTasks = 3
  MaxSwitches = 2
SPECIFICATION FairSpec
INVARIANTS TypeOK MergeTopology NoLostWakeUp
PROPERTIES TakenInOrder TaskIsTaken JoinEndsALoop
CHECK_DEADLOCK FALSE
