CONSTANTS
  Workers = {w1, w2, w3}
  MaxTasks = 3
  MaxBroadcasts = 1
SPECIFICATION FairSpec
CHECK_DEADLOCK FALSE
INVARIANTS TasksConserved NoMissedNotify
PROPERTIES TaskIsExecuted WorkersReturn
