CONSTANTS
  Secondaries = {"pointer", "flow"}
  OtherTasks = {"packet"}
  MaxTasks = 3
  RequestMayFail = FALSE
  MaxPackets = 3
SPECIFICATION FairPointerSpec
CHECK_DEADLOCK FALSE
INVARIANTS PointerTypeOK OneRequestOutstanding PauseHasResume OnlyLastHeldBack
PROPERTIES DeliveredInOrder PacketsDelivered
