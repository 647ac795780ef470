CONSTANTS
  QueueSizes = {3}
  MAX_DELAYED_FRAMES = 3
  MAX_SIZE_CHANGE_FRAMES = 10
  MaxFrames = 3
  MaxEvents = 1
SPECIFICATION FairSpec
CHECK_DEADLOCK FALSE
PROPERTIES ProducerNeverStalls
