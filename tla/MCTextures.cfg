CONSTANTS
  QueueSizes = {2, 3}
  MAX_DELAYED_FRAMES = 1
  MAX_SIZE_CHANGE_FRAMES = 1
  MaxFrames = 3
  MaxEvents = 1
SPECIFICATION FairSpec
CHECK_DEADLOCK FALSE
INVARIANTS TextureInv WaitingIsAnnounced
PROPERTIES DrawnInOrder ProducerProceeds
