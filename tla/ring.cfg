SPECIFICATION RingSpec
CONSTANTS
  Capacity = 3
  MaxPushes = 5
INVARIANTS
  InOrder
  DropsReported
  NoSleepOnEvents
PROPERTIES
  LossyQueueSpec
