SPECIFICATION Spec
CONSTANTS
  MaxUp = 1
  MaxDown = 2
  MaxFrames = 3
INVARIANTS
  ClosedForGood
  NothingLost
  CloseFrameLast
PROPERTIES
  ClosesSettle
CHECK_DEADLOCK FALSE
