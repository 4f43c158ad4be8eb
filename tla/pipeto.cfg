SPECIFICATION Spec
CONSTANTS
  MaxChunks = 2
  Options <- NoneOrAll
INVARIANTS
  InOrder
PROPERTIES
  FulfilledIsComplete
  PipeSettles
CHECK_DEADLOCK FALSE
