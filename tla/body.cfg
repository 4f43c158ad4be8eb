SPECIFICATION Spec
CONSTANTS
  MaxChunks = 2
  MaxObjects = 3
  MaxPumps = 3
INVARIANTS
  WholeBody
PROPERTIES
  BodiesSettle
CHECK_DEADLOCK FALSE
