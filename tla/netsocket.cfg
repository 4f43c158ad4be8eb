SPECIFICATION Spec
CONSTANTS
  MaxHandles = 2
  None = None
  MaxReads = 2
  MaxChunks = 1
  MaxWrites = 1
INVARIANTS
  LegalHistory
  GracefulClose
PROPERTIES
  CloseIsTold
CHECK_DEADLOCK FALSE
