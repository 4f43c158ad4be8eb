SPECIFICATION Spec
CONSTANTS
  HighWater = 2
  PipeSize = 1
  MaxOut = 4
  MaxErr = 0
INVARIANTS
  EveryByteBeforeClose
PROPERTIES
  FullReaderResumes
  TeardownEnds
CHECK_DEADLOCK FALSE
