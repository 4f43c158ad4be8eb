SPECIFICATION FsSpec
CONSTANTS
  Threads = {t1, t2}
  First = t1
  Ids = {i1, i2}
  Workers = {w1, w2}
  None = None
  MaxJobs = 2
  MaxCalls = 2
  MaxWrites = 1
INVARIANTS
  OwnResult
PROPERTIES
  Durable
  AllSettled
CHECK_DEADLOCK FALSE
