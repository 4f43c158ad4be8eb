SPECIFICATION WaitSpec
CONSTANTS
  Waiters = {main}
  Wakers = {w1, w2, w3}
  PipeOutcomes = {"none", "ok", "unselectable"}
INVARIANTS
  NoLostWake
PROPERTIES
  WakeAnswered
