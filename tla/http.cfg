SPECIFICATION Spec
CONSTANTS
  MaxRequests = 2
  MaxPieces = 2
INVARIANTS
  RequestsTold
  ResponsesMatch
  CutIsTold
PROPERTIES
  AnswersArrive
CHECK_DEADLOCK FALSE
