SPECIFICATION Spec
CONSTANTS
  Keys = {1, 2}
  Values = {1, 2}
  MaxTransactions = 2
  MaxCursors = 1
  MaxCalls = 4
INVARIANTS
  Atomic
  CompleteIsLast
  CursorWalks
CHECK_DEADLOCK FALSE
