SPECIFICATION Spec
CONSTANTS
  MaxRequests = 2
  MaxBytes = 4
  MaxSends = 2
  MaxCalls = 4
INVARIANTS
  WaitersAreServed
  WholeOrError
  OneOutcome
  OneLifeline
  EventsOnce
PROPERTIES
  AllSettle
