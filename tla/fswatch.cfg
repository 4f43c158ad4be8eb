SPECIFICATION Spec
CONSTANTS Watchers = {w1, w2}
          None = None
          Room = 1
          MaxEvents = 2
          MaxThrown = 1
INVARIANTS
  EventsAccounted
  CloseEndsTheEvents
PROPERTIES
  RevocationCloses
