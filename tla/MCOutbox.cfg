CONSTANTS
  MaxEvents = 4
  Batch = 2
SPECIFICATION FairSpec
CHECK_DEADLOCK FALSE
INVARIANTS TypeOK NothingLost BatchIsPending
PROPERTIES FeedSpec EventsArrive
