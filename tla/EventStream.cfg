SPECIFICATION FairSpec
CONSTANTS
  s1 = s1
  s2 = s2
  Subscribers = {s2}
  Filter <- MCFilter
  Handlers = {h1}
  Capacity = 1
  MaxEvents = 3
  MaxCrashes = 1
CHECK_DEADLOCK FALSE
INVARIANTS
  TypeOK
  DeliveredInOrder
  TurnEventsHaveNoGaps
PROPERTY TurnEventsArrive
