SPECIFICATION Spec
CONSTANTS
  s1 = s1
  s2 = s2
  Subscribers = {s1}
  Filter <- MCFilter
  Handlers = {h1}
  Capacity = 1
  MaxEvents = 3
  MaxCrashes = 1
CHECK_DEADLOCK FALSE
INVARIANT NoGaps
