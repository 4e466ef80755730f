SPECIFICATION Spec
CONSTANTS
  a = a
  b = b
  c = c
  long = long
  None = None
  Bounded <- MCBounded
  MaxProjected = 2
  TooLong <- MCTooLong
  Ttl = 1
  Threads = {t1, t2}
  Payloads <- MCPayloads
  Large <- MCLarge
  Oversized <- MCOversized
  Alerts = {c}
  MaxEvents = 1
  MaxClock = 1
  MaxFaults = 1
CHECK_DEADLOCK FALSE
INVARIANT ExpiredEdgesHidden
