SPECIFICATION CachesSpec
CONSTANTS
  c1 = c1
  c2 = c2
  Callers <- MCCallers
  Margin = 1
  Lifetimes <- MCLifetimes
  None = None
  MaxTime = 5
  Interval = 1
  Ttl = 1
  Slow = 1
SYMMETRY Symmetry
CHECK_DEADLOCK FALSE
INVARIANTS
  CachesTypeOK
  UsableToken
  ScheduleAge
PROPERTIES
  MemoryNeverOlder
