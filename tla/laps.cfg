SPECIFICATION Spec
CONSTANTS
  d1 = d1
  p1 = p1
  p2 = p2
  Drivers <- MCDrivers
  Positions <- MCPositions
  Nil = Nil
  NoReply = NoReply
  MaxLaps = 2
  MaxSessions = 3
  MaxQueue = 2
SYMMETRY Symmetry
CHECK_DEADLOCK FALSE
INVARIANTS
  TypeOK
  StateTracksFeed
  LapsComplete
PROPERTIES
  LapIsOneLap
  HistoryKept
