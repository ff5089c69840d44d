SPECIFICATION FairSpec
CONSTANTS
  b1 = b1
  Browsers <- MCBrowsers
  BcastCap = 1
  SkipLimit = 2
  Nil = Nil
  None = None
  MaxFeed = 2
  LapChanges <- MCLapChanges
  MaxConnects = 2
CHECK_DEADLOCK FALSE
INVARIANTS
  TypeOK
  BrowserFollows
  LapsReachBrowsers
PROPERTIES
  SnapshotServed
