SPECIFICATION FairSpec
CONSTANTS
  Schedule <- MCSchedule
  Nil = Nil
  Buffer = 1
  EndedCountToFinish = 2
  HasValkey = TRUE
  Lead = 1
  MaxNow = 15
  MaxCrashes = 1
CHECK_DEADLOCK FALSE
INVARIANTS
  TypeOK
  CompletedIsOver
  WatchesTheSession
PROPERTIES
  RewatchedOnlyIfExcused
  Disconnects
