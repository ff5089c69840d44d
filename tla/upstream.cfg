SPECIFICATION FairSpec
CONSTANTS
  MaxRuns <- MCMaxRuns
CHECK_DEADLOCK FALSE
INVARIANTS
  TypeOK
  StoppedIsQuiet
  NoStrayStream
  WorkerAlive
PROPERTIES
  StopReturns
