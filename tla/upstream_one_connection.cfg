SPECIFICATION Spec
CONSTANTS
  MaxRuns <- MCMaxRuns
CHECK_DEADLOCK FALSE
INVARIANTS
  OneConnection
