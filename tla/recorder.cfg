SPECIFICATION FairSpec
CONSTANTS
  Finalisers <- MCFinalisers
  LastSession = 2
  Nil = Nil
  MaxLines = 3
  MaxFaults = 1
CHECK_DEADLOCK FALSE
INVARIANTS
  TypeOK
  EachLineOnce
  OrderUnlessRaced
  FiledUnderItsSession
PROPERTIES
  ImplementsJournal
  BufferDrains
