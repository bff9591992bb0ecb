SPECIFICATION FairSpec
CONSTANTS
  m1 = m1
  Media = {m1}
  MaxAttempts = 2
  MaxFaults = 1
  MaxSuspensions = 2
INVARIANTS
  TypeOK
  NothingOrphaned
  ReadyIsComplete
  AcceptedHasInput
PROPERTY FilesSettle
CHECK_DEADLOCK FALSE
