SPECIFICATION FairSpec
CONSTANTS
  v1 = v1
  Voters = {v1}
  Times = {2, 3}
  Delay = 1
  MaxAttempts = 1
  MaxTime = 4
  MaxEdits = 2
  MaxFaults = 1
INVARIANTS
  TypeOK
  HistoryIsSilent
  EveryoneIsTold
PROPERTIES
  NoticeIsDue
  EveryPollCloses
CHECK_DEADLOCK FALSE
