SPECIFICATION Spec
CONSTANTS
  conversation = conversation
  w1 = w1
  w2 = w2
  NoOne = NoOne
  NoStream = NoStream
  public = public
  user = user
  Writers = {w1, w2}
  Rows = {conversation}
  Scripts <- PurgeScripts
  StageSize = 2
  MaxFailures = 0
  MaxPrunes = 0
  Timelines = {public}
  AccountStreams = {user}
  BatchSize = 2
  ReplaySize = 1
  MaxSubscribes = 2
SYMMETRY Symmetric
INVARIANTS
  RecordsAreAccepted
CHECK_DEADLOCK FALSE
