SPECIFICATION Spec
CONSTANTS
  r1 = r1
  r2 = r2
  a1 = a1
  a2 = a2
  b1 = b1
  b2 = b2
  s1 = s1
  NoOne = NoOne
  NoActivity = NoActivity
  NoBody = NoBody
  NoStream = NoStream
  Pruner = Pruner
  Requests = {r1, r2}
  Activities = {a1, a2}
  Bodies = {b1, b2}
  Deliveries <- MCDeliveries
  Streams = {s1}
  StreamOf <- MCStreamOf
  MaxJobs = 3
  MaxPrunes = 1
  PruneRaces = TRUE
  MaxAborts = 1
INVARIANTS
  StreamSerial
