SPECIFICATION FairSpec
CONSTANTS
  w1 = w1
  w2 = w2
  ka = ka
  kb = kb
  kc = kc
  s1 = s1
  NoStream = NoStream
  NoWorker = NoWorker
  NoKey = NoKey
  Workers = {w1, w2}
  Keys = {ka, kb, kc}
  Streams = {s1}
  StreamOf <- MCStreamOf
  MaxAttempts = 2
  MaxJobs = 2
  MaxFaults = 2
INVARIANTS
  TypeOK
  TokensUnique
  StreamFenced
PROPERTIES
  StaleSlotsAreHarmless
  KeepsPromises
  EveryJobResolves
