SPECIFICATION FairSpec
CONSTANTS
  p1 = p1
  o1 = o1
  o2 = o2
  w1 = w1
  w2 = w2
  d1 = d1
  d2 = d2
  c1 = c1
  inbox = inbox
  NoOne = NoOne
  NoKey = NoKey
  Plain = {p1}
  Ordered = {o1, o2}
  InboxOf <- MCInboxOf
  Cancellable = {p1}
  Writers = {w1}
  Dispatchers = {d1}
  Cancellers = {}
  MaxVersions = 2
  MaxJobs = 4
  MaxRollbacks = 1
PROPERTIES
  EveryEventLeaves
