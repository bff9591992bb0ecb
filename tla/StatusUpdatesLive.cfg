SPECIFICATION FairSpec
CONSTANTS
  i1 = i1
  s1 = s1
  s2 = s2
  Inboxes = {i1}
  Slots = {s1, s2}
  MaxEdits = 1
  MaxPolls = 2
  MaxTrouble = 2
  MaxJobs = 5
  MaxFaults = 1
PROPERTIES
  Converges
