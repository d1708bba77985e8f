SPECIFICATION FairSpec
CONSTANTS
  s1 = s1
  s2 = s2
  r1 = r1
  r2 = r2
  Sessions <- OneSession
  Versions = {1, 2}
  Runs <- OneRun
  MaxAttempts = 3
  Concurrency = 2
  Faults <- MongoAndTime
INVARIANTS
  NothingStranded
PROPERTY
  EverySetSettles
CHECK_DEADLOCK FALSE
