SPECIFICATION Spec
CONSTANTS
  s1 = s1
  s2 = s2
  r1 = r1
  r2 = r2
  Sessions <- OneSession
  Versions = {1}
  Runs <- TwoRuns
  MaxAttempts = 3
  Concurrency = 2
  Faults <- AllFaults
SYMMETRY Symmetric
INVARIANTS
  AckedIsTraced
  CompletedIsPersisted
  DeadLettersAreExhausted
PROPERTY
  ImplementsWriteBehind
CHECK_DEADLOCK FALSE
