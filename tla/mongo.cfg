SPECIFICATION Spec
CONSTANTS
  c1 = c1
  c2 = c2
  c3 = c3
  i1 = i1
  i2 = i2
  Calls <- ThreeCalls
  Instances <- TwoInstances
  Expected = {0, 1}
  MaxRetries = 0
  CacheTtl = 1
  Latency = 1
  Ops = {"keys", "get", "delete", "touch"}
  Faults = {"network", "expiry"}
INVARIANTS
  TakesEffectOnce
  ServedIsRecent
PROPERTIES
  OwnWritesAreCached
  ImplementsRegister
SYMMETRY Symmetric
CHECK_DEADLOCK FALSE
