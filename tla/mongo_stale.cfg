SPECIFICATION Spec
CONSTANTS
  c1 = c1
  c2 = c2
  c3 = c3
  i1 = i1
  i2 = i2
  Calls <- TwoCalls
  Instances <- TwoInstances
  Expected = {1}
  MaxRetries = 0
  CacheTtl = 0
  Latency = 0
  Ops = {"both"}
  Faults = {}
PROPERTY
  StaleSetIsRejected
SYMMETRY Symmetric
CHECK_DEADLOCK FALSE
