SPECIFICATION FairSpec
CONSTANTS
  a1 = a1
  a2 = a2
  a3 = a3
  q1 = q1
  q2 = q2
  s1 = s1
  s2 = s2
  None = None
  Calls <- ThreeCalls
  Requests <- TwoRequests
  Sessions <- TwoSessions
  MaxRetries = 1
  MaxOutages = 1
  MaxFires = 2
  Settings <- EachSetting
INVARIANTS
  ServiceInv
  NothingIsHidden
  HealthyIsServed
PROPERTIES
  EveryCallEnds
  BreakerCloses
CHECK_DEADLOCK FALSE
