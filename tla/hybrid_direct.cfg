SPECIFICATION Spec
CONSTANTS
  c1 = c1
  c2 = c2
  c3 = c3
  k1 = k1
  k2 = k2
  Calls <- ThreeCalls
  KeyIds <- TwoKeys
  Ops = {"saveCreds", "keysSet", "get"}
  Starts = {"both"}
  WriteBehind = FALSE
  MaxGen = 0
  Faults = {"mongo"}
INVARIANTS
  MutualExclusion
  NewestCredsInRedis
  CredsAgree
  MonotonicReads
  MongoKeysAreInRedis
SYMMETRY Symmetric
CHECK_DEADLOCK FALSE
