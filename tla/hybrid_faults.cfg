SPECIFICATION FairSpec
CONSTANTS
  c1 = c1
  c2 = c2
  c3 = c3
  k1 = k1
  k2 = k2
  Calls <- TwoCalls
  KeyIds <- OneKey
  Ops = {"saveCreds", "keysSet", "get", "delete"}
  Starts = {"cold"}
  WriteBehind = FALSE
  MaxGen = 1
  Faults = {"redis", "mongo", "expiry", "evict"}
INVARIANTS
  MutexIsKept
PROPERTY
  EveryCallAnswers
CHECK_DEADLOCK FALSE
