SPECIFICATION Spec
CONSTANTS
  c1 = c1
  c2 = c2
  c3 = c3
  k1 = k1
  k2 = k2
  Calls <- ThreeCalls
  KeyIds <- OneKey
  Ops = {"saveCreds", "keysSet", "keysDelete", "get"}
  Starts = {"both"}
  WriteBehind = TRUE
  MaxGen = 0
  Faults = {"queue", "mongo"}
INVARIANTS
  AckedIsLogged
SYMMETRY Symmetric
ACTION_CONSTRAINT OneAtATime
CHECK_DEADLOCK FALSE
