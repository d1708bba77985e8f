SPECIFICATION Spec
CONSTANTS
  c1 = c1
  c2 = c2
  c3 = c3
  k1 = k1
  k2 = k2
  Calls <- TwoCalls
  KeyIds <- TwoKeys
  Ops = {"keysSet"}
  Starts = {"both"}
  WriteBehind = FALSE
  MaxGen = 0
  Faults = {}
INVARIANT
  StoredKeyStays
CHECK_DEADLOCK FALSE
