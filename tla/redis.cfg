SPECIFICATION Spec
CONSTANTS
  p1 = p1
  p2 = p2
  c1 = c1
  c2 = c2
  c3 = c3
  k1 = k1
  k2 = k2
  m1 = m1
  m2 = m2
  None = None
  Old = Old
  Unknown = Unknown
  Processes <- TwoProcesses
  Calls <- ThreeCalls
  KeyIds <- TwoKeys
  MasterKeys <- TwoMasterKeys
  Encryption = TRUE
  Compression = TRUE
  Ttl = 2
  KeyLife = 3
  Settings <- EachHazard
INVARIANTS
  VersionNotAhead
  KeysMergeKeeps
  MetaOutlivesFields
  RedisInv
PROPERTY
  IdentityIsKept
SYMMETRY Symmetric
ACTION_CONSTRAINT WritersTakeTurns
CHECK_DEADLOCK FALSE
