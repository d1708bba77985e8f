SPECIFICATION Spec
CONSTANTS
  l1 = l1
  l2 = l2
  p1 = p1
  p2 = p2
  c1 = c1
  c2 = c2
  None = None
  Lids <- TwoLids
  Pns <- TwoPns
  Callers <- TwoCallers
  Batches <- Updates
  TtlTicks = 2
  MaxClock = 4
INVARIANTS
  FollowingLeadsToNewer
  NoHalfExpires
  ScansAreComplete
SYMMETRY Symmetric
CHECK_DEADLOCK FALSE
