SPECIFICATION Spec
CONSTANTS
  p1 = p1
  p2 = p2
  p3 = p3
  u1 = u1
  u2 = u2
  u3 = u3
  both = both
  Profiles <- TwoProfiles
  Users = {u1, u2, both}
  Members <- TwoMembers
  Pushable = {u2}
  Matches <- ThePair
  Requests = {r1, r2}
  Readers = {}
  Free = Free
  MaxClock = 2
SYMMETRY Interchangeable
CHECK_DEADLOCK FALSE
INVARIANTS
  SenderReadAdvances
