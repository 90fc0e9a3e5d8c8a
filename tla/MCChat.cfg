SPECIFICATION Spec
CONSTANTS
  p1 = p1
  p2 = p2
  p3 = p3
  u1 = u1
  u2 = u2
  u3 = u3
  both = both
  Profiles <- ThreeProfiles
  Users = {u1, u2, u3, both}
  Members <- ThreeMembers
  Pushable = {u2}
  Matches <- PairsOfFirst
  Requests = {r1, r2}
  Readers = {u2}
  Free = Free
  MaxClock = 3
SYMMETRY Interchangeable
CHECK_DEADLOCK FALSE
INVARIANTS
  TypeOK
  LogTellsConversation
  ProjectionsCurrent
  CountsConverge
  NotifiedOnce
PROPERTIES
  LateCallsHarmless
  MatchAnnouncedOnce
