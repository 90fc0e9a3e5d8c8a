SPECIFICATION Spec
CONSTANTS
  old = old
  new = new
  Blank = Blank
  Absent = Absent
  Requests <- SomeRequests
  Configurations <- Rotation
  Ids = {1, 2, 3}
  MaxKey = 2
  Limits = {0, 2, Absent}
  DefaultLimit = 1
  MaxLimit = 2
CHECK_DEADLOCK FALSE
INVARIANTS
  TypeOK
  CursorsBind
  SteadyRowsReturned
  PagesFollow
