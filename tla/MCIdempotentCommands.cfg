SPECIFICATION FairSpec
CONSTANTS
  Keys = {k1, k2}
  Bodies = {b1, b2}
  Callers = {c1, c2}
  NoRecord = NoRecord
  Nobody = Nobody
  NoCommand = NoCommand
  MaxCalls = 3
CHECK_DEADLOCK FALSE
INVARIANTS
  TypeOK
PROPERTIES
  ExactlyOnceSpec
  EveryCommandEnds
