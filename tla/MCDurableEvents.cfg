SPECIFICATION Spec
CONSTANTS
  Scopes = {1, 2}
  Writers = {w1, w2}
  Cleanup = Cleanup
  Free = Free
  MaxBatch = 2
  MaxHigh = 3
SYMMETRY Interchangeable
CHECK_DEADLOCK FALSE
INVARIANTS
  TypeOK
  RetainedRange
  CheckpointsReplayable
  WritersNeverDeadlock
PROPERTIES
  SequencesContinue
  OnlyExpiredPruned
