SPECIFICATION Spec
CONSTANTS
  Jobs = {j1, j2}
  Tokens = {t1, t2, t3}
  Workers = {w1, w2}
  NoToken = NoToken
  NoWorker = NoWorker
  NoJob = NoJob
  LeaseDurations = {1}
  Delays = {0, 1}
  RetryDelays = {0, 1}
  Retention = 1
  ClaimLimit = 2
  AttemptsCap = 3
  Horizon = 0
SYMMETRY Interchangeable
INVARIANTS
  TypeOK
  OneHolder
  LedgerConsistent
  BudgetLeft
  AuditsExplainBudget
  AnswersMatchLedger
PROPERTIES
  FencedRelease
  HistoryKept
