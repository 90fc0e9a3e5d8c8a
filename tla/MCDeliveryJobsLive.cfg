SPECIFICATION LiveSpec
CONSTANTS
  Jobs = {j1, j2}
  Tokens = {t1, t2, t3, t4}
  Workers = {w1}
  NoToken = NoToken
  NoWorker = NoWorker
  NoJob = NoJob
  LeaseDurations = {1}
  Delays = {0}
  RetryDelays <- BeforeNow
  Retention = 1
  ClaimLimit = 1
  AttemptsCap = 2
  Horizon = 0
PROPERTIES
  EverySettles
