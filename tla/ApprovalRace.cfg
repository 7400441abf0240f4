\* One row, two devices and a cron run racing for it while the clock runs; the cron is fair: nothing stays open.
SPECIFICATION FairSpec
CONSTANTS
  Fixed = {f1}
  Texts = {t1, t2}
  ApprovalTTL = 1
  MaxApprovalAttempts = 2
  RetryDelay <- MCRetryDelay
  Rows = {r1}
  Keys = {k1}
  Users = {u1, u2}
  Crons = {c1}
  CallAttempts = 1
  RetryBatch = 1
  Horizon = 1
  AttemptCap = 2
  EffectCap = 1
  Null = Null
INVARIANTS
  SingleExecutor
  SentAsApproved
  ExecutedWasSent
PROPERTIES
  TerminalIsFinal
  OrphanIsInert
  ImplementsMachine
  SweptInTime
