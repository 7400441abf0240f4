\* A lost answer and a second request.
SPECIFICATION Spec
CONSTANTS
  Fixed = {f1}
  Texts = {t1}
  ApprovalTTL = 1
  MaxApprovalAttempts = 2
  RetryDelay <- MCRetryDelay
  Rows = {r1}
  Keys = {k1}
  Users = {u1}
  Crons = {}
  CallAttempts = 2
  RetryBatch = 1
  Horizon = 1
  AttemptCap = 2
  EffectCap = 2
  Null = Null
INVARIANT NeverSentTwice
CHECK_DEADLOCK FALSE
