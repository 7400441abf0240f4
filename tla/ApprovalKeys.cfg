\* Three rows under one key: proposals racing to release and claim it.
SPECIFICATION Spec
CONSTANTS
  Fixed = {f1}
  Texts = {t1}
  ApprovalTTL = 1
  MaxApprovalAttempts = 1
  RetryDelay <- MCRetryDelay
  Rows = {r1, r2, r3}
  Keys = {k1}
  Users = {u1, u2}
  Crons = {}
  CallAttempts = 2
  RetryBatch = 1
  Horizon = 1
  AttemptCap = 1
  EffectCap = 1
  Null = Null
SYMMETRY Symmetry
INVARIANT OneLivePerKey
CHECK_DEADLOCK FALSE
