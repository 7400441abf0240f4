\* One account, one call after another, and a rotation of the key.
SPECIFICATION Spec
CONSTANTS
  Accounts = {a1}
  Mailboxes = {m1}
  Revocable = {m1}
  Consents = {s1}
  Calls = {p1}
  MaxKey = 2
  MaxFaults = 0
  None = None
PROPERTY RevocationIsAttempted
CHECK_DEADLOCK FALSE
