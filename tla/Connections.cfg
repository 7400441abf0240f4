\* Two consents, two mailboxes and two calls, with one rotation of the key. The
\* user may stop at any time.
SPECIFICATION Spec
CONSTANTS
  Accounts = {a1, a2}
  Mailboxes = {m1, m2}
  Revocable = {m1}
  Consents = {s1, s2}
  Calls = {p1, p2}
  MaxKey = 2
  MaxFaults = 1
  None = None
SYMMETRY Symmetry
INVARIANTS
  TypeOK
  TokensMatch
  NothingLeftBehind
  OnePrimary
  Readable
PROPERTIES
  ImplementsLinks
CHECK_DEADLOCK FALSE
