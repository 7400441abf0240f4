\* One grant, two operators and two calls: reveals racing every decision and
\* a fair sweep.
SPECIFICATION FairSpec
CONSTANTS
  Admins = {a1, a2}
  Subjects = {u1}
  Scopes = {s1}
  Grants = {g1}
  Procs = {p1, p2}
  Ceiling = 1
  Horizon = 1
  Movable = {a1, a2}
  Null = Null
INVARIANTS
  TypeOK
  SeenIsAccounted
PROPERTIES
  RevealedWhileLive
  ImplementsLedger
  LapsedIsClosed
