\* Two operators who may both be super_admin, with two calls in flight.
SPECIFICATION FairSpec
CONSTANTS
  Admins = {a1, a2}
  Sessions = {s1, s2}
  Procs = {p1, p2}
  OtherRoles = {other}
  IdleWindow = 2
  HardWindow = 3
  Horizon = 2
  Null = Null
INVARIANTS
  FloorHolds
  ActiveIsBound
PROPERTIES
  ImplementsRoster
  OverStaysOver
  FloorIsGivenBack
