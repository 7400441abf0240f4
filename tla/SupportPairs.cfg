\* Two grants of one user: approvals racing for the one active slot.
SPECIFICATION Spec
CONSTANTS
  Admins = {a1, a2}
  Subjects = {u1}
  Scopes = {s1}
  Grants = {g1, g2}
  Procs = {p1, p2}
  Ceiling = 1
  Horizon = 0
  Movable = {}
  Null = Null
SYMMETRY Symmetry
INVARIANTS
  OneActive
