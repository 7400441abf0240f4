\* One feature, three versions of two texts and three calls. It ends when
\* the versions have run out.
SPECIFICATION Spec
CONSTANTS
  Features = {f1}
  Versions = {v1, v2, v3}
  Bodies = {b1, b2}
  Calls = {p1, p2, p3}
  None = None
SYMMETRY Symmetry
INVARIANTS
  NeverLeftWithout
  RetiredStays
  NumbersRunOn
PROPERTIES
  ImplementsShelf
CHECK_DEADLOCK FALSE
