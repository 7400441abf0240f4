\* Two sweeps overlap over a briefing, a reminder and a meeting.
SPECIFICATION Spec
CONSTANTS
  Kinds = {k1}
  Reminders = {r1}
  Meetings = {m1}
  Sweeps = {w1, w2}
  DeviceIds = {d1}
  StableId = TRUE
  BriefingAt <- AtOnce
  Choices <- LoudOrQuiet
  Horizon = 0
  MaxTokens = 1
  MaxFaults = 1
  Limit = 1
SYMMETRY Symmetry
INVARIANTS
  TypeOK
  MarksAreTrue
PROPERTIES
  ImplementsOutbox
