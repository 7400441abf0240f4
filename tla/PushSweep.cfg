\* Two fair sweeps overlap over one reminder while the clock runs, the phone
\* changes its token and its owner their mind.
SPECIFICATION FairSpec
CONSTANTS
  Kinds = {}
  Reminders = {r1}
  Meetings = {}
  Sweeps = {w1, w2}
  DeviceIds = {d1}
  StableId = TRUE
  BriefingAt <- AtOnce
  Choices <- LoudOrQuiet
  Horizon = 1
  MaxTokens = 2
  MaxFaults = 1
  Limit = 1
INVARIANTS
  FiredHadItsMoment
  ShownOnce
PROPERTIES
  CancelledStays
  RemindersLeave
