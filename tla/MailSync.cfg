\* Two runs over a mailbox that fills up while they read it.
SPECIFICATION FairSpec
CONSTANTS
  N = 2
  Runs = {r1, r2}
  Limit = 1
  Windows = {0, 1}
  MaxFaults = 1
INVARIANTS
  CursorCovers
  AnalysedOnce
PROPERTIES
  ImplementsInbox
  NewMailGetsIn
