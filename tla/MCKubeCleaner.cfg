SPECIFICATION CleanerFairSpec
CONSTANTS
  u1 = u1
  u2 = u2
  Upsert = {u1, u2}
  Minute = 2
  Renewal = 8
  Ahead = 11
  Day = 30
  Slack = 2
  MaxTake = 18
INVARIANTS
  NamespaceOutlivesProgram
PROPERTIES
  NothingLeaks
CHECK_DEADLOCK FALSE
