SPECIFICATION FairSpec
CONSTANTS
  a = a
  b = b
  Undefined = Undefined
  NaN = NaN
  NoCache = NoCache
  Metric = {a, b}
  Reports <- MCReports
  MaxHistory = 2
  NumCalls = 2
  Query <- MCQuery
INVARIANTS
  AnswerWasReported
  EarlyAnswerPasses
PROPERTIES
  CallsEnd
CHECK_DEADLOCK FALSE
