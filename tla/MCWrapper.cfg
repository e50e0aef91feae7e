SPECIFICATION FairSpec
CONSTANTS
  one = one
  two = two
  Sender = {one, two}
  Command = {"pause", "resume", "restart", "quit"}
  MaxSent = 3
INVARIANTS
  LostOnlyInACrowd
  NodeFollowsCommands
PROPERTIES
  CommandsEnd
CHECK_DEADLOCK FALSE
