SPECIFICATION FairSpec
CONSTANTS
  Writers <- MCWriters
  Agents <- MCAgents
  Clients <- MCClients
  Ids = {"design"}
  NoState = NoState
  Options = {"proposal"}
  Nested = FALSE
  MaxFaults = 1
  MaxCalls = 1
  MaxStarts = 2
INVARIANTS
  QuietFile
  SavedWhenAsked
PROPERTIES
  RunEnds
CHECK_DEADLOCK FALSE
