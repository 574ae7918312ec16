SPECIFICATION Spec
CONSTANTS
  Writers <- MCDrivers
  Agents = {}
  Clients <- MCClients
  Ids = {"proposal", "design", "task-assignment", "other"}
  NoState = NoState
  Options = {"proposal", "later"}
  Nested = FALSE
  MaxFaults = 0
  MaxCalls = 2
  MaxStarts = 2
INVARIANTS
  ReviewedInOrder
  ApprovedAdvances
CHECK_DEADLOCK FALSE
