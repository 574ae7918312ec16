CONSTANTS
  Names = {1, 2}
  Procs = {p1, p2, p3}
  MaxTickets = 5
SYMMETRY ProcSymmetry
SPECIFICATION ChainSpec
INVARIANT
  OneRunner
PROPERTY
  Queues
CHECK_DEADLOCK FALSE
