CONSTANTS
  Tasks = 3
  Budget = 8
  MaxForeign = 2
  MaxFaults = 1
SPECIFICATION FairSpec
INVARIANTS
  MergedAsReviewed
  MarksTellMerges
PROPERTY
  PhaseEnds
CHECK_DEADLOCK FALSE
