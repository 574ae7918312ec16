SPECIFICATION FairSpec
CONSTANTS
  r1 = r1
  r2 = r2
  v = v
  s1 = s1
  Calls <- MCCalls
  Reviewers <- MCReviewers
  Delegates <- MCDelegates
  Reviser = v
  Clients <- MCClients
  MaxReviews = 1
  MaxRounds = 2
  MaxDepth = 2
  MaxConcurrent = 1
  MaxSession = 5
  MaxMishaps = 1
INVARIANTS
  SlotsHold
  BudgetHolds
  Unanimity
  OperatorDecides
PROPERTIES
  ReviewEnds
