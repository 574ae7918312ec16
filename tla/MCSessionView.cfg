CONSTANTS
  Sessions = {s1, s2}
  NoSession = NoSession
  MaxEntries = 2
  MaxFaults = 1
  MaxExits = 1
  MaxSwitches = 2
SPECIFICATION FairSpec
INVARIANTS
  ShownAsLogged NothingMissed
PROPERTY
  FollowsTheLog
CHECK_DEADLOCK FALSE
