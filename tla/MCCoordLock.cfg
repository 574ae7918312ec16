SPECIFICATION FairSpec
CONSTANTS
  Programs = {p1, p2}
  Pids = {i1, i2, i3}
  Dirs = {d1, d2}
  NoPid = NoPid
  NoDir = NoDir
  Nobody = Nobody
  UserOf <- SameUser
  Overlap = FALSE
INVARIANTS OnePerSession LockNamesHolder
CHECK_DEADLOCK FALSE
PROPERTIES StaleLockGivesWay
