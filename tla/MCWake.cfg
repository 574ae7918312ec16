SPECIFICATION FairSpec
CONSTANTS
  m1 = m1
  m2 = m2
  k1 = k1
  Msgs = {m1, m2}
  Keys = {k1}
  NoKey = NoKey
  DebounceMs = 2
  MaxTime = 3
  MaxRegs = 2
  MaxRestarts = 1
  PersistFails = TRUE
CHECK_DEADLOCK FALSE
INVARIANTS WakesSpaced WindowIsAnAttempt KeysAllowed
PROPERTIES EveryDispatchEnds
