SPECIFICATION BadgeSpec
CONSTANTS
  m1 = m1
  m2 = m2
  m3 = m3
  w1 = w1
  w2 = w2
  s1 = s1
  s2 = s2
  Msgs = {m1, m2, m3}
  Sessions = {s1, s2}
  Workspaces = {w1, w2}
  Home <- Apart
  MaxOps = 2
  MaxMoves = 1
SYMMETRY Sym
INVARIANTS OneRingPerFill BadgeTellsTruth
