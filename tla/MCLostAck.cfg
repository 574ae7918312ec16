CONSTANTS
  Names = {1, 2}
  Procs = {p1, p2}
  Panes = {}
  NoPane = NoPane
  NoImage = NoImage
  TtlEnabled = FALSE
  LongTtl = TRUE
  TornWrites = FALSE
  MaxUnread = 2
  MaxBytes = 4
  Size <- MCSize
  Stamp <- MCStamp
  ReadsBack = TRUE
  MaxMsgs = 1
  MaxTokens = 2
  MaxFaults = 0
  MaxCrashes = 1
SYMMETRY ProcSymmetry
SPECIFICATION Spec
INVARIANT
  DurableAcks
CHECK_DEADLOCK FALSE
