CONSTANTS
  Names = {1, 2}
  Procs = {p1, p2}
  Panes = {}
  NoPane = NoPane
  NoImage = NoImage
  TtlEnabled = FALSE
  LongTtl = TRUE
  TornWrites = FALSE
  MaxUnread = 2
  MaxBytes = 4
  Size <- MCSize
  Stamp <- MCStamp
  ReadsBack = FALSE
  MaxMsgs = 2
  MaxTokens = 2
  MaxFaults = 0
  MaxCrashes = 0
SPECIFICATION Spec
INVARIANTS
  OneWriter
  NoneStuck
PROPERTIES
  ImplementsMail
  EveryCallAnswers
CHECK_DEADLOCK FALSE
