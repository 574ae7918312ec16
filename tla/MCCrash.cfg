CONSTANTS
  Names = {1}
  Procs = {p1, p2, p3}
  Panes = {a, b}
  NoPane = NoPane
  NoImage = NoImage
  TtlEnabled = TRUE
  LongTtl = TRUE
  TornWrites = TRUE
  MaxUnread = 2
  MaxBytes = 4
  Size <- MCSize
  Stamp <- MCStamp
  ReadsBack = TRUE
  MaxMsgs = 3
  MaxTokens = 2
  MaxFaults = 1
  MaxCrashes = 1
SYMMETRY Symmetry
SPECIFICATION Spec
INVARIANTS
  AtMostOnce
  DurableAcks
  NeverPartial
  QuietDisk
  TearsStayLocal
  MailboxBound
  OwnerOnly
  AnsweredTokenLive
PROPERTY
  MailWhileUndamaged
CHECK_DEADLOCK FALSE
