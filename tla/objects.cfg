\* A helper and a shutdown command on one node, a canping on another, slots
\* that dawdle.
SPECIFICATION FairSpec
CONSTANTS
  Slot = {0, 1}
  Helper = {h1}
  Shutter = {s1}
  Pinger = {p1}
  Address <- MCAddress
  Target = {1, 16}
  RxDepth = 1
  SockDepth = 2
  Mailboxes = 3
  TIMESTAMP_SLOTS = 2
  Dawdle = TRUE
  MaxCommand = 2
  MaxPing = 3
  MaxLost = 1
INVARIANTS
  OwnAnswer
  ReportsWhatIs
  ShutdownHonest
  PingTimes
PROPERTY
  ShutdownEnds
CONSTRAINT OneAtATime
CHECK_DEADLOCK FALSE
