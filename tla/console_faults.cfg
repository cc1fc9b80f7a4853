\* Two clients, at two addresses or one after the other at one; the second may
\* take the connection over. Faults, and everybody may outlast the timeouts.
SPECIFICATION Spec
CONSTANTS
  Slot = 16
  Helper = {33, 34}
  Mailboxes = 3
  MaxFault = 2
  MsgLen = 1
  ChunkLen = 2
  ChunkSize = 2
  RxLen = 2
  RxResume = 2
  TxLen = 3
  MaxByte = 3
  ReadLen = 2
  MaxKey = 3
  MaxStart = 2
  MaxProcess = 2
  Slow = {"slot", "bus", "helper"}
INVARIANTS
  ConnectedRuns
  NoDuplicate
  KeysReachPi
  KeysInOrder
  OneAckAwaited
CONSTRAINT OneWayAtATime
CHECK_DEADLOCK FALSE
