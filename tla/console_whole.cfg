\* One client; one frame may be lost or its sending refused, and the client may
\* outlast the timeouts.
SPECIFICATION Spec
CONSTANTS
  Slot = 16
  Helper = {33}
  Mailboxes = 3
  MaxFault = 1
  MsgLen = 1
  ChunkLen = 2
  ChunkSize = 2
  RxLen = 2
  RxResume = 2
  TxLen = 2
  MaxByte = 5
  ReadLen = 1
  MaxKey = 0
  MaxStart = 1
  MaxProcess = 1
  Slow = {"helper"}
INVARIANTS
  LiveOutputWhole
CHECK_DEADLOCK FALSE
