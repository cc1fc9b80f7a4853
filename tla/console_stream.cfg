\* One client and no faults: the Pi prints more than two chunks, the receive
\* buffer overruns, and everybody answers within the timeouts.
SPECIFICATION FairSpec
CONSTANTS
  Slot = 16
  Helper = {33}
  Mailboxes = 3
  MaxFault = 0
  MsgLen = 1
  ChunkLen = 2
  ChunkSize = 2
  RxLen = 2
  RxResume = 2
  TxLen = 2
  MaxByte = 5
  ReadLen = 1
  MaxKey = 1
  MaxStart = 1
  MaxProcess = 1
  Slow = {}
INVARIANTS
  TypeOK
PROPERTIES
  PipeSpec
  BytesArrive
  OverrunEnds
CHECK_DEADLOCK FALSE
