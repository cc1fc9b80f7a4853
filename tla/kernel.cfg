SPECIFICATION Spec
CONSTANTS
  ta = ta  tb = tb  tc = tc  td = td  idle = idle  null = null
  cantxq = cantxq  mutex = mutex  signal = signal  serial = serial  mail = mail
  Task <- MCTask  Idle = idle  NULL = null
  MaxPriority = 3  CreatedAt <- MCCreatedAt  TickMod = 4
  EventList <- MCEventList  QueueId <- MCQueueId
  Semaphore = {mutex, signal}  Mutex = {mutex}
  Length <- MCLength  Item = {1, 2}
  StreamId = {serial, mail}  MessageBuffer = {mail}  Size <- MCSize  Byte = {1, 2}
  HeapSize = 23  HeapRegions <- MCHeapRegions  Header = 1  StackSize = 2  TcbSize = 1
  MaxPended = 1  MaxValue = 2
  Load <- MCLoad
INVARIANTS
  ListsAgree UrgentRuns SleepersInTime NoWakeUpLost MutexPriorities StreamWakes
  MessagesWhole HeapSound
PROPERTIES QueuesKeepOrder StreamsKeepOrder
