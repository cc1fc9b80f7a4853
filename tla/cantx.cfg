\* Two senders, fewer mailboxes than messages.
SPECIFICATION FairSpec
CONSTANTS
  Task = {canrx, cancon}
  Mailbox = {1, 2}
  Depth = 2
  MaxMsg = 5
INVARIANTS
  TypeOK
  NotStranded
PROPERTY
  QueueDrains
CHECK_DEADLOCK FALSE
