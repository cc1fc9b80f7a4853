\* Two senders; a message canbus_send accepted may be dropped.
SPECIFICATION Spec
CONSTANTS
  Task = {canrx, cancon}
  Mailbox = {1, 2}
  Depth = 2
  MaxMsg = 5
INVARIANT
  AcceptedIsSent
CHECK_DEADLOCK FALSE
