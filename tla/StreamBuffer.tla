---------------------------- MODULE StreamBuffer ----------------------------
(***************************************************************************)
(* The stream buffers of the serial port (firmware/librtos/                *)
(* stream_buffer.c): a ring of bytes with one writer and one reader, a     *)
(* task and an interrupt.  The ring has a slot more than it holds, so that *)
(* full and empty differ; the writer moves only the head and the reader    *)
(* only the tail.  A task that waits leaves its handle in the buffer and   *)
(* is woken by a notification.  A message buffer, of which the firmware    *)
(* makes none, is a stream of messages each behind its length.  The        *)
(* buffers are in the kernel's record, as k.stream; TaskCalls puts the     *)
(* steps in order.                                                         *)
(***************************************************************************)
EXTENDS Queue

CONSTANTS
  StreamId,
  MessageBuffer, \* those of them that are message buffers
  Size,          \* the bytes a stream buffer was created to hold
  Byte

ASSUME StreamAssumption ==
  /\ MessageBuffer \subseteq StreamId
  /\ Size \in [StreamId -> Nat \ {0}] /\ Byte # {} /\ Byte \subseteq Nat

xLength(s) == Size[s] + 1

\* sbBYTES_TO_STORE_MESSAGE_LENGTH: here a length is one byte.
LengthBytes(s) == IF s \in MessageBuffer THEN 1 ELSE 0

\* The positions in the ring, and what a buffer is.
Slot(s) == 0 .. Size[s]
StreamBuffer_t(s) ==
  [buf: [Slot(s) -> Nat], head: Slot(s), tail: Slot(s),
   trigger: 1 .. xLength(s), receiver: Task \cup {NULL}, sender: Task \cup {NULL}]

prvInitialiseNewStreamBuffer(s, level) ==
  [buf |-> [i \in Slot(s) |-> CHOOSE b \in Byte : TRUE],
   head |-> 0, tail |-> 0, trigger |-> level, receiver |-> NULL, sender |-> NULL]

WithStreams(k) ==
  k @@ [stream |-> [s \in StreamId |-> prvInitialiseNewStreamBuffer(s, 1)]]

\* A buffer that no task waits for can be emptied.
xStreamBufferReset(k, s) ==
  IF k.stream[s].receiver # NULL \/ k.stream[s].sender # NULL THEN k
  ELSE [k EXCEPT !.stream[s] = prvInitialiseNewStreamBuffer(s, @.trigger)]

prvBytesInBuffer(k, s) ==
  LET r == k.stream[s]
      c == (xLength(s) + r.head) - r.tail
  IN  IF c >= xLength(s) THEN c - xLength(s) ELSE c

NoSlotSpared(k, s) ==                      \* a mutant
  LET r == k.stream[s]
      c == (xLength(s) + r.tail) - r.head
  IN  IF c > xLength(s) THEN c - xLength(s) ELSE c
xStreamBufferSpacesAvailable(k, s) ==
  LET r == k.stream[s]
      c == ((xLength(s) + r.tail) - r.head) - 1
  IN  IF c >= xLength(s) THEN c - xLength(s) ELSE c

xStreamBufferIsEmpty(k, s) == k.stream[s].head = k.stream[s].tail
xStreamBufferIsFull(k, s) ==
  xStreamBufferSpacesAvailable(k, s) <= LengthBytes(s)

\* The bytes in the buffer, oldest first.
Buffered(k, s) ==
  LET r == k.stream[s]
  IN  [i \in 1 .. prvBytesInBuffer(k, s) |->
         r.buf[(r.tail + i - 1) % xLength(s)]]

\* A trigger level is at least one byte; one past what the ring can hold is
\* taken too.
xStreamBufferSetTriggerLevel(k, s, level) ==
  LET l == IF level = 0 THEN 1 ELSE level
  IN  IF l <= xLength(s) THEN [k EXCEPT !.stream[s].trigger = l] ELSE k

\* Copies data at the head, around the end of the ring, then moves the head.
prvWriteBytesToBuffer(k, s, data) ==
  LET r    == k.stream[s]
      next == r.head + Len(data)
      slot(i) == (i - r.head) % xLength(s)
  IN  [k EXCEPT !.stream[s].buf =
                  [i \in Slot(s) |->
                     IF slot(i) < Len(data) THEN data[slot(i) + 1] ELSE @[i]],
                !.stream[s].head =
                  IF next >= xLength(s) THEN next - xLength(s) ELSE next]

\* What the space found beforehand admits: of a stream as much as there is
\* room for, a message as a whole and with its length or not at all.
Admitted(s, data, space) ==
  IF s \in MessageBuffer /\ space < Len(data) + LengthBytes(s) THEN <<>>
  ELSE SubSeq(data, 1, Min({Len(data), space}))

prvWriteLength(k, s, n) == prvWriteBytesToBuffer(k, s, <<n>>)

prvWriteMessageToBuffer(k, s, data, space) ==
  LET d == Admitted(s, data, space)
      l == IF s \in MessageBuffer THEN prvWriteLength(k, s, Len(data)) ELSE k
  IN  IF d = <<>> THEN [k |-> k, ret |-> 0]
      ELSE [k |-> prvWriteBytesToBuffer(l, s, d), ret |-> Len(d)]

prvReadBytesFromBuffer(k, s, max, available) ==
  LET n    == IF available < max THEN available ELSE max
      r    == k.stream[s]
      next == r.tail + n
  IN  [k |-> [k EXCEPT !.stream[s].tail =
                IF next >= xLength(s) THEN next - xLength(s) ELSE next],
       ret |-> [i \in 1 .. n |-> r.buf[(r.tail + i - 1) % xLength(s)]]]

\* A message's length, and the buffer behind it.
prvReadLength(k, s) ==
  LET l == prvReadBytesFromBuffer(k, s, 1, prvBytesInBuffer(k, s))
  IN  [k |-> l.k, ret |-> l.ret[1]]

\* A message longer than the reader's buffer stays where it is.
prvReadMessageFromBuffer(k, s, max, available) ==
  LET l == prvReadLength(k, s)
  IN  IF s \notin MessageBuffer THEN prvReadBytesFromBuffer(k, s, max, available)
      ELSE IF l.ret > max THEN [k |-> k, ret |-> <<>>]
      ELSE prvReadBytesFromBuffer(l.k, s, l.ret, available - LengthBytes(s))

----------------------------------------------------------------------------
(* Telling the other side, with the scheduler suspended or from an         *)
(* interrupt: whoever waits is notified, without a value, and forgotten.   *)

sbSEND_COMPLETED(k, s) ==
  LET t == k.stream[s].receiver
  IN  IF t = NULL THEN k
      ELSE [xTaskGenericNotify(k, t, "eNoAction")
             EXCEPT !.stream[s].receiver = NULL]

sbRECEIVE_COMPLETED(k, s) ==
  LET t == k.stream[s].sender
  IN  IF t = NULL THEN k
      ELSE [xTaskGenericNotify(k, t, "eNoAction")
             EXCEPT !.stream[s].sender = NULL]

sbSEND_COMPLETE_FROM_ISR(k, s) ==
  LET t == k.stream[s].receiver
      n == xTaskGenericNotifyFromISR(k, t, "eNoAction")
  IN  IF t = NULL THEN [k |-> k, ret |-> FALSE]
      ELSE [k |-> [n.k EXCEPT !.stream[s].receiver = NULL], ret |-> n.ret]

sbRECEIVE_COMPLETED_FROM_ISR(k, s) ==
  LET t == k.stream[s].sender
      n == xTaskGenericNotifyFromISR(k, t, "eNoAction")
  IN  IF t = NULL THEN [k |-> k, ret |-> FALSE]
      ELSE [k |-> [n.k EXCEPT !.stream[s].sender = NULL], ret |-> n.ret]

TriggerPassed(k, s, data) ==               \* a mutant
  LET w == prvWriteMessageToBuffer(k, s, data, xStreamBufferSpacesAvailable(k, s))
      c == sbSEND_COMPLETE_FROM_ISR(w.k, s)
  IN  IF w.ret > 0 /\ prvBytesInBuffer(w.k, s) > w.k.stream[s].trigger
      THEN [k |-> c.k, ret |-> c.ret, sent |-> w.ret]
      ELSE [k |-> w.k, ret |-> FALSE, sent |-> w.ret]
xStreamBufferSendFromISR(k, s, data) ==
  LET w == prvWriteMessageToBuffer(k, s, data, xStreamBufferSpacesAvailable(k, s))
      c == sbSEND_COMPLETE_FROM_ISR(w.k, s)
  IN  IF w.ret > 0 /\ prvBytesInBuffer(w.k, s) >= w.k.stream[s].trigger
      THEN [k |-> c.k, ret |-> c.ret, sent |-> w.ret]
      ELSE [k |-> w.k, ret |-> FALSE, sent |-> w.ret]

xStreamBufferReceiveFromISR(k, s, max) ==
  LET n == prvBytesInBuffer(k, s)
      r == prvReadMessageFromBuffer(k, s, max, n)
      c == sbRECEIVE_COMPLETED_FROM_ISR(r.k, s)
  IN  IF n <= LengthBytes(s) \/ r.ret = <<>>
      THEN [k |-> k, ret |-> FALSE, data |-> <<>>]
      ELSE [k |-> c.k, ret |-> c.ret, data |-> r.ret]

\* For a buffer whose other end is on another processor, an interrupt tells
\* this one that data were put in or taken out.
xStreamBufferSendCompletedFromISR(k, s) == sbSEND_COMPLETE_FROM_ISR(k, s)
xStreamBufferReceiveCompletedFromISR(k, s) == sbRECEIVE_COMPLETED_FROM_ISR(k, s)

----------------------------------------------------------------------------
\* The critical section in which a reader that finds nothing, or a writer
\* that finds too little room, signs up for a notification.
AwaitBytes(k, s) ==
  IF prvBytesInBuffer(k, s) > LengthBytes(s) THEN k
  ELSE [xTaskNotifyStateClear(k, k.cur) EXCEPT !.stream[s].receiver = k.cur]

AwaitSpace(k, s, required) ==
  IF xStreamBufferSpacesAvailable(k, s) >= required THEN k
  ELSE [xTaskNotifyStateClear(k, k.cur) EXCEPT !.stream[s].sender = k.cur]
=============================================================================
