--------------------------- MODULE ConsoleFirmware ---------------------------
(***************************************************************************)
(* The slot's end of the console: the USART with its two stream buffers    *)
(* (firmware/src/serial.c), the cancon task that streams the Pi's output   *)
(* and the console handlers of the canrx task (firmware/src/canservices.c).*)
(*                                                                         *)
(* canrx and cancon have the same priority and are time sliced, so a step  *)
(* of one may fall between any two steps of the other; cancon's loop body  *)
(* is cut where another task's step can make a difference.                 *)
(*                                                                         *)
(* Bytes the Pi prints are numbered 1, 2, ... in the order it prints them. *)
(***************************************************************************)
EXTENDS ConsoleNet

CONSTANTS
  MsgLen,     \* data bytes in a CAN message (8)
  ChunkLen,   \* values of the seq field (16)
  RxLen,      \* SERIAL_RX_QUEUE_DEPTH (4096)
  RxResume,   \* RX_OVERRUN_RESUME (256)
  TxLen,      \* SERIAL_TX_QUEUE_DEPTH (128)
  MaxByte     \* bound: bytes the Pi prints

ASSUME FirmwareAssumption ==
  /\ MsgLen \in Nat \ {0} /\ ChunkLen \in 1..16
  /\ RxLen \in Nat \ {0} /\ RxResume \in 0..RxLen /\ TxLen \in Nat \ {0}
  /\ MaxByte \in Nat

VARIABLES
  console,    \* struct console: dstaddr, object, connected
  suspended,  \* console.task is suspended
  notified,   \* the notification value of console.task is not 0
  cpc,        \* where console.task is in its loop
  msg,        \* its local message
  seq,        \* its local sequence counter
  rxEnabled,  \* RXNEIE of the USART
  dr,         \* byte waiting in the data register, 0 for none (RXNE clear)
  serialrxq,  \* bytes in the receive stream buffer
  overrun,    \* serialrxq_overrun > 0
  serialtxq,  \* number of bytes in the transmit stream buffer
  printed,    \* bytes the Pi has printed
  accepted,   \* history: bytes put in serialrxq
  toPi        \* history: bytes put in serialtxq

taskVars == <<suspended, notified, cpc, msg, seq>>
usartVars == <<rxEnabled, dr, serialrxq, overrun, printed, accepted>>
txVars == <<serialtxq, toPi>>
firmwareVars == <<console, taskVars, usartVars, txVars>>

(* main: serial_init leaves the receive interrupt off, canservices_init
   suspends the task it has just created. *)
FirmwareInit ==
  /\ console = [dstaddr |-> 0, object |-> 0, connected |-> FALSE]
  /\ suspended = TRUE /\ notified = FALSE
  /\ cpc = "recv" /\ seq = 0
  /\ msg = Message(Slot, 0, DAT, 0, 0, 0, <<>>)
  /\ rxEnabled = FALSE /\ dr = 0 /\ serialrxq = <<>> /\ overrun = FALSE
  /\ serialtxq = 0
  /\ printed = 0 /\ accepted = <<>> /\ toPi = <<>>

(*************************** USART *****************************************)
(* xStreamBufferSendFromISR finds room for a byte. *)
HasRoomPast == Len(serialrxq) <= RxLen  \* mutant: one byte too many
HasRoom == Len(serialrxq) < RxLen

(* The receive half of usart1_isr, for the byte c. *)
RxIsr(c) ==
  IF ~overrun /\ HasRoom
    THEN /\ serialrxq' = Append(serialrxq, c)
         /\ accepted' = Append(accepted, c)
         /\ UNCHANGED overrun
    ELSE /\ overrun' = TRUE
         /\ UNCHANGED <<serialrxq, accepted>>

(* The Pi prints a byte. With the interrupt enabled the handler takes it
   before the next one; otherwise the first byte stays in the data register
   and the hardware drops those that follow. *)
UartByte ==
  /\ printed < MaxByte
  /\ printed' = printed + 1
  /\ IF rxEnabled
       THEN RxIsr(printed + 1) /\ UNCHANGED dr
       ELSE /\ dr' = IF dr = 0 THEN printed + 1 ELSE dr
            /\ UNCHANGED <<serialrxq, overrun, accepted>>
  /\ UNCHANGED <<console, taskVars, rxEnabled, txVars>>
  /\ UNCHANGED netVars

(* serial_rx_enable: a byte left in the data register interrupts at once. *)
SerialRxEnable ==
  /\ rxEnabled' = TRUE
  /\ dr' = 0
  /\ IF dr # 0 THEN RxIsr(dr) ELSE UNCHANGED <<serialrxq, overrun, accepted>>
  /\ UNCHANGED printed

(* The transmit half of usart1_isr. *)
UartTx ==
  /\ serialtxq > 0
  /\ serialtxq' = serialtxq - 1
  /\ UNCHANGED <<console, taskVars, usartVars, toPi>>
  /\ UNCHANGED netVars

(*************************** cancon ****************************************)
(* With the bytes q left in the buffer, an overrun is over. *)
ResumesPast(q) == RxLen - Len(q) > RxResume  \* mutant: > for >=
Resumes(q) == RxLen - Len(q) >= RxResume

(* serial_recv: up to MsgLen bytes; an overrun ends once this leaves
   RxResume bytes of room. *)
ConRecv ==
  /\ ~suspended /\ cpc = "recv"
  /\ serialrxq # <<>>
  /\ LET n == IF Len(serialrxq) < MsgLen THEN Len(serialrxq) ELSE MsgLen
         rest == SubSeq(serialrxq, n + 1, Len(serialrxq))
     IN /\ msg' = [msg EXCEPT !.data = SubSeq(serialrxq, 1, n)]
        /\ serialrxq' = rest
        /\ overrun' = (overrun /\ ~Resumes(rest))
  /\ cpc' = "pack"
  /\ UNCHANGED <<console, suspended, notified, seq, rxEnabled, dr, printed,
                 accepted, txVars>>
  /\ UNCHANGED netVars

(* The message being packed ends its chunk. *)
EndsChunkNoLimit == serialrxq = <<>>  \* mutant: no || seq == 15
EndsChunk == serialrxq = <<>> \/ seq = ChunkLen - 1

(* The header: whoever is connected now, and whether this message ends a
   chunk. seq is an int, msg.seq a 4-bit field. *)
ConPack ==
  /\ ~suspended /\ cpc = "pack"
  /\ msg' = Message(Slot, console.dstaddr, DAT, console.object,
                    IF EndsChunk THEN 1 ELSE 0, seq % ChunkLen, msg.data)
  /\ seq' = seq + 1
  /\ cpc' = "send"
  /\ UNCHANGED <<console, suspended, notified, usartVars, txVars>>
  /\ UNCHANGED netVars

ConSend ==
  /\ ~suspended /\ cpc = "send"
  /\ bus' = Append(bus, msg)
  /\ cpc' = IF msg.eot = 1 THEN "wait" ELSE "recv"
  /\ UNCHANGED <<console, suspended, notified, msg, seq, usartVars, txVars>>
  /\ UNCHANGED <<canrxq, sock, listening, faults>>

(* send_msg fails because cantxq is full: the loop goes on without waiting
   and without resetting seq, the bytes are gone. *)
ConSendFails ==
  /\ ~suspended /\ cpc = "send"
  /\ faults < MaxFault
  /\ faults' = faults + 1
  /\ cpc' = "recv"
  /\ UNCHANGED <<console, suspended, notified, msg, seq, usartVars, txVars>>
  /\ UNCHANGED <<canrxq, bus, sock, listening>>

(* ulTaskNotifyTake (pdTRUE, 500 ms) returns; notified or not, the next
   chunk starts at 0. *)
ConTake(from) ==
  /\ ~suspended /\ cpc = from
  /\ notified' = FALSE
  /\ seq' = 0
  /\ cpc' = "recv"
  /\ UNCHANGED <<console, suspended, msg, usartVars, txVars>>
  /\ UNCHANGED netVars

ConAcked == notified /\ ConTake("wait")
ConTimeout == ~notified /\ ConTake("wait")
ConWoken == ConTake("woken")

(*************************** canrx *****************************************)
(* canbus_recv, dispatched on object or, for an ACK, on type. *)
Received(type, object) ==
  /\ canrxq # <<>>
  /\ Head(canrxq).type = type /\ Head(canrxq).object = object
  /\ canrxq' = Tail(canrxq)

Respond(type) == bus' = Append(bus, Reply(Head(canrxq), type))

(* A task suspended while it waits for a notification is not waiting any
   more when it is resumed: its wait is over, notified or not. Resuming a
   task that is not suspended does nothing. *)
vTaskResumeNot == UNCHANGED <<suspended, cpc>>  \* mutant: left out
vTaskResume ==
  /\ suspended' = FALSE
  /\ cpc' = IF suspended /\ cpc = "wait" THEN "woken" ELSE cpc

vTaskSuspendNot == UNCHANGED suspended  \* mutant: left out
vTaskSuspend == suspended' = TRUE

(* canservices_consoleconn: the newest client wins. *)
RxConsoleConn ==
  /\ Received(WO, OBJ_CONSOLECONN)
  /\ SerialRxEnable
  /\ console' = [dstaddr |-> Head(canrxq).src,
                 object |-> Head(canrxq).data[1], connected |-> TRUE]
  /\ vTaskResume
  /\ Respond(ACK)
  /\ UNCHANGED <<notified, msg, seq, txVars>>
  /\ UNCHANGED <<sock, listening, faults>>

(* canservices_consoledisc: only the connected client may disconnect. The
   task stops wherever it is. *)
RxConsoleDisc ==
  LET m == Head(canrxq)
      match == /\ console.connected /\ console.dstaddr = m.src
               /\ console.object = m.data[1]
  IN /\ Received(WO, OBJ_CONSOLEDISC)
     /\ IF match
          THEN /\ rxEnabled' = FALSE
               /\ console' = [console EXCEPT !.connected = FALSE]
               /\ vTaskSuspend
               /\ Respond(ACK)
          ELSE Respond(NAK) /\ UNCHANGED <<rxEnabled, console, suspended>>
     /\ UNCHANGED <<notified, cpc, msg, seq, dr, serialrxq, overrun, printed,
                    accepted, txVars>>
     /\ UNCHANGED <<sock, listening, faults>>

(* serial_send took n bytes of message m: that is all of them. *)
AnySent(m, n) == n > 0  \* mutant: some of them will do
AllSent(m, n) == n = Len(m.data)

(* canservices_consolerecv: what fits of the data goes to the Pi, and the
   sender learns whether all of it did. *)
RxConsoleRecv ==
  LET m == Head(canrxq)
      room == TxLen - serialtxq
      n == IF ~console.connected THEN 0
           ELSE IF room < Len(m.data) THEN room ELSE Len(m.data)
  IN /\ Received(DAT, OBJ_CONSOLERECV)
     /\ serialtxq' = serialtxq + n
     /\ toPi' = toPi \o SubSeq(m.data, 1, n)
     /\ bus' = IF ~console.connected \/ ~AllSent(m, n) THEN Append(bus, Reply(m, NAK))
               ELSE IF m.eot = 1
                 THEN Append(bus, [Reply(m, ACK) EXCEPT !.eot = 0, !.seq = 0])
                 ELSE bus
     /\ UNCHANGED <<console, taskVars, usartVars>>
     /\ UNCHANGED <<sock, listening, faults>>

(* The ACK case of canservices_rx_task: any client's ACK counts. *)
RxAck ==
  /\ canrxq # <<>> /\ Head(canrxq).type = ACK
  /\ canrxq' = Tail(canrxq)
  /\ notified' = (notified \/ (console.connected
                               /\ Head(canrxq).object = console.object))
  /\ UNCHANGED <<console, suspended, cpc, msg, seq, usartVars, txVars>>
  /\ UNCHANGED <<bus, sock, listening, faults>>
=============================================================================
