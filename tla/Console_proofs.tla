---------------------------- MODULE Console_proofs ----------------------------
(***************************************************************************)
(* Proofs about Console, for any number of helpers, any sizes of the       *)
(* buffers, any faults and any tardiness.                                  *)
(***************************************************************************)
EXTENDS Console, DataFacts

(* Everything but connecting and disconnecting leaves the connection alone. *)
connectionVars == <<console, suspended, rxEnabled>>

LEMMA StepCases ==
  ASSUME [Next]_vars
  PROVE  RxConsoleConn \/ RxConsoleDisc \/ UNCHANGED connectionVars
<1> USE DEF connectionVars, firmwareVars, taskVars, usartVars, txVars
<1>1. CASE UartByte \/ UartTx
  BY <1>1 DEF UartByte, UartTx
<1>2. CASE ConTask \/ ConSendFails
  BY <1>2 DEF ConTask, ConRecv, ConPack, ConSend, ConAcked, ConTimeoutLate,
              ConTimeout, ConWoken, ConTake, ConSendFails
<1>3. CASE RxTask
  BY <1>3 DEF RxTask, RxConsoleRecv, RxAck
<1>4. CASE UNCHANGED vars \/ UNCHANGED firmwareVars
  BY <1>4 DEF vars
<1>5. ASSUME NEW h \in Helper, HelperStep(h) PROVE UNCHANGED firmwareVars
  BY <1>5 DEF HelperStep
<1> QED
  <2> HIDE DEF connectionVars, firmwareVars
  <2> QED
    BY <1>1, <1>2, <1>3, <1>4, <1>5 DEF Next

LEMMA ClearConnected ==
  ASSUME NEW A, NEW B, NEW r \in [dstaddr : A, object : B, connected : BOOLEAN]
  PROVE  LET s == [r EXCEPT !.connected = FALSE]
         IN /\ s \in [dstaddr : A, object : B, connected : BOOLEAN]
            /\ s.connected = FALSE
OBVIOUS

LEMMA NewRecord ==
  ASSUME NEW a, NEW b, NEW c \in BOOLEAN
  PROVE  LET s == [dstaddr |-> a, object |-> b, connected |-> c]
         IN /\ s \in [dstaddr : {a}, object : {b}, connected : BOOLEAN]
            /\ s.connected = c
OBVIOUS

(* console is a record of the three fields of struct console. *)
ConsoleRecord ==
  \E A, B : console \in [dstaddr : A, object : B, connected : BOOLEAN]

(* The connection flag, the streaming task and the receive interrupt agree
   whatever arrives from however many clients, in whatever order. *)
THEOREM ConnectionConsistent == Spec => []ConnectedRuns
<1> DEFINE Inv == ConnectedRuns /\ ConsoleRecord
<1>1. Init => Inv
  <2> SUFFICES ASSUME Init PROVE Inv
    OBVIOUS
  <2>1. console = [dstaddr |-> 0, object |-> 0, connected |-> FALSE]
        /\ suspended = TRUE /\ rxEnabled = FALSE
    BY DEF Init, FirmwareInit
  <2>2. console \in [dstaddr : {0}, object : {0}, connected : BOOLEAN]
        /\ console.connected = FALSE
    BY <2>1, NewRecord
  <2> QED
    BY <2>1, <2>2 DEF ConnectedRuns, ConsoleRecord
<1>2. Inv /\ [Next]_vars => Inv'
  <2> SUFFICES ASSUME Inv, [Next]_vars PROVE Inv'
    OBVIOUS
  <2> USE DEF ConnectedRuns, ConsoleRecord
  <2>1. CASE RxConsoleConn
    <3> DEFINE a == Head(canrxq).src
               b == Head(canrxq).data[1]
    <3>1. console' = [dstaddr |-> a, object |-> b, connected |-> TRUE]
          /\ suspended' = FALSE /\ rxEnabled' = TRUE
      BY <2>1 DEF RxConsoleConn, SerialRxEnable, vTaskResume
    <3>2. console' \in [dstaddr : {a}, object : {b}, connected : BOOLEAN]
          /\ console'.connected = TRUE
      BY <3>1, NewRecord
    <3> QED
      BY <3>1, <3>2
  <2>2. CASE RxConsoleDisc
    <3>1. CASE UNCHANGED connectionVars
      BY <3>1 DEF connectionVars
    <3>2. CASE /\ rxEnabled' = FALSE /\ suspended' = TRUE
               /\ console' = [console EXCEPT !.connected = FALSE]
      <4>1. PICK A, B :
              console \in [dstaddr : A, object : B, connected : BOOLEAN]
        OBVIOUS
      <4>2. /\ console' \in [dstaddr : A, object : B, connected : BOOLEAN]
            /\ console'.connected = FALSE
        BY <3>2, <4>1, ClearConnected
      <4> QED
        BY <3>2, <4>2
    <3> QED
      BY <2>2, <3>1, <3>2 DEF RxConsoleDisc, vTaskSuspend, connectionVars
  <2>3. CASE UNCHANGED connectionVars
    BY <2>3 DEF connectionVars
  <2> QED
    BY <2>1, <2>2, <2>3, StepCases
<1>3. Inv => ConnectedRuns
  OBVIOUS
<1> QED
  BY <1>1, <1>2, <1>3, PTL DEF Spec

(***************************************************************************)
(* Types.  A request always comes from a helper and goes to the slot, and  *)
(* a connect or disconnect names the object to send to; what the slot puts *)
(* on the bus carries bytes of the Pi or nothing.                          *)
(***************************************************************************)
ToSlotFrame ==
  {f \in [pri : {1}, dst : {Slot}, src : Helper, type : {WO, DAT, ACK},
          object : 0..255, eot : {0, 1}, seq : {0}, data : Seq(Nat)] :
     f.type = WO => f.data = <<OBJ_CONSOLESEND>>}
FromSlotFrame ==
  [pri : {1}, dst : {0} \cup Helper, src : {Slot}, type : {DAT, ACK, NAK},
   object : 0..255, eot : {0, 1}, seq : 0..15, data : Seq(1..MaxByte)]
Chunk == [0..(ChunkSize - 1) -> [data : Seq(1..MaxByte), eot : {0, 1}]]

ChannelsOK ==
  /\ canrxq \in Seq(ToSlotFrame) /\ bus \in Seq(FromSlotFrame)
  /\ sock \in [Helper -> Seq(FromSlotFrame)]
  /\ listening \subseteq Helper /\ faults \in 0..MaxFault
TaskOK ==
  /\ console \in [dstaddr : {0} \cup Helper, object : 0..255, connected : BOOLEAN]
  /\ suspended \in BOOLEAN /\ notified \in BOOLEAN
  /\ cpc \in {"recv", "pack", "send", "wait", "woken"} /\ seq \in Nat
  /\ msg \in FromSlotFrame
UsartOK ==
  /\ rxEnabled \in BOOLEAN /\ dr \in 0..MaxByte /\ overrun \in BOOLEAN
  /\ serialrxq \in Seq(1..MaxByte) /\ Len(serialrxq) <= RxLen
  /\ printed \in 0..MaxByte /\ accepted \in Seq(1..MaxByte)
TxOK == serialtxq \in 0..TxLen /\ toPi \in Seq(Nat)
HelpersOK ==
  /\ hpc \in [Helper -> {"off", "run", "disc"}]
  /\ timer \in [Helper -> BOOLEAN] /\ stdinOn \in [Helper -> BOOLEAN]
  /\ recvTimer \in [Helper -> BOOLEAN] /\ chunk \in [Helper -> Chunk]
  /\ out \in [Helper -> Seq(1..MaxByte)]
  /\ typed \in [Helper -> 0..MaxKey] /\ firstKey \in [Helper -> 0..MaxKey]
  /\ unanswered \in [Helper -> SUBSET {OBJ_CONSOLECONN, OBJ_CONSOLERECV}]
  /\ starts \in [Helper -> 0..MaxStart]
TypeInv == ChannelsOK /\ TaskOK /\ UsartOK /\ TxOK /\ HelpersOK

LEMMA RequestArrives ==
  ASSUME NEW h \in Helper, NEW type \in {WO, DAT, ACK}, NEW object \in 0..255,
         NEW eot \in {0, 1}, NEW data \in Seq(Nat),
         type = WO => data = <<OBJ_CONSOLESEND>>
  PROVE  LET m == Request(h, type, object, eot, data)
         IN m \in ToSlotFrame /\ OverTheWire(m) = m
<1> DEFINE m == Request(h, type, object, eot, data)
<1>1. m = [pri |-> 1, dst |-> Slot, src |-> h, type |-> type, object |-> object,
           eot |-> eot, seq |-> 0, data |-> data]
  BY DEF Request, Message
<1>2. Slot \in 0..63 /\ h \in 0..63 /\ type \in 0..7 /\ eot \in 0..1
  BY NetAssumption DEF WO, DAT, ACK
<1> HIDE DEF m
<1>3. m \in FieldsWith(Seq(Nat))
  BY <1>1, <1>2 DEF FieldsWith
<1>4. m \in ToSlotFrame
  BY <1>1 DEF ToSlotFrame
<1>5. OverTheWire(m) = m
  BY <1>3, RoundTripWith
<1> QED
  BY <1>4, <1>5 DEF m

LEMMA SlotFrameArrives ==
  ASSUME NEW m \in FromSlotFrame
  PROVE  OverTheWire(m) = m
<1>1. {0} \cup Helper \subseteq 0..63 /\ Slot \in 0..63
      /\ {DAT, ACK, NAK} \subseteq 0..7
  BY NetAssumption DEF DAT, ACK, NAK
<1>2. m \in FieldsWith(Seq(1..MaxByte))
  <2>1. /\ m = [pri |-> m.pri, dst |-> m.dst, src |-> m.src, type |-> m.type,
                object |-> m.object, eot |-> m.eot, seq |-> m.seq, data |-> m.data]
        /\ m.pri = 1 /\ m.dst \in {0} \cup Helper /\ m.src = Slot
        /\ m.type \in {DAT, ACK, NAK} /\ m.object \in 0..255 /\ m.eot \in {0, 1}
        /\ m.seq \in 0..15 /\ m.data \in Seq(1..MaxByte)
    BY DEF FromSlotFrame
  <2>2. /\ m.pri \in 0..1 /\ m.dst \in 0..63 /\ m.src \in 0..63
        /\ m.type \in 0..7 /\ m.eot \in 0..1
    BY <1>1, <2>1
  <2> QED
    BY <2>1, <2>2 DEF FieldsWith
<1> QED
  BY <1>2, RoundTripWith

LEMMA FieldByField ==
  ASSUME NEW r, NEW a, NEW b, NEW c, NEW d
  PROVE  [r EXCEPT !.type = a, !.dst = b, !.src = c, !.data = d]
           = [[[[r EXCEPT !.type = a] EXCEPT !.dst = b] EXCEPT !.src = c]
                EXCEPT !.data = d]
BY Zenon

LEMMA ReplyIsFrame ==
  ASSUME NEW f \in ToSlotFrame, NEW type \in {ACK, NAK}
  PROVE  /\ Reply(f, type) \in FromSlotFrame /\ Reply(f, type).data = <<>>
         /\ [Reply(f, type) EXCEPT !.eot = 0, !.seq = 0] \in FromSlotFrame
         /\ [Reply(f, type) EXCEPT !.eot = 0, !.seq = 0].data = <<>>
<1> DEFINE Frames(dst, src, types, data) ==
             [pri : {1}, dst : dst, src : src, type : types, object : 0..255,
              eot : {0, 1}, seq : {0}, data : data]
           f1 == [f EXCEPT !.type = type]
           f2 == [f1 EXCEPT !.dst = f.src]
           f3 == [f2 EXCEPT !.src = f.dst]
           f4 == [f3 EXCEPT !.data = <<>>]
           f5 == [f4 EXCEPT !.eot = 0]
           f6 == [f5 EXCEPT !.seq = 0]
<1>1. f \in Frames({Slot}, Helper, {WO, DAT, ACK}, Seq(Nat))
      /\ f.src \in Helper /\ f.dst = Slot
  BY DEF ToSlotFrame
<1>2. f1 \in Frames({Slot}, Helper, {ACK, NAK}, Seq(Nat))
  BY <1>1
<1>3. f2 \in Frames(Helper, Helper, {ACK, NAK}, Seq(Nat))
  <2> HIDE DEF f1
  <2> QED
    BY <1>1, <1>2
<1>4. f3 \in Frames(Helper, {Slot}, {ACK, NAK}, Seq(Nat))
  <2> HIDE DEF f2
  <2> QED
    BY <1>1, <1>3
<1>5. f4 \in Frames(Helper, {Slot}, {ACK, NAK}, {<<>>})
  <2> HIDE DEF f3
  <2> QED
    BY <1>4
<1>6. f5 \in Frames(Helper, {Slot}, {ACK, NAK}, {<<>>})
  <2> HIDE DEF f4
  <2> QED
    BY <1>5
<1>7. f6 \in Frames(Helper, {Slot}, {ACK, NAK}, {<<>>})
  <2> HIDE DEF f5
  <2> QED
    BY <1>6
<1>8. Reply(f, type) = f4 /\ [Reply(f, type) EXCEPT !.eot = 0, !.seq = 0] = f6
  <2>1. Reply(f, type) = f4
    BY FieldByField, Zenon DEF Reply
  <2>2. [f4 EXCEPT !.eot = 0, !.seq = 0] = f6
    <3> HIDE DEF f4
    <3> QED
      BY Zenon
  <2> HIDE DEF f4, f6
  <2> QED
    BY <2>1, <2>2
<1>9. ASSUME NEW m \in Frames(Helper, {Slot}, {ACK, NAK}, {<<>>})
      PROVE  m \in FromSlotFrame /\ m.data = <<>>
  <2>1. /\ m = [pri |-> m.pri, dst |-> m.dst, src |-> m.src, type |-> m.type,
                object |-> m.object, eot |-> m.eot, seq |-> m.seq, data |-> m.data]
        /\ m.pri = 1 /\ m.dst \in Helper /\ m.src = Slot
        /\ m.type \in {ACK, NAK} /\ m.object \in 0..255 /\ m.eot \in {0, 1}
        /\ m.seq = 0 /\ m.data = <<>>
    BY <1>9
  <2>2. /\ m.pri \in {1} /\ m.dst \in {0} \cup Helper /\ m.src \in {Slot}
        /\ m.type \in {DAT, ACK, NAK} /\ m.seq \in 0..15
        /\ m.data \in Seq(1..MaxByte)
    BY <2>1
  <2> HIDE DEF Frames
  <2> QED
    BY <2>1, <2>2 DEF FromSlotFrame
<1> HIDE DEF f4, f6, Frames
<1> QED
  BY <1>5, <1>7, <1>8, <1>9, Zenon

(* write_chunk_to_stdout finds the eot it looks for, and what it writes are
   bytes of the chunk. *)
LEMMA WrittenFacts ==
  ASSUME NEW c \in Chunk, NEW i \in DOMAIN c, c[i].eot = 1
  PROVE  \E last \in DOMAIN c :
           Written(c) = FlattenSeq([n \in 1..(last + 1) |-> c[n - 1].data])
<1> DEFINE E == {n \in 0..(ChunkSize - 1) : c[n].eot = 1}
           First(n) == n \in DOMAIN c /\ c[n].eot = 1 /\ \A j \in 0..(n - 1) : c[j].eot = 0
<1>1. ChunkSize \in 1..16 /\ DOMAIN c = 0..(ChunkSize - 1)
      /\ \A n \in 0..(ChunkSize - 1) : c[n].eot \in {0, 1}
  BY HelperAssumption DEF Chunk
<1>2. E \subseteq Nat /\ E # {}
  BY <1>1
<1>3. PICK n \in E : \A j \in E : n <= j
  BY <1>2, LeastNumber
<1>4. First(n)
  <2>1. ASSUME NEW j \in 0..(n - 1) PROVE c[j].eot = 0
    <3>1. j \in 0..(ChunkSize - 1) /\ ~(n <= j)
      BY <1>1, <1>3, SMTT(40)
    <3> QED
      BY <1>1, <1>3, <3>1
  <2> QED
    BY <1>1, <1>3, <2>1
<1> DEFINE last == CHOOSE k \in DOMAIN c :
                     c[k].eot = 1 /\ \A j \in 0..(k - 1) : c[j].eot = 0
<1>5. last \in DOMAIN c
  BY <1>4
<1> QED
  BY <1>5 DEF Written

LEMMA WrittenType ==
  ASSUME NEW c \in Chunk, NEW i \in DOMAIN c, c[i].eot = 1
  PROVE  Written(c) \in Seq(1..MaxByte)
<1>1. PICK last \in DOMAIN c :
        Written(c) = FlattenSeq([n \in 1..(last + 1) |-> c[n - 1].data])
  BY WrittenFacts
<1> DEFINE seqs == [n \in 1..(last + 1) |-> c[n - 1].data]
<1>2. DOMAIN c = 0..(ChunkSize - 1) /\ ChunkSize \in 1..16
      /\ \A n \in 0..(ChunkSize - 1) : c[n].data \in Seq(1..MaxByte)
  BY HelperAssumption DEF Chunk
<1>3. \A n \in 1..(last + 1) : n - 1 \in 0..(ChunkSize - 1)
  BY <1>2
<1>4. seqs \in [1..(last + 1) -> Seq(1..MaxByte)] /\ last + 1 \in Nat
  BY <1>2, <1>3
<1>5. seqs \in Seq(Seq(1..MaxByte))
  BY <1>4
<1> QED
  BY <1>1, <1>5, FlattenElements

LEMMA SeqFacts ==
  ASSUME NEW S, NEW s \in Seq(S)
  PROVE  /\ \A x \in S : Append(s, x) \in Seq(S)
         /\ s # <<>> => Head(s) \in S /\ Tail(s) \in Seq(S) /\ Head(s) = s[1]
                        /\ 1 \in 1..Len(s) /\ Len(s) \in Nat
OBVIOUS

(* A request is queued; nothing else about the channels changes. *)
LEMMA SendType ==
  ASSUME ChannelsOK, NEW m \in ToSlotFrame, SendToSlot(m), OverTheWire(m) = m
  PROVE  canrxq' \in Seq(ToSlotFrame) /\ canrxq' = Append(canrxq, m)
BY SeqFacts DEF SendToSlot, ChannelsOK

LEMMA InitType == Init => TypeInv
<1> SUFFICES ASSUME Init PROVE TypeInv
  OBVIOUS
<1>1. ChannelsOK
  BY NetAssumption DEF Init, NetInit, ChannelsOK
<1>2. TaskOK
  <2>1. msg \in FromSlotFrame
    <3>1. msg = [pri |-> 1, dst |-> 0, src |-> Slot, type |-> DAT, object |-> 0,
                 eot |-> 0, seq |-> 0, data |-> <<>>]
      BY DEF Init, FirmwareInit, Message
    <3>2. <<>> \in Seq(1..MaxByte)
      OBVIOUS
    <3> QED
      BY <3>1, <3>2 DEF FromSlotFrame
  <2>2. console = [dstaddr |-> 0, object |-> 0, connected |-> FALSE]
    BY DEF Init, FirmwareInit
  <2>3. console \in [dstaddr : {0} \cup Helper, object : 0..255, connected : BOOLEAN]
    BY <2>2
  <2> QED
    BY <2>1, <2>3 DEF Init, FirmwareInit, TaskOK
<1>3. UsartOK /\ TxOK
  <2>1. /\ rxEnabled = FALSE /\ dr = 0 /\ serialrxq = <<>> /\ overrun = FALSE
        /\ serialtxq = 0 /\ printed = 0 /\ accepted = <<>> /\ toPi = <<>>
    BY DEF Init, FirmwareInit
  <2>2. RxLen \in Nat /\ TxLen \in Nat /\ MaxByte \in Nat
    BY FirmwareAssumption
  <2>3. UsartOK
    <3>1. rxEnabled \in BOOLEAN /\ overrun \in BOOLEAN
      BY <2>1
    <3>2. dr \in 0..MaxByte /\ printed \in 0..MaxByte
      BY <2>1, <2>2
    <3>3. serialrxq \in Seq(1..MaxByte) /\ accepted \in Seq(1..MaxByte)
          /\ Len(serialrxq) = 0
      BY <2>1
    <3> QED
      BY <2>2, <3>1, <3>2, <3>3 DEF UsartOK
  <2>4. TxOK
    BY <2>1, <2>2 DEF TxOK
  <2> QED
    BY <2>3, <2>4
<1>4. HelpersOK
  <2>1. EmptyChunk \in Chunk
    BY DEF EmptyChunk, NoMessage, Chunk
  <2> QED
    BY <2>1, HelperAssumption DEF Init, HelperInit, HelpersOK
<1> QED
  BY <1>1, <1>2, <1>3, <1>4 DEF TypeInv

(* usart1_isr puts a byte of the Pi in the buffer or drops it. *)
LEMMA IsrType ==
  ASSUME UsartOK, NEW c \in 1..MaxByte, RxIsr(c)
  PROVE  /\ serialrxq' \in Seq(1..MaxByte) /\ Len(serialrxq') <= RxLen
         /\ accepted' \in Seq(1..MaxByte) /\ overrun' \in BOOLEAN
<1>1. CASE ~overrun /\ HasRoom
  <2>1. serialrxq' = Append(serialrxq, c) /\ accepted' = Append(accepted, c)
        /\ overrun' = overrun
    BY <1>1 DEF RxIsr
  <2>2. Len(serialrxq) < RxLen /\ RxLen \in Nat
    BY <1>1, FirmwareAssumption DEF HasRoom
  <2> QED
    BY <2>1, <2>2 DEF UsartOK
<1>2. CASE ~(~overrun /\ HasRoom)
  BY <1>2 DEF RxIsr, UsartOK
<1> QED
  BY <1>1, <1>2

LEMMA UartType ==
  ASSUME TypeInv, UartByte \/ UartTx, UNCHANGED helperVars
  PROVE  TypeInv'
<1>1. HelpersOK'
  BY DEF TypeInv, HelpersOK, helperVars
<1>2. ChannelsOK' /\ TaskOK'
  BY DEF TypeInv, ChannelsOK, TaskOK, UartByte, UartTx, netVars, taskVars
<1>3. CASE UartByte
  <2>1. TxOK'
    BY <1>3 DEF TypeInv, TxOK, UartByte, txVars
  <2>2. printed + 1 \in 1..MaxByte /\ printed' = printed + 1 /\ rxEnabled' = rxEnabled
    BY <1>3, FirmwareAssumption DEF UartByte, TypeInv, UsartOK
  <2>3. CASE rxEnabled
    <3>1. RxIsr(printed + 1) /\ dr' = dr
      BY <1>3, <2>3 DEF UartByte
    <3> QED
      BY <1>1, <1>2, <2>1, <2>2, <3>1, IsrType DEF TypeInv, UsartOK
  <2>4. CASE ~rxEnabled
    <3>1. dr' \in {dr, printed + 1} /\ UNCHANGED <<serialrxq, overrun, accepted>>
      BY <1>3, <2>4 DEF UartByte
    <3> QED
      BY <1>1, <1>2, <2>1, <2>2, <3>1 DEF TypeInv, UsartOK
  <2> QED
    BY <2>3, <2>4
<1>4. CASE UartTx
  <2>1. UsartOK'
    BY <1>4 DEF TypeInv, UsartOK, UartTx, usartVars
  <2>2. TxOK'
    BY <1>4, FirmwareAssumption DEF TypeInv, TxOK, UartTx
  <2> QED
    BY <1>1, <1>2, <2>1, <2>2 DEF TypeInv
<1> QED
  BY <1>3, <1>4

LEMMA ConTaskType ==
  ASSUME TypeInv, ConTask \/ ConSendFails, UNCHANGED helperVars
  PROVE  TypeInv'
<1> USE DEF TypeInv
<1>1. HelpersOK'
  BY DEF HelpersOK, helperVars
<1>2. CASE ConRecv
  <2>1. ChannelsOK' /\ TxOK'
    BY <1>2 DEF ConRecv, ChannelsOK, TxOK, netVars, txVars
  <2> DEFINE n == IF Len(serialrxq) < MsgLen THEN Len(serialrxq) ELSE MsgLen
             a == SubSeq(serialrxq, 1, n)
             b == SubSeq(serialrxq, n + 1, Len(serialrxq))
  <2>2. /\ msg' = [msg EXCEPT !.data = a] /\ serialrxq' = b
        /\ overrun' = (overrun /\ ~Resumes(b)) /\ cpc' = "pack"
        /\ UNCHANGED <<console, suspended, notified, seq, rxEnabled, dr, printed, accepted>>
    BY <1>2 DEF ConRecv
  <2>3. n \in 0..Len(serialrxq) /\ Len(serialrxq) \in Nat /\ serialrxq \in Seq(1..MaxByte)
    BY FirmwareAssumption DEF UsartOK
  <2> HIDE DEF n
  <2>4. a \in Seq(1..MaxByte) /\ b \in Seq(1..MaxByte) /\ Len(b) = Len(serialrxq) - n
    BY <2>3, Slices, Zenon
  <2>5. Len(b) <= Len(serialrxq)
    BY <2>3, <2>4
  <2> HIDE DEF a, b
  <2>6. msg' \in FromSlotFrame
    <3>1. msg \in FromSlotFrame
      BY DEF TaskOK
    <3> QED
      BY <2>2, <2>4, <3>1, ZenonT(60) DEF FromSlotFrame
  <2>7. TaskOK'
    BY <2>2, <2>6 DEF TaskOK
  <2>8. RxLen \in Nat
    BY FirmwareAssumption
  <2>9. serialrxq' \in Seq(1..MaxByte) /\ Len(serialrxq') <= RxLen
    BY <2>2, <2>3, <2>4, <2>5, <2>8 DEF UsartOK
  <2>10. overrun' \in BOOLEAN
    BY <2>2
  <2>11. UsartOK'
    BY <2>2, <2>9, <2>10 DEF UsartOK
  <2> QED
    BY <1>1, <2>1, <2>7, <2>11
<1>3. CASE ConPack
  <2>1. ChannelsOK' /\ UsartOK' /\ TxOK'
    BY <1>3 DEF ConPack, ChannelsOK, UsartOK, TxOK, netVars, usartVars, txVars
  <2> DEFINE eot == IF EndsChunk THEN 1 ELSE 0
  <2>2. msg' = [pri |-> 1, dst |-> console.dstaddr, src |-> Slot, type |-> DAT,
                object |-> console.object, eot |-> eot, seq |-> seq % ChunkLen,
                data |-> msg.data]
        /\ seq' = seq + 1 /\ cpc' = "send" /\ UNCHANGED <<console, suspended, notified>>
    BY <1>3 DEF ConPack, Message
  <2>3. eot \in {0, 1} /\ seq % ChunkLen \in 0..15
    BY FirmwareAssumption DEF TaskOK
  <2>4. console.dstaddr \in {0} \cup Helper /\ console.object \in 0..255
        /\ msg.data \in Seq(1..MaxByte)
    BY DEF TaskOK, FromSlotFrame
  <2> HIDE DEF eot
  <2>5. msg' \in FromSlotFrame
    BY <2>2, <2>3, <2>4 DEF FromSlotFrame
  <2>6. TaskOK'
    BY <2>2, <2>5 DEF TaskOK
  <2> QED
    BY <1>1, <2>1, <2>6
<1>4. CASE ConSend
  <2>1. UsartOK' /\ TxOK' /\ TaskOK'
    BY <1>4 DEF ConSend, TaskOK, UsartOK, TxOK, usartVars, txVars
  <2>2. bus' \in Seq(FromSlotFrame)
    BY <1>4, SeqFacts DEF ConSend, ChannelsOK, TaskOK
  <2>3. ChannelsOK'
    BY <1>4, <2>2 DEF ConSend, ChannelsOK
  <2> QED
    BY <1>1, <2>1, <2>3
<1>5. CASE ConSendFails
  <2>1. UsartOK' /\ TxOK' /\ TaskOK'
    BY <1>5 DEF ConSendFails, TaskOK, UsartOK, TxOK, usartVars, txVars
  <2>2. ChannelsOK'
    BY <1>5, NetAssumption DEF ConSendFails, ChannelsOK
  <2> QED
    BY <1>1, <2>1, <2>2
<1>6. ASSUME NEW from, ConTake(from) PROVE TypeInv'
  <2>1. UsartOK' /\ TxOK' /\ TaskOK' /\ ChannelsOK'
    BY <1>6 DEF ConTake, TaskOK, UsartOK, TxOK, ChannelsOK, usartVars, txVars, netVars
  <2> QED
    BY <1>1, <2>1
<1> QED
  BY <1>2, <1>3, <1>4, <1>5, <1>6
     DEF ConTask, ConAcked, ConTimeoutLate, ConTimeout, ConWoken

(* What the canrx task takes from its queue, and what it answers. *)
LEMMA ReceivedType ==
  ASSUME TypeInv, canrxq # <<>>
  PROVE  /\ Head(canrxq) \in ToSlotFrame /\ Tail(canrxq) \in Seq(ToSlotFrame)
         /\ Head(canrxq).src \in Helper /\ Head(canrxq).data \in Seq(Nat)
         /\ Head(canrxq).type = WO => Head(canrxq).data[1] = OBJ_CONSOLESEND
         /\ \A type \in {ACK, NAK} :
              /\ Append(bus, Reply(Head(canrxq), type)) \in Seq(FromSlotFrame)
              /\ Append(bus, [Reply(Head(canrxq), type) EXCEPT !.eot = 0, !.seq = 0])
                   \in Seq(FromSlotFrame)
<1>1. canrxq \in Seq(ToSlotFrame) /\ bus \in Seq(FromSlotFrame)
  BY DEF TypeInv, ChannelsOK
<1>2. Head(canrxq) \in ToSlotFrame /\ Tail(canrxq) \in Seq(ToSlotFrame)
  BY <1>1, SeqFacts
<1> DEFINE f == Head(canrxq)
<1> HIDE DEF f
<1>3. f \in ToSlotFrame
  BY <1>2 DEF f
<1>4. f.src \in Helper /\ f.data \in Seq(Nat) /\ (f.type = WO => f.data[1] = OBJ_CONSOLESEND)
  BY <1>3 DEF ToSlotFrame
<1>5. ASSUME NEW type \in {ACK, NAK}
      PROVE  /\ Append(bus, Reply(f, type)) \in Seq(FromSlotFrame)
             /\ Append(bus, [Reply(f, type) EXCEPT !.eot = 0, !.seq = 0])
                  \in Seq(FromSlotFrame)
  BY <1>1, <1>3, ReplyIsFrame, SeqFacts
<1> QED
  BY <1>2, <1>4, <1>5 DEF f

LEMMA RxTaskType ==
  ASSUME TypeInv, RxTask, UNCHANGED helperVars
  PROVE  TypeInv'
<1> USE DEF TypeInv
<1>0. HelpersOK'
  BY DEF HelpersOK, helperVars
<1> DEFINE f == Head(canrxq)
<1>1. CASE RxConsoleConn
  <2>1. canrxq # <<>> /\ f.type = WO /\ canrxq' = Tail(canrxq)
        /\ bus' = Append(bus, Reply(f, ACK)) /\ UNCHANGED <<sock, listening, faults>>
    BY <1>1 DEF RxConsoleConn, Received, Respond
  <2>2. ChannelsOK'
    BY <2>1, ReceivedType DEF ChannelsOK
  <2>3. console' = [dstaddr |-> f.src, object |-> f.data[1], connected |-> TRUE]
        /\ suspended' = FALSE
        /\ cpc' = (IF suspended /\ cpc = "wait" THEN "woken" ELSE cpc)
        /\ UNCHANGED <<notified, msg, seq>>
    BY <1>1 DEF RxConsoleConn, vTaskResume
  <2>4. f.src \in {0} \cup Helper /\ f.data[1] \in 0..255
    BY <2>1, ReceivedType DEF OBJ_CONSOLESEND
  <2> HIDE DEF f
  <2>5. console' \in [dstaddr : {0} \cup Helper, object : 0..255, connected : BOOLEAN]
    BY <2>3, <2>4
  <2>6. TaskOK'
    BY <2>3, <2>5 DEF TaskOK
  <2>7. UsartOK'
    <3>1. SerialRxEnable
      BY <1>1 DEF RxConsoleConn
    <3>2. CASE dr # 0
      <4>1. RxIsr(dr) /\ dr \in 1..MaxByte /\ dr' = 0 /\ rxEnabled' = TRUE
            /\ printed' = printed
        BY <3>1, <3>2 DEF SerialRxEnable, UsartOK
      <4>2. MaxByte \in Nat
        BY FirmwareAssumption
      <4> QED
        BY <4>1, <4>2, IsrType DEF UsartOK
    <3>3. CASE dr = 0
      BY <3>1, <3>3, FirmwareAssumption DEF SerialRxEnable, UsartOK
    <3> QED
      BY <3>2, <3>3
  <2>8. TxOK'
    BY <1>1 DEF RxConsoleConn, TxOK, txVars
  <2> QED
    BY <1>0, <2>2, <2>6, <2>7, <2>8
<1>2. CASE RxConsoleDisc
  <2>1. canrxq # <<>> /\ canrxq' = Tail(canrxq) /\ UNCHANGED <<sock, listening, faults>>
        /\ \E type \in {ACK, NAK} : bus' = Append(bus, Reply(f, type))
    BY <1>2 DEF RxConsoleDisc, Received, Respond
  <2>2. ChannelsOK'
    BY <2>1, ReceivedType DEF ChannelsOK
  <2>3. /\ UNCHANGED <<notified, cpc, msg, seq>>
        /\ UNCHANGED <<dr, serialrxq, overrun, printed, accepted, txVars>>
        /\ rxEnabled' \in {rxEnabled, FALSE} /\ suspended' \in {suspended, TRUE}
        /\ console' = console \/ console' = [console EXCEPT !.connected = FALSE]
    BY <1>2 DEF RxConsoleDisc, vTaskSuspend
  <2>4. console' \in [dstaddr : {0} \cup Helper, object : 0..255, connected : BOOLEAN]
    <3>1. console \in [dstaddr : {0} \cup Helper, object : 0..255, connected : BOOLEAN]
      BY DEF TaskOK
    <3> QED
      BY <2>3, <3>1, ZenonT(60)
  <2>5. TaskOK'
    BY <2>3, <2>4 DEF TaskOK
  <2>6. UsartOK' /\ TxOK'
    BY <2>3 DEF UsartOK, TxOK, txVars
  <2> QED
    BY <1>0, <2>2, <2>5, <2>6
<1>3. CASE RxConsoleRecv
  <2> DEFINE room == TxLen - serialtxq
             n == IF ~console.connected THEN 0
                  ELSE IF room < Len(f.data) THEN room ELSE Len(f.data)
  <2>1. canrxq # <<>> /\ canrxq' = Tail(canrxq) /\ UNCHANGED <<sock, listening, faults>>
        /\ \/ bus' = Append(bus, Reply(f, NAK))
           \/ bus' = Append(bus, [Reply(f, ACK) EXCEPT !.eot = 0, !.seq = 0])
           \/ bus' = bus
    BY <1>3 DEF RxConsoleRecv, Received
  <2>2. ChannelsOK'
    BY <2>1, ReceivedType DEF ChannelsOK
  <2>3. serialtxq' = serialtxq + n /\ toPi' = toPi \o SubSeq(f.data, 1, n)
    BY <1>3 DEF RxConsoleRecv
  <2>4. f.data \in Seq(Nat) /\ Len(f.data) \in Nat
    BY <2>1, ReceivedType
  <2>5. room \in Nat /\ serialtxq \in 0..TxLen /\ TxLen \in Nat /\ room = TxLen - serialtxq
    BY FirmwareAssumption DEF TxOK
  <2> HIDE DEF f, room
  <2>6. n \in 0..Len(f.data) /\ n \in Nat /\ n <= room
    BY <2>4, <2>5
  <2> HIDE DEF n
  <2>7. serialtxq' \in 0..TxLen
    BY <2>3, <2>5, <2>6
  <2>8. SubSeq(f.data, 1, n) \in Seq(Nat)
    BY <2>4, <2>6, Slices, Zenon
  <2>9. toPi' \in Seq(Nat)
    <3> DEFINE d == SubSeq(f.data, 1, n)
    <3>1. d \in Seq(Nat) /\ toPi' = toPi \o d /\ toPi \in Seq(Nat)
      BY <2>3, <2>8 DEF TxOK
    <3> HIDE DEF d
    <3> QED
      BY <3>1
  <2>10. TxOK'
    BY <2>7, <2>9 DEF TxOK
  <2>11. TaskOK' /\ UsartOK'
    BY <1>3 DEF RxConsoleRecv, TaskOK, UsartOK, taskVars, usartVars
  <2> QED
    BY <1>0, <2>2, <2>10, <2>11
<1>4. CASE RxAck
  <2>1. ChannelsOK'
    BY <1>4, ReceivedType DEF RxAck, ChannelsOK
  <2>2. notified' \in BOOLEAN
    <3>1. notified \in BOOLEAN
      BY DEF TaskOK
    <3>2. notified' = (notified \/ (console.connected /\ Head(canrxq).object = console.object))
      BY <1>4 DEF RxAck
    <3> QED
      BY <3>1, <3>2
  <2>3. TaskOK'
    BY <1>4, <2>2 DEF RxAck, TaskOK
  <2>4. UsartOK' /\ TxOK'
    BY <1>4 DEF RxAck, UsartOK, TxOK, usartVars, txVars
  <2> QED
    BY <1>0, <2>1, <2>3, <2>4
<1> QED
  BY <1>1, <1>2, <1>3, <1>4 DEF RxTask

LEMMA BusType ==
  ASSUME TypeInv, Deliver \/ LoseToFirmware \/ LoseToHelper,
         UNCHANGED <<firmwareVars, helperVars>>
  PROVE  TypeInv'
<1> USE DEF TypeInv
<1>1. TaskOK' /\ UsartOK' /\ TxOK' /\ HelpersOK'
  <2>1. TaskOK' /\ UsartOK' /\ TxOK'
    BY DEF TaskOK, UsartOK, TxOK, firmwareVars, taskVars, usartVars, txVars
  <2>2. HelpersOK'
    BY DEF HelpersOK, helperVars
  <2> QED
    BY <2>1, <2>2
<1>2. CASE Deliver
  <2>1. PICK i \in 1..Len(bus) :
          /\ bus' = RemoveAt(bus, i)
          /\ sock' = [h \in Helper |->
                        IF h = bus[i].dst /\ h \in listening
                          THEN Append(sock[h], OverTheWire(bus[i])) ELSE sock[h]]
          /\ UNCHANGED <<canrxq, listening, faults>>
    BY <1>2 DEF Deliver
  <2>2. bus \in Seq(FromSlotFrame) /\ sock \in [Helper -> Seq(FromSlotFrame)]
    BY DEF ChannelsOK
  <2>3. bus' \in Seq(FromSlotFrame)
    BY <2>1, <2>2, RemoveAtValues
  <2> DEFINE m == OverTheWire(bus[i])
  <2>4. m \in FromSlotFrame
    BY <2>2, SlotFrameArrives
  <2> HIDE DEF m
  <2>5. sock' \in [Helper -> Seq(FromSlotFrame)]
    <3>1. \A h \in Helper : Append(sock[h], m) \in Seq(FromSlotFrame)
      BY <2>2, <2>4, SeqFacts
    <3>2. sock' = [h \in Helper |-> IF h = bus[i].dst /\ h \in listening
                                      THEN Append(sock[h], m) ELSE sock[h]]
      BY <2>1 DEF m
    <3> QED
      BY <2>2, <3>1, <3>2
  <2> QED
    BY <1>1, <2>1, <2>3, <2>5 DEF ChannelsOK
<1>3. CASE LoseToFirmware
  <2>1. canrxq' \in Seq(ToSlotFrame)
    BY <1>3, ReceivedType DEF LoseToFirmware
  <2> QED
    BY <1>1, <1>3, <2>1, NetAssumption DEF LoseToFirmware, ChannelsOK
<1>4. CASE LoseToHelper
  <2>1. PICK i \in 1..Len(bus) : bus' = RemoveAt(bus, i)
    BY <1>4 DEF LoseToHelper
  <2>2. bus' \in Seq(FromSlotFrame)
    BY <2>1, RemoveAtValues DEF ChannelsOK
  <2> QED
    BY <1>1, <1>4, <2>2, NetAssumption DEF LoseToHelper, ChannelsOK
<1> QED
  BY <1>2, <1>3, <1>4

(* What a helper reads from its socket. *)
LEMMA SocketType ==
  ASSUME TypeInv, NEW h \in Helper, sock[h] # <<>>
  PROVE  /\ Head(sock[h]) \in FromSlotFrame
         /\ [sock EXCEPT ![h] = Tail(@)] \in [Helper -> Seq(FromSlotFrame)]
<1>1. sock \in [Helper -> Seq(FromSlotFrame)] /\ sock[h] \in Seq(FromSlotFrame)
  BY DEF TypeInv, ChannelsOK
<1>2. Head(sock[h]) \in FromSlotFrame /\ Tail(sock[h]) \in Seq(FromSlotFrame)
  BY <1>1, SeqFacts
<1> QED
  BY <1>1, <1>2

LEMMA EmptyChunkType == EmptyChunk \in Chunk
BY DEF EmptyChunk, NoMessage, Chunk

LEMMA DieType ==
  ASSUME TypeInv, NEW h \in Helper, Die(h)
  PROVE  /\ HelpersOK' /\ sock' \in [Helper -> Seq(FromSlotFrame)]
         /\ listening' \subseteq Helper
<1>1. sock' \in [Helper -> Seq(FromSlotFrame)] /\ listening' \subseteq Helper
  <2>1. <<>> \in Seq(FromSlotFrame)
    OBVIOUS
  <2> QED
    BY <2>1 DEF TypeInv, ChannelsOK, Die
<1>2. /\ hpc' \in [Helper -> {"off", "run", "disc"}]
      /\ timer' \in [Helper -> BOOLEAN] /\ stdinOn' \in [Helper -> BOOLEAN]
      /\ recvTimer' \in [Helper -> BOOLEAN] /\ chunk' \in [Helper -> Chunk]
      /\ unanswered' \in [Helper -> SUBSET {OBJ_CONSOLECONN, OBJ_CONSOLERECV}]
  BY EmptyChunkType DEF TypeInv, HelpersOK, Die
<1>3. HelpersOK'
  BY <1>2 DEF TypeInv, HelpersOK, Die
<1> QED
  BY <1>1, <1>3

LEMMA FinishType ==
  ASSUME TypeInv, NEW h \in Helper, NEW c \in Chunk, NEW i \in DOMAIN c, c[i].eot = 1,
         Finish(h, c)
  PROVE  /\ out' \in [Helper -> Seq(1..MaxByte)] /\ chunk' \in [Helper -> Chunk]
         /\ recvTimer' \in [Helper -> BOOLEAN] /\ canrxq' \in Seq(ToSlotFrame)
<1>1. Written(c) \in Seq(1..MaxByte)
  BY WrittenType
<1>2. out \in [Helper -> Seq(1..MaxByte)] /\ out' = [out EXCEPT ![h] = @ \o Written(c)]
  BY DEF TypeInv, HelpersOK, Finish
<1>3. out[h] \o Written(c) \in Seq(1..MaxByte)
  BY <1>1, <1>2, ConcatValues
<1>4. out' \in [Helper -> Seq(1..MaxByte)]
  BY <1>2, <1>3
<1>5. chunk' \in [Helper -> Chunk] /\ recvTimer' \in [Helper -> BOOLEAN]
  BY EmptyChunkType DEF TypeInv, HelpersOK, Finish
<1>6. canrxq' \in Seq(ToSlotFrame)
  <2> DEFINE m == Request(h, ACK, OBJ_CONSOLESEND, 0, <<>>)
  <2>1. SendToSlot(m)
    BY DEF Finish, console_send_ack
  <2>2. <<>> \in Seq(Nat) /\ ACK \in {WO, DAT, ACK} /\ OBJ_CONSOLESEND \in 0..255
        /\ ACK # WO
    BY DEF ACK, WO, DAT, OBJ_CONSOLESEND
  <2>3. m \in ToSlotFrame /\ OverTheWire(m) = m
    BY <2>2, RequestArrives
  <2> HIDE DEF m
  <2> QED
    BY <2>1, <2>3, SendType DEF TypeInv
<1> QED
  BY <1>4, <1>5, <1>6

LEMMA DisconnectType ==
  ASSUME TypeInv, NEW h \in Helper, Disconnect(h), UNCHANGED firmwareVars
  PROVE  TypeInv'
<1>1. canrxq' \in Seq(ToSlotFrame)
  <2> DEFINE m == Request(h, WO, OBJ_CONSOLEDISC, 0, <<OBJ_CONSOLESEND>>)
  <2>1. SendToSlot(m)
    BY DEF Disconnect
  <2>2. <<OBJ_CONSOLESEND>> \in Seq(Nat) /\ OBJ_CONSOLEDISC \in 0..255
    BY DEF OBJ_CONSOLEDISC, OBJ_CONSOLESEND
  <2>3. m \in ToSlotFrame /\ OverTheWire(m) = m
    BY <2>2, RequestArrives
  <2> HIDE DEF m
  <2> QED
    BY <2>1, <2>3, SendType DEF TypeInv
<1>2. ChannelsOK'
  BY <1>1 DEF TypeInv, ChannelsOK, Disconnect
<1>3. HelpersOK'
  BY DEF TypeInv, HelpersOK, Disconnect
<1>4. TaskOK' /\ UsartOK' /\ TxOK'
  BY DEF TypeInv, TaskOK, UsartOK, TxOK, firmwareVars, taskVars, usartVars, txVars
<1> QED
  BY <1>2, <1>3, <1>4 DEF TypeInv

(* handle_recv_dat puts a message where its seq says. *)
LEMMA ReplacedIsChunk ==
  ASSUME NEW c \in Chunk, NEW m \in FromSlotFrame
  PROVE  [c EXCEPT ![m.seq] = [data |-> m.data, eot |-> m.eot]] \in Chunk
<1> DEFINE r == [data |-> m.data, eot |-> m.eot]
<1>1. r \in [data : Seq(1..MaxByte), eot : {0, 1}]
  BY DEF FromSlotFrame
<1> HIDE DEF r
<1>2. [c EXCEPT ![m.seq] = r] \in Chunk
  BY <1>1 DEF Chunk
<1> QED
  BY <1>2 DEF r

LEMMA RecvDatType ==
  ASSUME TypeInv, NEW h \in Helper, RecvDat(h), UNCHANGED firmwareVars
  PROVE  TypeInv'
<1> DEFINE m == Head(sock[h])
           c == [chunk[h] EXCEPT ![m.seq] = [data |-> m.data, eot |-> m.eot]]
<1>1. /\ sock[h] # <<>> /\ sock' = [sock EXCEPT ![h] = Tail(@)]
      /\ \/ Complete(c, FALSE) /\ Finish(h, c)
         \/ /\ chunk' = [chunk EXCEPT ![h] = c]
            /\ recvTimer' = [recvTimer EXCEPT ![h] = TRUE]
            /\ UNCHANGED <<out, canrxq>>
      /\ UNCHANGED <<hpc, timer, stdinOn, typed, firstKey, unanswered, starts,
                     bus, listening, faults>>
  BY DEF RecvDat, ReadCan
<1>2. sock' \in [Helper -> Seq(FromSlotFrame)] /\ m \in FromSlotFrame
  BY <1>1, SocketType
<1>3. chunk[h] \in Chunk
  BY DEF TypeInv, HelpersOK
<1>4. c \in Chunk
  BY <1>2, <1>3, ReplacedIsChunk
<1> HIDE DEF c, m
<1>5. /\ out' \in [Helper -> Seq(1..MaxByte)] /\ chunk' \in [Helper -> Chunk]
      /\ recvTimer' \in [Helper -> BOOLEAN] /\ canrxq' \in Seq(ToSlotFrame)
  <2>1. CASE Complete(c, FALSE) /\ Finish(h, c)
    <3>1. PICK i \in DOMAIN c : c[i].eot = 1
      BY <2>1 DEF Complete
    <3> QED
      BY <1>4, <2>1, <3>1, FinishType
  <2>2. CASE /\ chunk' = [chunk EXCEPT ![h] = c]
             /\ recvTimer' = [recvTimer EXCEPT ![h] = TRUE]
             /\ UNCHANGED <<out, canrxq>>
    BY <1>4, <2>2 DEF TypeInv, HelpersOK, ChannelsOK
  <2> QED
    BY <1>1, <2>1, <2>2
<1>6. ChannelsOK' /\ HelpersOK'
  BY <1>1, <1>2, <1>5 DEF TypeInv, ChannelsOK, HelpersOK
<1>7. TaskOK' /\ UsartOK' /\ TxOK'
  BY DEF TypeInv, TaskOK, UsartOK, TxOK, firmwareVars, taskVars, usartVars, txVars
<1> QED
  BY <1>6, <1>7 DEF TypeInv

LEMMA RecvTimeoutType ==
  ASSUME TypeInv, NEW h \in Helper, RecvTimeout(h), UNCHANGED firmwareVars
  PROVE  TypeInv'
<1>1. CASE Disconnect(h)
  BY <1>1, DisconnectType
<1>2. CASE /\ Complete(chunk[h], TRUE) /\ Finish(h, chunk[h])
           /\ UNCHANGED <<hpc, timer, stdinOn, typed, firstKey, unanswered,
                          starts, bus, sock, listening, faults>>
  <2>1. chunk[h] \in Chunk
    BY DEF TypeInv, HelpersOK
  <2>2. PICK i \in DOMAIN chunk[h] : chunk[h][i].eot = 1
    BY <1>2 DEF Complete
  <2>3. /\ out' \in [Helper -> Seq(1..MaxByte)] /\ chunk' \in [Helper -> Chunk]
        /\ recvTimer' \in [Helper -> BOOLEAN] /\ canrxq' \in Seq(ToSlotFrame)
    BY <1>2, <2>1, <2>2, FinishType
  <2>4. ChannelsOK' /\ HelpersOK'
    BY <1>2, <2>3 DEF TypeInv, ChannelsOK, HelpersOK
  <2>5. TaskOK' /\ UsartOK' /\ TxOK'
    BY DEF TypeInv, TaskOK, UsartOK, TxOK, firmwareVars, taskVars, usartVars, txVars
  <2> QED
    BY <2>4, <2>5 DEF TypeInv
<1> QED
  BY <1>1, <1>2 DEF RecvTimeout

LEMMA DieStepType ==
  ASSUME TypeInv, NEW h \in Helper, Die(h), faults' \in 0..MaxFault,
         UNCHANGED <<canrxq, bus, firmwareVars>>
  PROVE  TypeInv'
<1>1. ChannelsOK' /\ HelpersOK'
  BY DieType DEF TypeInv, ChannelsOK
<1>2. TaskOK' /\ UsartOK' /\ TxOK'
  BY DEF TypeInv, TaskOK, UsartOK, TxOK, firmwareVars, taskVars, usartVars, txVars
<1> QED
  BY <1>1, <1>2 DEF TypeInv

LEMMA HelperType ==
  ASSUME TypeInv, NEW h \in Helper, HelperStep(h)
  PROVE  TypeInv'
<1>0. faults \in 0..MaxFault
  BY DEF TypeInv, ChannelsOK
<1>1. CASE RecvDat(h) /\ UNCHANGED firmwareVars
  BY <1>1, RecvDatType
<1>2. ASSUME NEW object, RecvReply(h, object) /\ UNCHANGED firmwareVars PROVE TypeInv'
  <2>1. CASE Die(h)
    BY <1>0, <1>2, <2>1, DieStepType DEF RecvReply
  <2>2. CASE ~Die(h)
    <3>1. /\ sock[h] # <<>> /\ sock' = [sock EXCEPT ![h] = Tail(@)]
          /\ timer' = [timer EXCEPT ![h] = FALSE]
          /\ stdinOn' = [stdinOn EXCEPT ![h] = TRUE]
          /\ unanswered' = [unanswered EXCEPT ![h] = @ \ {object}]
          /\ UNCHANGED <<hpc, recvTimer, chunk, out, typed, firstKey, starts, listening>>
          /\ UNCHANGED <<canrxq, bus, faults>>
      BY <1>2, <2>2 DEF RecvReply, ReadCan
    <3>2. ChannelsOK'
      BY <3>1, SocketType DEF TypeInv, ChannelsOK
    <3>3. timer' \in [Helper -> BOOLEAN] /\ stdinOn' \in [Helper -> BOOLEAN]
          /\ unanswered' \in [Helper -> SUBSET {OBJ_CONSOLECONN, OBJ_CONSOLERECV}]
      BY <3>1 DEF TypeInv, HelpersOK
    <3>4. HelpersOK'
      BY <3>1, <3>3 DEF TypeInv, HelpersOK
    <3>5. TaskOK' /\ UsartOK' /\ TxOK'
      BY <1>2 DEF TypeInv, TaskOK, UsartOK, TxOK, firmwareVars, taskVars, usartVars, txVars
    <3> QED
      BY <3>2, <3>4, <3>5 DEF TypeInv
  <2> QED
    BY <2>1, <2>2
<1>3. CASE Skip(h) /\ UNCHANGED firmwareVars
  <2>1. ChannelsOK'
    BY <1>3, SocketType DEF TypeInv, ChannelsOK, Skip, ReadCan
  <2>2. HelpersOK'
    BY <1>3 DEF TypeInv, HelpersOK, Skip, helperVars
  <2>3. TaskOK' /\ UsartOK' /\ TxOK'
    BY <1>3 DEF TypeInv, TaskOK, UsartOK, TxOK, firmwareVars, taskVars, usartVars, txVars
  <2> QED
    BY <2>1, <2>2, <2>3 DEF TypeInv
<1>4. CASE (DiscReply(h) \/ DiscTimeout(h) \/ AckTimeout(h)) /\ UNCHANGED firmwareVars
  <2>1. Die(h) /\ UNCHANGED <<canrxq, bus, faults>>
    BY <1>4 DEF DiscReply, DiscTimeout, AckTimeout
  <2> QED
    BY <1>0, <1>4, <2>1, DieStepType
<1>5. CASE RecvTimeout(h) /\ UNCHANGED firmwareVars
  BY <1>5, RecvTimeoutType
<1> QED
  BY <1>1, <1>2, <1>3, <1>4, <1>5 DEF HelperStep

LEMMA OutsideType ==
  ASSUME TypeInv, NEW h \in Helper,
         Start(h) \/ CanError(h) \/ StdinRead(h) \/ StdinEof(h),
         UNCHANGED firmwareVars
  PROVE  TypeInv'
<1>0. TaskOK' /\ UsartOK' /\ TxOK'
  BY DEF TypeInv, TaskOK, UsartOK, TxOK, firmwareVars, taskVars, usartVars, txVars
<1>1. CASE Start(h)
  <2> DEFINE m == Request(h, WO, OBJ_CONSOLECONN, 0, <<OBJ_CONSOLESEND>>)
  <2>1. SendToSlot(m) /\ timer' = [timer EXCEPT ![h] = TRUE]
    BY <1>1 DEF Start, console_connect
  <2>2. <<OBJ_CONSOLESEND>> \in Seq(Nat) /\ OBJ_CONSOLECONN \in 0..255
    BY DEF OBJ_CONSOLECONN, OBJ_CONSOLESEND
  <2>3. m \in ToSlotFrame /\ OverTheWire(m) = m
    BY <2>2, RequestArrives
  <2> HIDE DEF m
  <2>4. canrxq' \in Seq(ToSlotFrame)
    BY <2>1, <2>3, SendType DEF TypeInv
  <2>5. ChannelsOK'
    BY <1>1, <2>4 DEF TypeInv, ChannelsOK, Start
  <2>6. starts' \in [Helper -> 0..MaxStart]
    <3>1. starts \in [Helper -> 0..MaxStart] /\ starts[h] < MaxStart
          /\ starts' = [starts EXCEPT ![h] = @ + 1] /\ MaxStart \in Nat
      BY <1>1, HelperAssumption DEF Start, MayStart, TypeInv, HelpersOK
    <3>2. starts[h] + 1 \in 0..MaxStart
      BY <3>1
    <3> QED
      BY <3>1, <3>2
  <2>7. /\ hpc' \in [Helper -> {"off", "run", "disc"}] /\ timer' \in [Helper -> BOOLEAN]
        /\ unanswered' \in [Helper -> SUBSET {OBJ_CONSOLECONN, OBJ_CONSOLERECV}]
        /\ firstKey' \in [Helper -> 0..MaxKey]
    BY <1>1, <2>1 DEF Start, TypeInv, HelpersOK
  <2>8. HelpersOK'
    BY <1>1, <2>6, <2>7 DEF Start, TypeInv, HelpersOK
  <2> QED
    BY <1>0, <2>5, <2>8 DEF TypeInv
<1>2. CASE CanError(h)
  <2>1. faults' \in 0..MaxFault
    BY <1>2, NetAssumption DEF CanError, TypeInv, ChannelsOK
  <2> QED
    BY <1>2, <2>1, DieStepType DEF CanError
<1>3. CASE StdinRead(h)
  <2>1. PICK n \in 1..ReadLen :
          /\ typed[h] + n <= MaxKey
          /\ typed' = [typed EXCEPT ![h] = @ + n]
          /\ console_send_dat(h, [i \in 1..n |-> Key(h, typed[h] + i)])
    BY <1>3 DEF StdinRead
  <2>2. typed \in [Helper -> 0..MaxKey] /\ MaxKey \in Nat /\ ReadLen \in Nat /\ h \in Nat
    BY HelperAssumption, NetAssumption DEF TypeInv, HelpersOK
  <2>3. typed' \in [Helper -> 0..MaxKey]
    <3>1. typed[h] + n \in 0..MaxKey
      BY <2>1, <2>2
    <3> QED
      BY <2>1, <2>2, <3>1
  <2> DEFINE d == [i \in 1..n |-> Key(h, typed[h] + i)]
             m == Request(h, DAT, OBJ_CONSOLERECV, 1, d)
  <2>4. d \in Seq(Nat)
    <3>1. \A i \in 1..n : Key(h, typed[h] + i) \in Nat
      BY <2>2 DEF Key
    <3>2. n \in Nat
      OBVIOUS
    <3> QED
      BY <3>1, <3>2
  <2>5. SendToSlot(m) /\ timer' = [timer EXCEPT ![h] = TRUE]
    BY <2>1 DEF console_send_dat
  <2>6. DAT \in {WO, DAT, ACK} /\ OBJ_CONSOLERECV \in 0..255 /\ DAT # WO
    BY DEF DAT, WO, ACK, OBJ_CONSOLERECV
  <2> HIDE DEF d
  <2>7. m \in ToSlotFrame /\ OverTheWire(m) = m
    BY <2>4, <2>6, RequestArrives
  <2> HIDE DEF m
  <2>8. canrxq' \in Seq(ToSlotFrame)
    BY <2>5, <2>7, SendType DEF TypeInv
  <2>9. ChannelsOK'
    BY <1>3, <2>8 DEF TypeInv, ChannelsOK, StdinRead
  <2>10. /\ timer' \in [Helper -> BOOLEAN] /\ stdinOn' \in [Helper -> BOOLEAN]
         /\ unanswered' \in [Helper -> SUBSET {OBJ_CONSOLECONN, OBJ_CONSOLERECV}]
    BY <1>3, <2>5 DEF StdinRead, TypeInv, HelpersOK
  <2>11. HelpersOK'
    BY <1>3, <2>3, <2>10 DEF StdinRead, TypeInv, HelpersOK
  <2> QED
    BY <1>0, <2>9, <2>11 DEF TypeInv
<1>4. CASE StdinEof(h)
  BY <1>4, DisconnectType DEF StdinEof
<1> QED
  BY <1>1, <1>2, <1>3, <1>4

LEMMA TypeStep == TypeInv /\ [Next]_vars => TypeInv'
<1> SUFFICES ASSUME TypeInv, [Next]_vars PROVE TypeInv'
  OBVIOUS
<1>1. CASE (UartByte \/ UartTx) /\ UNCHANGED helperVars
  BY <1>1, UartType
<1>2. CASE (ConTask \/ ConSendFails) /\ UNCHANGED helperVars
  BY <1>2, ConTaskType
<1>3. CASE RxTask /\ UNCHANGED helperVars
  BY <1>3, RxTaskType
<1>4. CASE (Deliver \/ LoseToFirmware \/ LoseToHelper) /\ UNCHANGED <<firmwareVars, helperVars>>
  BY <1>4, BusType
<1>5. ASSUME NEW h \in Helper, HelperStep(h) PROVE TypeInv'
  BY <1>5, HelperType
<1>6. ASSUME NEW h \in Helper,
             (Start(h) \/ CanError(h) \/ StdinRead(h) \/ StdinEof(h)) /\ UNCHANGED firmwareVars
      PROVE  TypeInv'
  BY <1>6, OutsideType
<1>7. CASE UNCHANGED vars
  <2>1. ChannelsOK' /\ HelpersOK'
    BY <1>7 DEF TypeInv, ChannelsOK, HelpersOK, vars, netVars, helperVars
  <2>2. TaskOK' /\ UsartOK' /\ TxOK'
    BY <1>7 DEF TypeInv, TaskOK, UsartOK, TxOK, vars, firmwareVars, taskVars,
                usartVars, txVars
  <2> QED
    BY <2>1, <2>2 DEF TypeInv
<1> QED
  BY <1>1, <1>2, <1>3, <1>4, <1>5, <1>6, <1>7 DEF Next

LEMMA SeqOfMore ==
  ASSUME NEW S, NEW T, NEW s \in Seq(S), S \subseteq T
  PROVE  s \in Seq(T)
OBVIOUS

(* Every variable has its type in every reachable state, for any helpers,
   buffer sizes, faults and tardiness. *)
THEOREM TypeCorrect == Spec => []TypeOK
<1>1. TypeInv => TypeOK
  <2> SUFFICES ASSUME TypeInv PROVE TypeOK
    OBVIOUS
  <2>1. MaxByte \in Nat /\ 1..MaxByte \subseteq Nat /\ Helper \subseteq Nat
        /\ ChunkSize \in Nat
    BY FirmwareAssumption, HelperAssumption, NetAssumption
  <2>2. \A s \in Seq(1..MaxByte) : s \in Seq(Nat)
    BY <2>1, SeqOfMore
  <2>3. ToSlotFrame \subseteq Frame
    <3> SUFFICES ASSUME NEW f \in ToSlotFrame PROVE f \in Frame
      OBVIOUS
    <3>1. f \in [pri : {1}, dst : {Slot}, src : Helper, type : {WO, DAT, ACK},
                 object : 0..255, eot : {0, 1}, seq : {0}, data : Seq(Nat)]
      BY DEF ToSlotFrame
    <3>2. /\ f = [pri |-> f.pri, dst |-> f.dst, src |-> f.src, type |-> f.type,
                  object |-> f.object, eot |-> f.eot, seq |-> f.seq, data |-> f.data]
          /\ f.pri \in {1} /\ f.dst \in {0, Slot} \cup Helper
          /\ f.src \in {Slot} \cup Helper /\ f.type \in {WO, DAT, ACK, NAK}
          /\ f.object \in 0..255 /\ f.eot \in {0, 1} /\ f.seq \in 0..15
          /\ f.data \in Seq(Nat)
      BY <3>1
    <3> QED
      BY <3>2 DEF Frame
  <2>4. FromSlotFrame \subseteq Frame
    <3> SUFFICES ASSUME NEW f \in FromSlotFrame PROVE f \in Frame
      OBVIOUS
    <3>1. /\ f = [pri |-> f.pri, dst |-> f.dst, src |-> f.src, type |-> f.type,
                  object |-> f.object, eot |-> f.eot, seq |-> f.seq, data |-> f.data]
          /\ f.pri \in {1} /\ f.dst \in {0, Slot} \cup Helper
          /\ f.src \in {Slot} \cup Helper /\ f.type \in {WO, DAT, ACK, NAK}
          /\ f.object \in 0..255 /\ f.eot \in {0, 1} /\ f.seq \in 0..15
          /\ f.data \in Seq(1..MaxByte)
      BY DEF FromSlotFrame
    <3>2. f.data \in Seq(Nat)
      BY <2>2, <3>1
    <3> QED
      BY <3>1, <3>2 DEF Frame
  <2>5. canrxq \in Seq(Frame) /\ bus \in Seq(Frame) /\ sock \in [Helper -> Seq(Frame)]
    <3>1. canrxq \in Seq(ToSlotFrame) /\ bus \in Seq(FromSlotFrame)
          /\ sock \in [Helper -> Seq(FromSlotFrame)]
      BY DEF TypeInv, ChannelsOK
    <3>2. \A s \in Seq(FromSlotFrame) : s \in Seq(Frame)
      BY <2>4, SeqOfMore
    <3>3. canrxq \in Seq(Frame)
      BY <2>3, <3>1, SeqOfMore
    <3> QED
      BY <3>1, <3>2, <3>3
  <2>6. console \in [dstaddr : Nat, object : Nat, connected : BOOLEAN]
    <3>1. console \in [dstaddr : {0} \cup Helper, object : 0..255, connected : BOOLEAN]
      BY DEF TypeInv, TaskOK
    <3>2. \A a \in {0} \cup Helper : a \in Nat
      BY <2>1
    <3>3. \A o \in 0..255 : o \in Nat
      OBVIOUS
    <3>4. /\ console = [dstaddr |-> console.dstaddr, object |-> console.object,
                        connected |-> console.connected]
          /\ console.dstaddr \in {0} \cup Helper /\ console.object \in 0..255
          /\ console.connected \in BOOLEAN
      BY <3>1
    <3>5. console.dstaddr \in Nat /\ console.object \in Nat
      BY <3>2, <3>3, <3>4
    <3> QED
      BY <3>4, <3>5
  <2>7. chunk \in [Helper -> [0..(ChunkSize - 1) -> [data : Seq(Nat), eot : {0, 1}]]]
    <3>1. ASSUME NEW h \in Helper
          PROVE  chunk[h] \in [0..(ChunkSize - 1) -> [data : Seq(Nat), eot : {0, 1}]]
      <4>1. chunk[h] \in [0..(ChunkSize - 1) -> [data : Seq(1..MaxByte), eot : {0, 1}]]
        BY DEF TypeInv, HelpersOK, Chunk
      <4>2. \A r \in [data : Seq(1..MaxByte), eot : {0, 1}] :
              r \in [data : Seq(Nat), eot : {0, 1}]
        BY <2>2
      <4> QED
        BY <4>1, <4>2
    <3> QED
      BY <3>1 DEF TypeInv, HelpersOK
  <2>8. msg \in Frame
    BY <2>4 DEF TypeInv, TaskOK
  <2> QED
    BY <2>5, <2>6, <2>7, <2>8
       DEF TypeOK, TypeInv, ChannelsOK, TaskOK, UsartOK, TxOK, HelpersOK
<1> QED
  BY <1>1, InitType, TypeStep, PTL DEF Spec
=============================================================================
