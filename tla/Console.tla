------------------------------- MODULE Console -------------------------------
(***************************************************************************)
(* A slot's console: its firmware, the bus and the conman helpers, with    *)
(* the timeouts related to the steps they race with.                       *)
(***************************************************************************)
EXTENDS ConsoleFirmware, ConsoleHelper, FiniteSets

CONSTANT Slow  \* which of "slot", "bus" and "helper" may outlast a timeout

ASSUME ConsoleAssumption ==
  /\ ChunkSize = ChunkLen
  /\ Slow \subseteq {"slot", "bus", "helper"}

vars == <<netVars, firmwareVars, helperVars>>

Init == NetInit /\ FirmwareInit /\ HelperInit

(* A timeout of half a second or more expires when what it waits for will
   not come, or when somebody on the way there is slow. *)
OnBus(S) == \E i \in 1..Len(bus) : bus[i].type \in S
InSock(h, S) == \E i \in 1..Len(sock[h]) : sock[h][i].type \in S
ToSlot(S) == \E i \in 1..Len(canrxq) : canrxq[i].type \in S

ReplyLate(h) ==
  /\ ToSlot({WO, DAT}) => "slot" \in Slow
  /\ OnBus({ACK, NAK}) => "bus" \in Slow
  /\ InSock(h, {ACK, NAK}) => "helper" \in Slow

ChunkLate(h) ==
  /\ (~suspended /\ (cpc \in {"pack", "send"} \/ serialrxq # <<>>))
       => "slot" \in Slow
  /\ OnBus({DAT}) => "bus" \in Slow
  /\ InSock(h, {DAT}) => "helper" \in Slow

AckLate ==
  /\ ToSlot({ACK}) => "slot" \in Slow
  /\ OnBus({DAT}) => "bus" \in Slow
  /\ (\E h \in Helper : InSock(h, {DAT})) => "helper" \in Slow

ConTimeoutLate == AckLate /\ ConTimeout

HelperStep(h) ==
  \/ RecvDat(h) /\ UNCHANGED firmwareVars
  \/ RecvReply(h, OBJ_CONSOLECONN) /\ UNCHANGED firmwareVars
  \/ RecvReply(h, OBJ_CONSOLERECV) /\ UNCHANGED firmwareVars
  \/ Skip(h) /\ UNCHANGED firmwareVars
  \/ DiscReply(h) /\ UNCHANGED firmwareVars
  \/ DiscTimeout(h) /\ ReplyLate(h) /\ UNCHANGED firmwareVars
  \/ AckTimeout(h) /\ ReplyLate(h) /\ UNCHANGED firmwareVars
  \/ RecvTimeout(h) /\ ChunkLate(h) /\ UNCHANGED firmwareVars

RxTask == RxConsoleConn \/ RxConsoleDisc \/ RxConsoleRecv \/ RxAck

ConTask ==
  ConRecv \/ ConPack \/ ConSend \/ ConAcked \/ ConTimeoutLate \/ ConWoken

Next ==
  \/ UartByte /\ UNCHANGED helperVars
  \/ UartTx /\ UNCHANGED helperVars
  \/ ConTask /\ UNCHANGED helperVars
  \/ ConSendFails /\ UNCHANGED helperVars
  \/ RxTask /\ UNCHANGED helperVars
  \/ Deliver /\ UNCHANGED <<firmwareVars, helperVars>>
  \/ LoseToFirmware /\ UNCHANGED <<firmwareVars, helperVars>>
  \/ LoseToHelper /\ UNCHANGED <<firmwareVars, helperVars>>
  \/ \E h \in Helper :
       \/ HelperStep(h)
       \/ Start(h) /\ UNCHANGED firmwareVars
       \/ CanError(h) /\ UNCHANGED firmwareVars
       \/ StdinRead(h) /\ UNCHANGED firmwareVars
       \/ StdinEof(h) /\ UNCHANGED firmwareVars

(* Tasks, interrupts, the bus and the event loops keep going; nobody has to
   print, type, start a helper or lose a frame. *)
Fairness ==
  /\ WF_vars(UartTx /\ UNCHANGED helperVars)
  /\ WF_vars(ConTask /\ UNCHANGED helperVars)
  /\ WF_vars(RxTask /\ UNCHANGED helperVars)
  /\ WF_vars(Deliver /\ UNCHANGED <<firmwareVars, helperVars>>)
  /\ \A h \in Helper : WF_vars(HelperStep(h))

Spec == Init /\ [][Next]_vars
FairSpec == Spec /\ Fairness

-----------------------------------------------------------------------------
Frame == [pri : {1}, dst : {0, Slot} \cup Helper, src : {Slot} \cup Helper,
          type : {WO, DAT, ACK, NAK},
          object : 0..255, eot : {0, 1}, seq : 0..15,
          data : Seq(Nat)]

(* Type correctness of every variable of the console. *)
TypeOK ==
  /\ canrxq \in Seq(Frame) /\ bus \in Seq(Frame)
  /\ sock \in [Helper -> Seq(Frame)] /\ listening \subseteq Helper
  /\ faults \in 0..MaxFault
  /\ console \in [dstaddr : Nat, object : Nat, connected : BOOLEAN]
  /\ suspended \in BOOLEAN /\ notified \in BOOLEAN /\ rxEnabled \in BOOLEAN
  /\ cpc \in {"recv", "pack", "send", "wait", "woken"} /\ seq \in Nat
  /\ msg \in Frame
  /\ dr \in 0..MaxByte /\ serialrxq \in Seq(1..MaxByte) /\ overrun \in BOOLEAN
  /\ Len(serialrxq) <= RxLen
  /\ serialtxq \in 0..TxLen /\ printed \in 0..MaxByte
  /\ accepted \in Seq(1..MaxByte) /\ toPi \in Seq(Nat)
  /\ hpc \in [Helper -> {"off", "run", "disc"}]
  /\ timer \in [Helper -> BOOLEAN] /\ stdinOn \in [Helper -> BOOLEAN]
  /\ recvTimer \in [Helper -> BOOLEAN]
  /\ chunk \in [Helper -> [0..(ChunkSize - 1) ->
                  [data : Seq(Nat), eot : {0, 1}]]]
  /\ out \in [Helper -> Seq(1..MaxByte)]
  /\ typed \in [Helper -> 0..MaxKey] /\ firstKey \in [Helper -> 0..MaxKey]
  /\ unanswered \in [Helper -> SUBSET {OBJ_CONSOLECONN, OBJ_CONSOLERECV}]
  /\ starts \in [Helper -> 0..MaxStart]

(* The connection flag, the task and the receive interrupt never disagree,
   whatever order connects, disconnects and data arrive in
   (canservices_consoleconn and canservices_consoledisc). *)
ConnectedRuns == console.connected = ~suspended /\ rxEnabled = ~suspended

(* No byte of the Pi is shown twice: not by one helper, not by two, with
   frames lost, timeouts, helpers dying and connections taken over. *)
NoDuplicate ==
  \A g, h \in Helper : \A i \in DOMAIN out[g], j \in DOMAIN out[h] :
    out[g][i] = out[h][j] => g = h /\ i = j

(* A helper that reads stdin knows that every key it read before reached
   the Pi's transmit buffer (console_send_dat / canservices_consolerecv). *)
KeysReachPi ==
  \A h \in Helper : hpc[h] = "run" /\ stdinOn[h] =>
    \A n \in (firstKey[h] + 1)..typed[h] :
      \E i \in DOMAIN toPi : toPi[i] = Key(h, n)

Typist(key) == key \div (MaxKey + 1)

(* Each client's keys reach the Pi in the order they were typed, whoever
   else is typing and whatever was lost in between. *)
KeysInOrder ==
  \A i, j \in DOMAIN toPi :
    i < j /\ Typist(toPi[i]) = Typist(toPi[j]) => toPi[i] < toPi[j]

(* console.c, at timeout_cb: "we are never waiting for more than one ACK". *)
OneAckAwaited == \A h \in Helper : Cardinality(unanswered[h]) <= 1

(* "Any little problem such as a lost ACK is treated as a fatal error by this
   program" (console.c): what a live helper has shown is a stretch of what the
   firmware took from the Pi, without holes and in order. *)
LiveOutputWhole ==
  \A h \in Helper : hpc[h] = "run" =>
    \E k \in 0..(Len(accepted) - Len(out[h])) :
      out[h] = SubSeq(accepted, k + 1, k + Len(out[h]))

(* The console implements the pipe, from the receive stream buffer to the
   helper's stdout. *)
Client == CHOOSE h \in Helper : TRUE
Pipe == INSTANCE ConsolePipe
          WITH Byte <- 1..MaxByte, in <- accepted, out <- out[Client]
PipeSpec == Pipe!Spec

(* Every byte the firmware took reaches the helper, unless it has left. *)
BytesArrive ==
  \A h \in Helper :
    \A n \in 1..MaxByte :
      Len(accepted) >= n /\ hpc[h] = "run"
        ~> Len(out[h]) >= n \/ hpc[h] # "run"

(* A receive overrun does not last: as long as a client stays connected the
   task drains serialrxq and RxResume is reached (serial_recv). *)
OverrunEnds == overrun ~> (~overrun \/ ~console.connected)
=============================================================================
