---------------------------- MODULE ConsoleHelper ----------------------------
(***************************************************************************)
(* bramble conman-helper (src/src/cmd/console.c): the process conman runs  *)
(* for one console. A single-threaded libev loop: each callback is a step. *)
(* conman starts it again after it has died.                               *)
(***************************************************************************)
EXTENDS ConsoleNet

CONSTANTS
  ChunkSize,  \* entries of chunk[] (16)
  ReadLen,    \* bytes stdin_cb reads at once (8)
  MaxKey,     \* bound: bytes typed at each helper
  MaxStart,   \* bound: processes started at each address
  MaxProcess  \* bound: processes started at all addresses together

ASSUME HelperAssumption ==
  /\ ChunkSize \in 1..16 /\ ReadLen \in Nat \ {0}
  /\ MaxKey \in Nat /\ MaxStart \in Nat /\ MaxProcess \in Nat

VARIABLES
  hpc,         \* "off", "run" (in ev_run) or "disc" (in console_disconnect)
  timer,       \* timeout_watcher is active
  stdinOn,     \* stdin_watcher is active
  recvTimer,   \* recv_timeout_watcher is active
  chunk,       \* chunk[0..15]: messages of the chunk being assembled
  out,         \* history: bytes written to stdout, over all processes
  typed,       \* keys read from stdin, over all processes
  firstKey,    \* keys read before the present process started
  unanswered,  \* history: objects this process waits to hear an ACK of
  starts       \* processes started at each address

helperVars == <<hpc, timer, stdinOn, recvTimer, chunk, out, typed, firstKey,
                unanswered, starts>>

NoMessage == [data |-> <<>>, eot |-> 0]
EmptyChunk == [i \in 0..(ChunkSize - 1) |-> NoMessage]

HelperInit ==
  /\ hpc = [h \in Helper |-> "off"]
  /\ timer = [h \in Helper |-> FALSE]
  /\ stdinOn = [h \in Helper |-> FALSE]
  /\ recvTimer = [h \in Helper |-> FALSE]
  /\ chunk = [h \in Helper |-> EmptyChunk]
  /\ out = [h \in Helper |-> <<>>]
  /\ typed = [h \in Helper |-> 0] /\ firstKey = [h \in Helper |-> 0]
  /\ unanswered = [h \in Helper |-> {}]
  /\ starts = [h \in Helper |-> 0]

(*************************** chunk *****************************************)
(* chunk_is_complete *)
Complete(c, holesOk) ==
  \E i \in DOMAIN c : /\ c[i].eot = 1
                      /\ holesOk \/ \A j \in 0..i : c[j].data # <<>>

(* write_chunk_to_stdout: everything up to the first eot. *)
Written(c) ==
  LET last == CHOOSE i \in DOMAIN c :
                /\ c[i].eot = 1 /\ \A j \in 0..(i - 1) : c[j].eot = 0
  IN FlattenSeq([i \in 1..(last + 1) |-> c[i - 1].data])

(*************************** process ***************************************)
SendToSlot(m) == canrxq' = Append(canrxq, OverTheWire(m))

Request(h, type, object, eot, data) == Message(h, Slot, type, object, eot, 0, data)

(* Both start the timer that ends the process, and die if can_send fails. *)
console_connect(h) ==
  /\ SendToSlot(Request(h, WO, OBJ_CONSOLECONN, 0, <<OBJ_CONSOLESEND>>))
  /\ timer' = [timer EXCEPT ![h] = TRUE]
console_send_dat(h, keys) ==
  /\ SendToSlot(Request(h, DAT, OBJ_CONSOLERECV, 1, keys))
  /\ timer' = [timer EXCEPT ![h] = TRUE]

console_send_ack(h) == SendToSlot(Request(h, ACK, OBJ_CONSOLESEND, 0, <<>>))

(* A chunk is done: write it, clear chunk[] and send the ACK. *)
FinishKeeps(h, c) ==  \* mutant: no memset
  /\ out' = [out EXCEPT ![h] = @ \o Written(c)]
  /\ chunk' = [chunk EXCEPT ![h] = c]
  /\ recvTimer' = [recvTimer EXCEPT ![h] = FALSE]
  /\ console_send_ack(h)

Finish(h, c) ==
  /\ out' = [out EXCEPT ![h] = @ \o Written(c)]
  /\ chunk' = [chunk EXCEPT ![h] = EmptyChunk]
  /\ recvTimer' = [recvTimer EXCEPT ![h] = FALSE]
  /\ console_send_ack(h)

(* die: the kernel closes the socket and what is in it is gone. *)
Die(h) ==
  /\ hpc' = [hpc EXCEPT ![h] = "off"]
  /\ timer' = [timer EXCEPT ![h] = FALSE]
  /\ stdinOn' = [stdinOn EXCEPT ![h] = FALSE]
  /\ recvTimer' = [recvTimer EXCEPT ![h] = FALSE]
  /\ chunk' = [chunk EXCEPT ![h] = EmptyChunk]
  /\ unanswered' = [unanswered EXCEPT ![h] = {}]
  /\ sock' = [sock EXCEPT ![h] = <<>>]
  /\ listening' = listening \ {h}
  /\ UNCHANGED <<out, typed, firstKey, starts>>

MayStart(h) ==
  /\ starts[h] < MaxStart
  /\ SumFunction(starts) < MaxProcess

(* Mutant: stdin is watched before the connection is acknowledged. *)
StartReadsStdin(h) ==
  /\ hpc[h] = "off" /\ MayStart(h)
  /\ starts' = [starts EXCEPT ![h] = @ + 1]
  /\ hpc' = [hpc EXCEPT ![h] = "run"]
  /\ listening' = listening \cup {h}
  /\ console_connect(h)
  /\ stdinOn' = [stdinOn EXCEPT ![h] = TRUE]
  /\ unanswered' = [unanswered EXCEPT ![h] = {OBJ_CONSOLECONN}]
  /\ firstKey' = [firstKey EXCEPT ![h] = typed[h]]
  /\ UNCHANGED <<recvTimer, chunk, out, typed, bus, sock, faults>>

(* console_main up to ev_run: open the socket, send the connect message. *)
Start(h) ==
  /\ hpc[h] = "off" /\ MayStart(h)
  /\ starts' = [starts EXCEPT ![h] = @ + 1]
  /\ hpc' = [hpc EXCEPT ![h] = "run"]
  /\ listening' = listening \cup {h}
  /\ console_connect(h)
  /\ unanswered' = [unanswered EXCEPT ![h] = {OBJ_CONSOLECONN}]
  /\ firstKey' = [firstKey EXCEPT ![h] = typed[h]]
  /\ UNCHANGED <<stdinOn, recvTimer, chunk, out, typed, bus, sock, faults>>

(* console_disconnect: canobj_write sends the message and waits for its
   reply on the same socket. Every caller dies afterwards. *)
Disconnect(h) ==
  /\ hpc' = [hpc EXCEPT ![h] = "disc"]
  /\ SendToSlot(Request(h, WO, OBJ_CONSOLEDISC, 0, <<OBJ_CONSOLESEND>>))
  /\ UNCHANGED <<timer, stdinOn, recvTimer, chunk, out, typed, firstKey,
                 unanswered, starts, bus, sock, listening, faults>>

(*************************** can_cb ****************************************)
ReadCan(h) == sock[h] # <<>> /\ sock' = [sock EXCEPT ![h] = Tail(@)]

(* handle_recv_dat *)
RecvDat(h) ==
  LET m == Head(sock[h])
      c == [chunk[h] EXCEPT ![m.seq] = [data |-> m.data, eot |-> m.eot]]
  IN /\ hpc[h] = "run" /\ ReadCan(h)
     /\ m.object = OBJ_CONSOLESEND /\ m.type = DAT
     /\ IF Complete(c, FALSE)
          THEN Finish(h, c)
          ELSE /\ chunk' = [chunk EXCEPT ![h] = c]
               /\ recvTimer' = [recvTimer EXCEPT ![h] = TRUE]
               /\ UNCHANGED <<out, canrxq>>
     /\ UNCHANGED <<hpc, timer, stdinOn, typed, firstKey, unanswered, starts,
                    bus, listening, faults>>

(* handle_connect_ack and handle_send_ack, which differ only in what the
   reply answers: an ACK stops the timer and lets stdin be read, a NAK kills. *)
RecvReply(h, object) ==
  LET m == Head(sock[h])
  IN /\ hpc[h] = "run" /\ sock[h] # <<>>
     /\ m.object = object /\ m.type \in {ACK, NAK}
     /\ IF m.type = NAK THEN Die(h)
        ELSE /\ ReadCan(h)
             /\ timer' = [timer EXCEPT ![h] = FALSE]
             /\ stdinOn' = [stdinOn EXCEPT ![h] = TRUE]
             /\ unanswered' = [unanswered EXCEPT ![h] = @ \ {object}]
             /\ UNCHANGED <<hpc, recvTimer, chunk, out, typed, firstKey,
                            starts, listening>>
     /\ UNCHANGED <<canrxq, bus, faults>>

(* can_cb ignores the other objects, canobj_write's receive loop all but the
   reply to its own request. *)
Skip(h) ==
  LET m == Head(sock[h])
  IN /\ ReadCan(h)
     /\ \/ hpc[h] = "run" /\ m.object = OBJ_CONSOLEDISC
        \/ hpc[h] = "disc" /\ m.object # OBJ_CONSOLEDISC
     /\ UNCHANGED <<helperVars, canrxq, bus, listening, faults>>

(* canobj_write is done, or gives up: either way the process exits. *)
DiscReply(h) ==
  /\ hpc[h] = "disc" /\ sock[h] # <<>> /\ Head(sock[h]).object = OBJ_CONSOLEDISC
  /\ Die(h)
  /\ UNCHANGED <<canrxq, bus, faults>>

DiscTimeout(h) ==
  /\ hpc[h] = "disc"
  /\ Die(h)
  /\ UNCHANGED <<canrxq, bus, faults>>

(*************************** timers and stdin ******************************)
(* The n-th key typed at helper h. *)
Key(h, n) == h * (MaxKey + 1) + n

(* Mutant: what was not acknowledged is sent again. *)
AckTimeoutResends(h) ==
  /\ hpc[h] = "run" /\ timer[h] /\ OBJ_CONSOLERECV \in unanswered[h]
  /\ SendToSlot(Request(h, DAT, OBJ_CONSOLERECV, 1, <<Key(h, typed[h])>>))
  /\ UNCHANGED <<helperVars, bus, sock, listening, faults>>

(* timeout_cb *)
AckTimeout(h) ==
  /\ hpc[h] = "run" /\ timer[h]
  /\ Die(h)
  /\ UNCHANGED <<canrxq, bus, faults>>

(* recv_timeout_cb: the timer is not repeating, so it is off afterwards. *)
RecvTimeout(h) ==
  /\ hpc[h] = "run" /\ recvTimer[h]
  /\ IF Complete(chunk[h], TRUE)
       THEN /\ Finish(h, chunk[h])
            /\ UNCHANGED <<hpc, timer, stdinOn, typed, firstKey, unanswered,
                           starts, bus, sock, listening, faults>>
       ELSE Disconnect(h)

(* can_send or can_recv fails. *)
CanError(h) ==
  /\ hpc[h] = "run"
  /\ faults < MaxFault
  /\ faults' = faults + 1
  /\ Die(h)
  /\ UNCHANGED <<canrxq, bus>>

(* stdin_cb *)
StdinRead(h) ==
  /\ hpc[h] = "run" /\ stdinOn[h]
  /\ \E n \in 1..ReadLen :
       /\ typed[h] + n <= MaxKey
       /\ typed' = [typed EXCEPT ![h] = @ + n]
       /\ console_send_dat(h, [i \in 1..n |-> Key(h, typed[h] + i)])
  /\ stdinOn' = [stdinOn EXCEPT ![h] = FALSE]
  /\ unanswered' = [unanswered EXCEPT ![h] = @ \cup {OBJ_CONSOLERECV}]
  /\ UNCHANGED <<hpc, recvTimer, chunk, out, firstKey, starts, bus, sock,
                 listening, faults>>

StdinEof(h) ==
  /\ hpc[h] = "run" /\ stdinOn[h]
  /\ Disconnect(h)
=============================================================================
