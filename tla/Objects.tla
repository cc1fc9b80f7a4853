------------------------------- MODULE Objects -------------------------------
(***************************************************************************)
(* Requests from Linux processes to the objects of the slots: the calls of *)
(* libbramble/canobj.c with the commands built on them (powerman-helper,   *)
(* shutdown), canping, and the echo, power and shutdown handlers of the    *)
(* task canrx in firmware/src/canservices.c.                               *)
(*                                                                         *)
(* A reply carries nothing that says which request it answers. Every       *)
(* frame therefore has a req field here, which the code does not see.      *)
(***************************************************************************)
EXTENDS CanMsg, FiniteSets, SequencesExt

CONSTANTS
  Slot,        \* slots with a carrier
  Helper, Shutter, Pinger,  \* processes: powerman-helper, shutdown, canping
  Address,     \* the CAN address of each process's node
  Target,      \* slot numbers given on command lines
  RxDepth,     \* CAN_RX_QUEUE_DEPTH (16)
  SockDepth,   \* frames a socket holds; further ones are dropped
  Mailboxes,   \* transmit mailboxes of the CAN cell (3)
  TIMESTAMP_SLOTS,  \* of canping (256)
  Dawdle,      \* a reply may take longer than DEFAULT_TIMEOUT
  MaxCommand,  \* bound: commands given to each helper
  MaxPing,     \* bound: requests of each canping
  MaxLost      \* bound: replies lost in full queues and sockets

Process == Helper \cup Shutter \cup Pinger

(* parse_slot lets 16 through; valid_linux_address. *)
ASSUME ObjectsAssumption ==
  /\ Slot \subseteq 0..15 /\ Target \subseteq 0..16
  /\ Address \in [Process -> {2} \cup 32..47]
  /\ Helper \cap Shutter = {} /\ Helper \cap Pinger = {} /\ Shutter \cap Pinger = {}
  /\ {RxDepth, SockDepth, Mailboxes, TIMESTAMP_SLOTS} \subseteq Nat \ {0}
  /\ Dawdle \in BOOLEAN /\ {MaxCommand, MaxPing, MaxLost} \subseteq Nat

VARIABLES
  wire,      \* wire[s]: frames for slot s not yet received
  canrxq,    \* canrxq[s]
  out,       \* out[s]: cantxq and the mailboxes of slot s
  cur,       \* cur[s]: the request canrx sleeps in power_set_state for
  pi,        \* pi[s]: "off", "boot", "on" or "halted", the OS stopped
  halt,      \* halt[s]: PI_HALT is low, or shutdown_task is to lower it
  pc,        \* what a process is doing
  sock,      \* the receive buffer of its socket
  call,      \* its latest request
  answer,    \* history: the last reply a helper or a canping took, and for what
  stamped,   \* canping's timestamp[], as the sequence number last stamped
  lost,      \* bound: replies lost
  abandoned, \* history: requests nobody waits for any more
  executed,  \* history: requests to switch power or to shut down carried out
  since      \* history: states of the target's Pi since the command began

slotVars == <<wire, canrxq, out, cur, pi, halt>>
procVars == <<pc, sock, call, answer, stamped>>
histVars == <<lost, abandoned, executed, since>>
vars == <<slotVars, procVars, histVars>>

None == [type |-> "none"]

(*************************** slots *****************************************)
RunPg(s) == pi[s] # "off"                \* power_get_state
IsRunning(s) == pi[s] = "on"             \* mutant: inverted
IsShutdown(s) == pi[s] # "on"            \* power_is_shutdown

CtlAddress(slot) == IF slot = 16 THEN ADDR_CONTROL ELSE slot + ADDR_CONTROL
SlotOf(addr) == addr - ADDR_CONTROL
Carrier(addr) == addr \in {CtlAddress(s) : s \in Slot}

(* usb_lp_can_rx0_isr: a frame that finds canrxq full is gone. *)
RxIsr(s) ==
  /\ wire[s] # <<>>
  /\ wire' = [wire EXCEPT ![s] = Tail(@)]
  /\ canrxq' = IF Len(canrxq[s]) < RxDepth
                 THEN [canrxq EXCEPT ![s] = Append(@, Head(wire[s]))] ELSE canrxq
  /\ UNCHANGED <<out, cur, pi, halt, procVars, histVars>>

AnswerWith(s, f, reply) ==
  out' = [out EXCEPT ![s] = Append(@, [m |-> reply, req |-> f.req])]

(* send_nak keeps quiet when nobody asked for an answer. *)
SendNak(s, f) ==
  IF f.m.type = WNA THEN UNCHANGED out ELSE AnswerWith(s, f, Reply(f.m, NAK))

Ack(m, data) == [Reply(m, ACK) EXCEPT !.data = data]

Echo(s, f) ==
  /\ IF f.m.type = WO THEN AnswerWith(s, f, Ack(f.m, f.m.data)) ELSE SendNak(s, f)
  /\ UNCHANGED <<cur, halt, executed>>

bit(b) == <<IF b THEN 1 ELSE 0>>

PowerAcksFirst(s, f) ==  \* mutant: the ACK goes out before the power is switched
  /\ IF f.m.type = WO
       THEN cur' = [cur EXCEPT ![s] = f] /\ AnswerWith(s, f, Ack(f.m, <<>>))
       ELSE AnswerWith(s, f, Ack(f.m, bit(RunPg(s)))) /\ UNCHANGED cur
  /\ UNCHANGED <<halt, executed>>
(* A write goes to sleep in power_set_state. *)
Power(s, f) ==
  IF f.m.type = WO /\ f.m.data \in {<<0>>, <<1>>}
    THEN cur' = [cur EXCEPT ![s] = f] /\ UNCHANGED <<out, halt, executed>>
    ELSE /\ IF f.m.type = RO THEN AnswerWith(s, f, Ack(f.m, bit(RunPg(s))))
                             ELSE SendNak(s, f)
         /\ UNCHANGED <<cur, halt, executed>>

Shutdown(s, f) ==
  /\ UNCHANGED cur
  /\ IF f.m.type = WO /\ f.m.data = <<>>
       THEN /\ AnswerWith(s, f, Ack(f.m, <<>>))
            /\ halt' = [halt EXCEPT ![s] = TRUE]
            /\ executed' = executed \cup {f.req}
       ELSE /\ IF f.m.type = RO THEN AnswerWith(s, f, Ack(f.m, bit(IsShutdown(s))))
                                ELSE SendNak(s, f)
            /\ UNCHANGED <<halt, executed>>

(* canservices_rx_task; the console's objects are in Console. *)
Handle(s) ==
  /\ cur[s] = None /\ canrxq[s] # <<>>
  /\ canrxq' = [canrxq EXCEPT ![s] = Tail(@)]
  /\ LET f == Head(canrxq[s])
     IN CASE f.m.object = OBJ_ECHO -> Echo(s, f)
          [] f.m.object = OBJ_POWER -> Power(s, f)
          [] f.m.object = OBJ_SHUTDOWN -> Shutdown(s, f)
          [] OTHER -> SendNak(s, f) /\ UNCHANGED <<cur, halt, executed>>
  /\ UNCHANGED <<wire, pi, procVars, lost, abandoned, since>>

Seen(s, state) ==
  since' = [p \in Process |-> IF SlotOf(call[p].dst) = s
                                THEN since[p] \cup {state} ELSE since[p]]
PiBecomes(s, state) == pi' = [pi EXCEPT ![s] = state] /\ Seen(s, state)

(* The power has followed; power_set_state returns and the ACK goes out. *)
Settle(s) ==
  /\ cur[s] # None
  /\ LET on == cur[s].m.data = <<1>>
     IN IF on = RunPg(s) THEN UNCHANGED <<pi, since>>
        ELSE PiBecomes(s, IF on THEN "boot" ELSE "off")
  /\ AnswerWith(s, cur[s], Reply(cur[s].m, ACK))
  /\ executed' = executed \cup {cur[s].req}
  /\ cur' = [cur EXCEPT ![s] = None]
  /\ UNCHANGED <<wire, canrxq, halt, procVars, lost, abandoned>>

(* The Pi: an OS that runs obeys PI_HALT, then the power goes. *)
PiBoots(s) ==
  /\ pi[s] = "boot" /\ PiBecomes(s, "on")
  /\ UNCHANGED <<wire, canrxq, out, cur, halt, procVars, lost, abandoned, executed>>
HaltPulse(s) ==
  /\ halt[s] /\ halt' = [halt EXCEPT ![s] = FALSE]
  /\ IF pi[s] = "on" THEN PiBecomes(s, "halted") ELSE UNCHANGED <<pi, since>>
  /\ UNCHANGED <<wire, canrxq, out, cur, procVars, lost, abandoned, executed>>
PiTurnsOff(s) ==
  /\ pi[s] = "halted" /\ PiBecomes(s, "off")
  /\ UNCHANGED <<wire, canrxq, out, cur, halt, procVars, lost, abandoned, executed>>

(*************************** the bus ***************************************)
(* As in ConsoleNet: the lowest identifier among the mailboxes goes next. *)
Wins(s, i) ==
  /\ i <= Mailboxes
  /\ \A j \in 1..(i - 1) : IdEncode(out[s][i].m) < IdEncode(out[s][j].m)

Open(p) == pc[p] \notin {"new", "done", "died"}

(* Every process at the destination gets the frame. *)
Deliver(s) ==
  \E i \in 1..Len(out[s]) :
    /\ Wins(s, i)
    /\ out' = [out EXCEPT ![s] = RemoveAt(@, i)]
    /\ LET f == [out[s][i] EXCEPT !.m = OverTheWire(@)]
       IN sock' = [p \in Process |->
                     IF Open(p) /\ Address[p] = f.m.dst /\ Len(sock[p]) < SockDepth
                       THEN Append(sock[p], f) ELSE sock[p]]
    /\ UNCHANGED <<wire, canrxq, cur, pi, halt, pc, call, answer, stamped, histVars>>

(* cantxq is full and the sender only traces the failure. *)
LoseReply(s) ==
  /\ lost < MaxLost /\ lost' = lost + 1
  /\ out[s] # <<>> /\ out' = [out EXCEPT ![s] = Front(@)]
  /\ UNCHANGED <<wire, canrxq, cur, pi, halt, procVars, abandoned, executed, since>>

(*************************** canobj ****************************************)
Own(p) == [proc |-> p, n |-> call[p].n]

(* The first half of canobj_write and canobj_read, and canping's timer_cb. *)
Send(p, addr, type, object, data, n) ==
  LET m == Message(Address[p], addr, type, object, 0, 0, data)
      f == [m |-> OverTheWire(m), req |-> [proc |-> p, n |-> n]]
  IN /\ call' = [call EXCEPT ![p] = [dst |-> addr, type |-> type,
                                     object |-> object, data |-> data, n |-> n]]
     /\ IF Carrier(addr)
          THEN /\ wire' = [wire EXCEPT ![SlotOf(addr)] = Append(@, f)]
               /\ since' = [since EXCEPT ![p] = {pi[SlotOf(addr)]} \cup
                              IF p \in Shutter /\ n > 1 THEN @ ELSE {}]
          ELSE /\ since' = [since EXCEPT ![p] = {}]
               /\ UNCHANGED wire

MatchesAnyObject(p, m) ==  \* mutant: the object is not compared
  m.dst = Address[p] /\ m.src = call[p].dst
Matches(p, m) ==
  /\ m.dst = Address[p] /\ m.src = call[p].dst
  /\ m.object = call[p].object

Waits(p) == pc[p] = "wait"

(* Receive messages, filtering non-matched. *)
Skip(p) ==
  /\ Waits(p)
  /\ sock[p] # <<>> /\ ~Matches(p, Head(sock[p]).m)
  /\ sock' = [sock EXCEPT ![p] = Tail(@)]
  /\ UNCHANGED <<slotVars, pc, call, answer, stamped, histVars>>

(* The rest of the call: the first reply that matches is the answer. *)
Take(p) == Waits(p) /\ sock[p] # <<>> /\ Matches(p, Head(sock[p]).m)

(* poll times out. Unless the other end dawdles no answer is on its way. *)
Coming(p) ==
  \E s \in Slot :
    \/ \E f \in Range(wire[s]) \cup Range(canrxq[s]) \cup Range(out[s]) :
         f.req = Own(p)
    \/ cur[s] # None /\ cur[s].req = Own(p)
TimesOut(p) == Waits(p) /\ sock[p] = <<>> /\ (Dawdle \/ ~Coming(p))

(*************************** powerman-helper *******************************)
HelperStart(p) ==
  /\ pc[p] = "new" /\ pc' = [pc EXCEPT ![p] = "idle"]
  /\ UNCHANGED <<slotVars, sock, call, answer, stamped, histVars>>

(* on, off or status SLOT. *)
HelperCommand(p) ==
  /\ pc[p] = "idle" /\ call[p].n < MaxCommand
  /\ pc' = [pc EXCEPT ![p] = "wait"]
  /\ \E slot \in Target, op \in {<<WO, <<0>>>>, <<WO, <<1>>>>, <<RO, <<>>>>} :
       Send(p, CtlAddress(slot), op[1], OBJ_POWER, op[2], call[p].n + 1)
  /\ UNCHANGED <<canrxq, out, cur, pi, halt, sock, answer, stamped, lost,
                 abandoned, executed>>

HelperTake(p) ==
  /\ Take(p)
  /\ answer' = [answer EXCEPT ![p] =
                  [type |-> "reply", f |-> Head(sock[p]), to |-> call[p],
                   since |-> since[p]]]
  /\ pc' = [pc EXCEPT ![p] = "idle"]
  /\ sock' = [sock EXCEPT ![p] = Tail(@)]
  /\ abandoned' = abandoned \cup ({Own(p)} \ {Head(sock[p]).req})
  /\ UNCHANGED <<slotVars, call, stamped, lost, executed, since>>

HelperTimeout(p) ==
  /\ TimesOut(p)
  /\ pc' = [pc EXCEPT ![p] = "idle"]
  /\ abandoned' = abandoned \cup {Own(p)}
  /\ UNCHANGED <<slotVars, sock, call, answer, stamped, lost, executed, since>>

(*************************** shutdown **************************************)
(* Its requests, in order: n tells them apart. *)
Request(p, addr, n) ==
  CASE n = 1 -> Send(p, addr, WO, OBJ_SHUTDOWN, <<>>, 1)
    [] n = 2 -> Send(p, addr, RO, OBJ_SHUTDOWN, <<>>, 2)
    [] n = 3 -> Send(p, addr, RO, OBJ_POWER, <<>>, 3)

ShutterStart(p) ==
  /\ pc[p] = "new" /\ pc' = [pc EXCEPT ![p] = "wait"]
  /\ \E slot \in Target : Request(p, CtlAddress(slot), 1)
  /\ UNCHANGED <<canrxq, out, cur, pi, halt, sock, answer, stamped, lost,
                 abandoned, executed>>

ByteUnchecked(m) == IF m.data = <<>> THEN 0 ELSE m.data[1]  \* mutant: n is not tested
(* read_obj_byte: -1 for an answer without a byte. *)
Byte(m) == IF Len(m.data) = 1 THEN m.data[1] ELSE -1

(* The request that follows reply m, 4 when the command is done, 0 when it
   dies. usleep between polls is part of the frame's way. *)
Then(n, m) ==
  IF m.type # ACK THEN 0
  ELSE CASE n = 1 -> 2
         [] n = 2 -> IF Byte(m) = -1 THEN 0 ELSE IF Byte(m) = 0 THEN 2 ELSE 3
         [] n = 3 -> IF Byte(m) = -1 THEN 0 ELSE IF Byte(m) = 1 THEN 3 ELSE 4

ShutterTake(p) ==
  /\ Take(p)
  /\ LET next == Then(call[p].n, Head(sock[p]).m)
     IN IF next \in 2..3
          THEN /\ Request(p, call[p].dst, next)
               /\ sock' = [sock EXCEPT ![p] = Tail(@)]
               /\ UNCHANGED pc
          ELSE /\ pc' = [pc EXCEPT ![p] = IF next = 4 THEN "done" ELSE "died"]
               /\ sock' = [sock EXCEPT ![p] = <<>>]
               /\ UNCHANGED <<call, wire, since>>
  /\ UNCHANGED <<canrxq, out, cur, pi, halt, answer, stamped, lost, abandoned,
                 executed>>

ShutterTimeout(p) ==
  /\ TimesOut(p)
  /\ pc' = [pc EXCEPT ![p] = "died"]
  /\ abandoned' = abandoned \cup {Own(p)}
  /\ UNCHANGED <<slotVars, sock, call, answer, stamped, lost, executed, since>>

(*************************** canping ***************************************)
PingStart(p) ==
  /\ pc[p] = "new" /\ pc' = [pc EXCEPT ![p] = "ping"]
  /\ UNCHANGED <<slotVars, sock, call, answer, stamped, histVars>>

(* timer_cb; call.n is sequence, the number of the next request. *)
StampNext(p, seq) ==  \* mutant: sequence is incremented too early
  stamped' = [stamped EXCEPT ![p][(seq + 1) % TIMESTAMP_SLOTS] = seq]
Stamp(p, seq) == stamped' = [stamped EXCEPT ![p][seq % TIMESTAMP_SLOTS] = seq]

TimerCb(p) ==
  /\ pc[p] = "ping" /\ call[p].n < MaxPing
  /\ Stamp(p, call[p].n)
  /\ \E slot \in Target \ {16} :
       /\ call[p].n = 0 \/ call[p].dst = CtlAddress(slot)
       /\ Send(p, CtlAddress(slot), WO, OBJ_ECHO, <<call[p].n>>, call[p].n + 1)
  /\ UNCHANGED <<canrxq, out, cur, pi, halt, pc, sock, answer, lost, abandoned,
                 executed>>

(* can_cb, with the sequence number and time it prints. *)
CanCb(p) ==
  /\ pc[p] = "ping" /\ sock[p] # <<>>
  /\ sock' = [sock EXCEPT ![p] = Tail(@)]
  /\ LET f == Head(sock[p])
         seq == f.m.data[1]
     IN IF f.m.src = call[p].dst /\ f.m.object = OBJ_ECHO /\ f.m.type = ACK
          THEN answer' = [answer EXCEPT ![p] =
                 IF seq > call[p].n THEN [type |-> "higher", f |-> f]
                 ELSE [type |-> "time", f |-> f, seq |-> seq,
                       stamp |-> stamped[p][seq % TIMESTAMP_SLOTS],
                       sent |-> call[p].n]]
          ELSE UNCHANGED answer
  /\ UNCHANGED <<slotVars, pc, call, stamped, histVars>>

-----------------------------------------------------------------------------
Init ==
  /\ wire = [s \in Slot |-> <<>>] /\ canrxq = wire /\ out = wire
  /\ cur = [s \in Slot |-> None]
  /\ pi \in [Slot -> {"off", "on"}] /\ halt = [s \in Slot |-> FALSE]
  /\ pc = [p \in Process |-> "new"] /\ sock = [p \in Process |-> <<>>]
  /\ call = [p \in Process |-> [dst |-> 0, type |-> 0, object |-> 0,
                                data |-> <<>>, n |-> 0]]
  /\ answer = [p \in Process |-> None]
  /\ stamped = [p \in Pinger |-> [i \in 0..(TIMESTAMP_SLOTS - 1) |-> -1]]
  /\ lost = 0 /\ abandoned = {} /\ executed = {}
  /\ since = [p \in Process |-> {}]

SlotStep(s) == RxIsr(s) \/ Handle(s) \/ Settle(s) \/ Deliver(s)
PiStep(s) == PiBoots(s) \/ HaltPulse(s) \/ PiTurnsOff(s)
HelperStep(p) == Skip(p) \/ HelperTake(p) \/ HelperTimeout(p)
ShutterStep(p) == Skip(p) \/ ShutterTake(p) \/ ShutterTimeout(p)

Next ==
  \/ \E s \in Slot : SlotStep(s) \/ PiStep(s) \/ LoseReply(s)
  \/ \E p \in Helper : HelperStart(p) \/ HelperCommand(p) \/ HelperStep(p)
  \/ \E p \in Shutter : ShutterStart(p) \/ ShutterStep(p)
  \/ \E p \in Pinger : PingStart(p) \/ TimerCb(p) \/ CanCb(p)

(* The slots' tasks, the bus and started processes go on; people start them
   and give commands when they like. *)
Fairness ==
  /\ \A s \in Slot : /\ WF_vars(RxIsr(s)) /\ WF_vars(Handle(s))
                     /\ WF_vars(Settle(s)) /\ WF_vars(Deliver(s))
                     /\ WF_vars(PiStep(s))
  /\ \A p \in Helper : WF_vars(HelperStep(p))
  /\ \A p \in Shutter : WF_vars(ShutterStep(p))

Spec == Init /\ [][Next]_vars
FairSpec == Spec /\ Fairness

-----------------------------------------------------------------------------
Answered(p) == answer[p].type = "reply"
OwnReply(p) == answer[p].f.req = [proc |-> p, n |-> answer[p].to.n]

(* A call returns the reply to its own request, unless its process gave up an
   earlier one for the same object, or another process uses its address
   (canobj_write and canobj_read match source and object only). *)
OwnAnswer ==
  \A p \in Helper :
    Answered(p) /\ ~OwnReply(p) =>
      LET f == answer[p].f
      IN /\ f.m.src = answer[p].to.dst /\ f.m.object = answer[p].to.object
         /\ f.req \in abandoned \/ f.req.proc # p
         /\ Address[f.req.proc] = Address[p]

(* What powerman-helper prints is so when the reply was its own: the power has
   been switched, or the state was the Pi's at a moment of the call
   (canservices_power). *)
ReportsWhatIs ==
  \A p \in Helper :
    Answered(p) /\ OwnReply(p) /\ answer[p].f.m.type = ACK =>
      LET a == answer[p]
          value == a.f.m.data
      IN IF a.to.type = WO THEN a.f.req \in executed
         ELSE \E state \in a.since : value = bit(state # "off")

(* shutdown ends well only when its command was carried out and the Pi was off
   afterwards, whatever stale replies its address received meanwhile. *)
ShutdownHonest ==
  \A p \in Shutter :
    pc[p] = "done" => [proc |-> p, n |-> 1] \in executed /\ "off" \in since[p]

(* canping times a request with its own time stamp, as long as fewer than
   TIMESTAMP_SLOTS were sent since (timer_cb, can_cb). *)
PingTimes ==
  \A p \in Pinger :
    answer[p] # None /\ answer[p].f.req.proc = p =>
      /\ answer[p].type = "time"
      /\ answer[p].sent <= answer[p].seq + TIMESTAMP_SLOTS
           => answer[p].stamp = answer[p].seq

(* The shutdown command, which polls without end, comes to an end, unless a
   helper's command switches power too: a Pi that boots misses PI_HALT. *)
ShutdownEnds ==
  \A p \in Shutter :
    Waits(p) ~> ~Waits(p) \/ \E req \in executed : req.proc \in Helper
=============================================================================
