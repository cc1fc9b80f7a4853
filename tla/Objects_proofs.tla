--------------------------- MODULE Objects_proofs ---------------------------
(***************************************************************************)
(* Proofs about Objects, for any number of slots and processes, any sizes  *)
(* of the queues and any tardiness: canping times requests right, a helper *)
(* takes no answer but its own and tells the truth, and a shutdown command *)
(* ends well only when the power was off.                                  *)
(***************************************************************************)
EXTENDS Objects, DataFacts

Msg == [pri : {1}, dst : 0..63, src : 0..63, type : 0..7, object : 0..255,
        eot : {0}, seq : {0}, data : Seq(Int)]
Frame == [m : Msg, req : [proc : Process, n : Nat]]
Call == [dst : 0..63, type : 0..7, object : 0..255, data : Seq(Int), n : Nat]
PiStates == {"off", "boot", "on", "halted"}

QueuesOK ==
  /\ wire \in [Slot -> Seq(Frame)] /\ canrxq \in [Slot -> Seq(Frame)]
  /\ out \in [Slot -> Seq(Frame)] /\ cur \in [Slot -> Frame \cup {None}]
  /\ sock \in [Process -> Seq(Frame)]
StatesOK ==
  /\ pi \in [Slot -> PiStates] /\ since \in [Process -> SUBSET PiStates]
  /\ pc \in [Process -> {"new", "idle", "wait", "ping", "done", "died"}]
  /\ call \in [Process -> Call] /\ answer = [p \in Process |-> answer[p]]
  /\ stamped \in [Pinger -> [0..(TIMESTAMP_SLOTS - 1) -> Int]]
ShuttersOK ==
  \A p \in Shutter :
    /\ call[p].n \in 0..3 /\ (pc[p] = "new" => call[p].n = 0)
    /\ pc[p] # "new" => call[p].n # 0 /\ call[p].dst \in 16..31
TypeInv == QueuesOK /\ StatesOK /\ ShuttersOK

(***************************************************************************)
(* Frames.                                                                 *)
(***************************************************************************)
LEMMA MsgFields ==
  ASSUME NEW m \in Msg
  PROVE  /\ m = [pri |-> 1, dst |-> m.dst, src |-> m.src, type |-> m.type,
                 object |-> m.object, eot |-> 0, seq |-> 0, data |-> m.data]
         /\ m.dst \in 0..63 /\ m.src \in 0..63 /\ m.type \in 0..7
         /\ m.object \in 0..255 /\ m.data \in Seq(Int)
         /\ m.pri = 1 /\ m.eot = 0 /\ m.seq = 0
BY DEF Msg

LEMMA IsMsg ==
  ASSUME NEW dst \in 0..63, NEW src \in 0..63, NEW type \in 0..7, NEW object \in 0..255,
         NEW data \in Seq(Int)
  PROVE  [pri |-> 1, dst |-> dst, src |-> src, type |-> type, object |-> object,
          eot |-> 0, seq |-> 0, data |-> data] \in Msg
BY DEF Msg

LEMMA Arrives ==
  ASSUME NEW m \in Msg
  PROVE  OverTheWire(m) = m
<1>1. m \in FieldsWith(Seq(Int))
  <2>1. m.pri \in 0..1 /\ m.eot \in 0..1 /\ m.seq \in 0..15
    BY MsgFields
  <2>2. m = [pri |-> m.pri, dst |-> m.dst, src |-> m.src, type |-> m.type,
             object |-> m.object, eot |-> m.eot, seq |-> m.seq, data |-> m.data]
    BY MsgFields
  <2> QED
    BY <2>1, <2>2, MsgFields DEF FieldsWith
<1> QED
  BY <1>1, RoundTripWith

LEMMA FrameArrives ==
  ASSUME NEW f \in Frame
  PROVE  [f EXCEPT !.m = OverTheWire(@)] = f
<1>1. f.m \in Msg /\ f = [m |-> f.m, req |-> f.req]
  BY DEF Frame
<1>2. OverTheWire(f.m) = f.m
  BY <1>1, Arrives
<1> QED
  BY <1>1, <1>2

LEMMA FieldByField ==
  ASSUME NEW r, NEW a, NEW b, NEW c, NEW d
  PROVE  [r EXCEPT !.type = a, !.dst = b, !.src = c, !.data = d]
           = [[[[r EXCEPT !.type = a] EXCEPT !.dst = b] EXCEPT !.src = c]
                EXCEPT !.data = d]
BY Zenon

LEMMA ReplyIs ==
  ASSUME NEW m \in Msg, NEW type \in 0..7, NEW data \in Seq(Int)
  PROVE  /\ Reply(m, type) = [pri |-> 1, dst |-> m.src, src |-> m.dst, type |-> type,
                     object |-> m.object, eot |-> 0, seq |-> 0, data |-> <<>>]
         /\ Ack(m, data) = [pri |-> 1, dst |-> m.src, src |-> m.dst, type |-> ACK,
                     object |-> m.object, eot |-> 0, seq |-> 0, data |-> data]
<1>1. ASSUME NEW t
      PROVE Reply(m, t) = [pri |-> 1, dst |-> m.src, src |-> m.dst, type |-> t,
                     object |-> m.object, eot |-> 0, seq |-> 0, data |-> <<>>]
  <2> DEFINE r1 == [m EXCEPT !.type = t]
             r2 == [r1 EXCEPT !.dst = m.src]
             r3 == [r2 EXCEPT !.src = m.dst]
             r4 == [r3 EXCEPT !.data = <<>>]
  <2>1. r1 = [pri |-> 1, dst |-> m.dst, src |-> m.src, type |-> t,
              object |-> m.object, eot |-> 0, seq |-> 0, data |-> m.data]
    BY MsgFields
  <2>2. r2 = [pri |-> 1, dst |-> m.src, src |-> m.src, type |-> t,
              object |-> m.object, eot |-> 0, seq |-> 0, data |-> m.data]
    <3> HIDE DEF r1
    <3> QED
      BY <2>1
  <2>3. r3 = [pri |-> 1, dst |-> m.src, src |-> m.dst, type |-> t,
              object |-> m.object, eot |-> 0, seq |-> 0, data |-> m.data]
    <3> HIDE DEF r2
    <3> QED
      BY <2>2
  <2>4. r4 = [pri |-> 1, dst |-> m.src, src |-> m.dst, type |-> t,
              object |-> m.object, eot |-> 0, seq |-> 0, data |-> <<>>]
    <3> HIDE DEF r3
    <3> QED
      BY <2>3
  <2>5. Reply(m, t) = r4
    BY FieldByField, Zenon DEF Reply
  <2> HIDE DEF r4
  <2> QED
    BY <2>4, <2>5
<1> PICK r : r = Reply(m, ACK)
  OBVIOUS
<1>2. Ack(m, data) = [r EXCEPT !.data = data]
  BY DEF Ack
<1>3. r = [pri |-> 1, dst |-> m.src, src |-> m.dst, type |-> ACK,
           object |-> m.object, eot |-> 0, seq |-> 0, data |-> <<>>]
  BY <1>1
<1> QED
  BY <1>1, <1>2, <1>3

LEMMA SeqValues ==
  ASSUME NEW S, NEW q \in Seq(S)
  PROVE  /\ \A x \in S : /\ Append(q, x) \in Seq(S)
                         /\ ValuesOf(Append(q, x)) = ValuesOf(q) \cup {x}
         /\ q # <<>> => /\ Tail(q) \in Seq(S) /\ ValuesOf(Tail(q)) \subseteq ValuesOf(q)
                        /\ Head(q) \in ValuesOf(q) /\ Head(q) \in S
                        /\ Front(q) \in Seq(S) /\ ValuesOf(Front(q)) \subseteq ValuesOf(q)
         /\ \A i \in 1..Len(q) : /\ RemoveAt(q, i) \in Seq(S)
                                 /\ ValuesOf(RemoveAt(q, i)) \subseteq ValuesOf(q)
                                 /\ q[i] \in ValuesOf(q) /\ q[i] \in S
         /\ <<>> \in Seq(S) /\ ValuesOf(<<>>) = {}
<1>1. ASSUME NEW x \in S
      PROVE  Append(q, x) \in Seq(S) /\ ValuesOf(Append(q, x)) = ValuesOf(q) \cup {x}
  <2> DEFINE t == Append(q, x)
             n == Len(q) + 1
  <2>1. /\ Len(q) \in Nat /\ t \in Seq(S) /\ Len(t) = n /\ t[n] = x /\ n \in 1..n
        /\ \A p \in 1..Len(q) : t[p] = q[p] /\ p \in 1..n
        /\ \A p \in 1..n : p # n => p \in 1..Len(q)
    BY AppendProperties
  <2> HIDE DEF t, n
  <2>2. ValuesOf(t) \subseteq ValuesOf(q) \cup {x}
    BY <2>1 DEF ValuesOf
  <2>3. ValuesOf(q) \cup {x} \subseteq ValuesOf(t)
    <3>1. x \in ValuesOf(t)
      BY <2>1 DEF ValuesOf
    <3>2. ValuesOf(q) \subseteq ValuesOf(t)
      BY <2>1 DEF ValuesOf
    <3> QED
      BY <3>1, <3>2
  <2> QED
    BY <2>1, <2>2, <2>3 DEF t
<1>2. ASSUME q # <<>>
      PROVE  Tail(q) \in Seq(S) /\ ValuesOf(Tail(q)) \subseteq ValuesOf(q)
             /\ Head(q) \in ValuesOf(q) /\ Head(q) \in S
  <2> DEFINE t == Tail(q)
  <2>1. /\ Len(q) \in Nat /\ 1 \in 1..Len(q) /\ t \in Seq(S) /\ Len(t) = Len(q) - 1
        /\ \A j \in 1..(Len(q) - 1) : t[j] = q[j + 1] /\ j + 1 \in 1..Len(q)
        /\ Head(q) = q[1] /\ q[1] \in S
    BY <1>2
  <2> HIDE DEF t
  <2>2. ValuesOf(t) \subseteq ValuesOf(q)
    BY <2>1 DEF ValuesOf
  <2> QED
    BY <2>1, <2>2 DEF t, ValuesOf
<1>3. ASSUME q # <<>>
      PROVE  Front(q) \in Seq(S) /\ ValuesOf(Front(q)) \subseteq ValuesOf(q)
  <2> PICK n : n = Len(q) - 1
    OBVIOUS
  <2>1. n \in 0..Len(q) /\ Len(q) \in Nat
    BY <1>3
  <2> DEFINE t == SubSeq(q, 1, n)
  <2>2. t \in Seq(S) /\ Len(t) = n /\ \A p \in 1..n : t[p] = q[p]
    BY <2>1, Slices, Zenon
  <2>3. Front(q) = t
    BY DEF Front
  <2> HIDE DEF t
  <2>4. ValuesOf(t) \subseteq ValuesOf(q)
    BY <2>1, <2>2 DEF ValuesOf
  <2> QED
    BY <2>2, <2>3, <2>4
<1>4. ASSUME NEW i \in 1..Len(q)
      PROVE  /\ RemoveAt(q, i) \in Seq(S)
             /\ ValuesOf(RemoveAt(q, i)) \subseteq ValuesOf(q)
             /\ q[i] \in ValuesOf(q) /\ q[i] \in S
  <2> DEFINE t == RemoveAt(q, i)
  <2>1. /\ Len(q) \in Nat /\ t \in Seq(S) /\ Len(t) = Len(q) - 1
        /\ \A j \in 1..(Len(q) - 1) : t[j] = IF j < i THEN q[j] ELSE q[j + 1]
    BY RemoveAtValues
  <2> HIDE DEF t
  <2>2. \A j \in 1..(Len(q) - 1) : j \in 1..Len(q) /\ j + 1 \in 1..Len(q)
    BY <2>1
  <2>3. ValuesOf(t) \subseteq ValuesOf(q)
    BY <2>1, <2>2 DEF ValuesOf
  <2> QED
    BY <2>1, <2>3 DEF t, ValuesOf
<1>5. <<>> \in Seq(S) /\ ValuesOf(<<>>) = {}
  BY DEF ValuesOf
<1> QED
  BY <1>1, <1>2, <1>3, <1>4, <1>5

LEMMA Longer ==
  ASSUME NEW S, NEW q \in Seq(S), NEW x \in S
  PROVE  Append(q, x) \in Seq(S) /\ ValuesOf(Append(q, x)) = ValuesOf(q) \cup {x}
BY SeqValues

-----------------------------------------------------------------------------
(***************************************************************************)
(* What the frames on their way are: at a slot the requests not answered   *)
(* yet and the answers not sent yet, at a process what its socket holds.   *)
(* A request is of the kind its process makes, and is addressed to the     *)
(* slot it is at; an answer comes from there.                              *)
(***************************************************************************)
Asked(s) == ValuesOf(wire[s]) \cup ValuesOf(canrxq[s]) \cup ({cur[s]} \ {None})
Told(s) == ValuesOf(out[s])
Got(p) == ValuesOf(sock[p])

PowerRequests == {<<WO, <<0>>>>, <<WO, <<1>>>>, <<RO, <<>>>>}
AskedBy(p, n, m) ==
  /\ p \in Helper => m.object = OBJ_POWER /\ <<m.type, m.data>> \in PowerRequests
  /\ p \in Shutter => /\ m.type \in {RO, WO} /\ m.data = <<>>
                      /\ m.object \in {OBJ_POWER, OBJ_SHUTDOWN}
                      /\ n = 1 => m.object = OBJ_SHUTDOWN /\ m.type = WO
                      /\ m.object = OBJ_POWER => m.type = RO
  /\ p \in Pinger => m.object = OBJ_ECHO /\ m.type = WO /\ m.data = <<n - 1>>
RequestOK(f) == f.m.src = Address[f.req.proc] /\ AskedBy(f.req.proc, f.req.n, f.m)

AnsweredTo(p, n, m) ==
  /\ p \in Helper => m.object = OBJ_POWER
  /\ p \in Shutter => m.object \in {OBJ_POWER, OBJ_SHUTDOWN}
  /\ p \in Pinger => m.object = OBJ_ECHO /\ m.data = <<n - 1>>
AnswerOK(f) ==
  /\ f.m.dst = Address[f.req.proc] /\ f.m.type = ACK
  /\ AnsweredTo(f.req.proc, f.req.n, f.m)

Numbered(f) == 1 <= f.req.n /\ f.req.n <= call[f.req.proc].n
FramesOK ==
  /\ \A s \in Slot :
       /\ \A f \in Asked(s) : RequestOK(f) /\ Numbered(f) /\ f.m.dst = s + ADDR_CONTROL
       /\ \A f \in Told(s) : AnswerOK(f) /\ Numbered(f) /\ f.m.src = s + ADDR_CONTROL
       /\ cur[s] # None => cur[s].m.object = OBJ_POWER /\ cur[s].m.type = WO
  /\ \A p \in Process : \A f \in Got(p) :
       /\ AnswerOK(f) /\ Numbered(f) /\ f.m.dst = Address[p]
       /\ \E s \in Slot : f.m.src = s + ADDR_CONTROL

(* The Pi's state is among those seen by who asks its slot. *)
SinceOK ==
  \A p \in Process : \A s \in Slot :
    call[p].dst = s + ADDR_CONTROL => pi[s] \in since[p]
Base == TypeInv /\ FramesOK /\ SinceOK

(***************************************************************************)
(* A step takes frames on: g answers f, or f is a new request.             *)
(***************************************************************************)
Answers(s, f, g) ==
  /\ g \in Frame /\ g.req = f.req /\ g.m.dst = f.m.src /\ g.m.src = f.m.dst
  /\ g.m.type = ACK /\ g.m.object = f.m.object
  /\ f.m.object = OBJ_ECHO => g.m.data = f.m.data
  /\ f.m.object = OBJ_POWER /\ f.m.type = RO => g.m.data = bit(pi[s] # "off")
  /\ f.m.object = OBJ_POWER /\ f.m.type = WO => g.m.data = <<>> /\ f.req \in executed'
  /\ f.m.object = OBJ_SHUTDOWN /\ f.m.type = WO => f.req \in executed'

IsNew(s, f) ==
  LET p == f.req.proc
  IN /\ f \in Frame /\ RequestOK(f) /\ f.m.dst = s + ADDR_CONTROL
     /\ f.req = Own(p)' /\ f.req.n >= 1 /\ (p \notin Shutter => f.req.n # call[p].n)
     /\ f.m.dst = call'[p].dst /\ f.m.type = call'[p].type /\ f.m.data = call'[p].data

Flow ==
  /\ \A s \in Slot :
       /\ \A f \in Asked(s)' : f \in Asked(s) \/ IsNew(s, f)
       /\ \A g \in Told(s)' : g \in Told(s) \/ \E f \in Asked(s) : Answers(s, f, g)
       /\ cur'[s] # None /\ cur'[s] # cur[s] =>
            cur'[s].m.object = OBJ_POWER /\ cur'[s].m.type = WO
  /\ \A p \in Process : \A g \in Got(p)' :
       g \in Got(p) \/ \E s \in Slot : g \in Told(s) /\ g.m.dst = Address[p]

LEMMA SlotIs ==
  ASSUME NEW s \in Slot
  PROVE  s \in 0..15 /\ s + ADDR_CONTROL \in 16..31 /\ SlotOf(s + ADDR_CONTROL) = s
BY ObjectsAssumption DEF SlotOf, ADDR_CONTROL

LEMMA CarrierIs ==
  ASSUME NEW addr, Carrier(addr)
  PROVE  SlotOf(addr) \in Slot /\ addr = SlotOf(addr) + ADDR_CONTROL
<1>1. PICK s \in Slot : addr = CtlAddress(s)
  BY DEF Carrier
<1>2. s \in 0..15 /\ s # 16
  BY ObjectsAssumption
<1>3. addr = s + ADDR_CONTROL
  BY <1>1, <1>2 DEF CtlAddress
<1> QED
  BY <1>3, SlotIs

(* usb_lp_can_rx0_isr *)
LEMMA RxIsrFlow ==
  ASSUME Base, NEW s \in Slot, RxIsr(s)
  PROVE  QueuesOK' /\ Flow
<1> PICK q : q = wire[s]
  OBVIOUS
<1>1. /\ q # <<>> /\ wire' = [wire EXCEPT ![s] = Tail(q)]
      /\ canrxq' = canrxq \/ canrxq' = [canrxq EXCEPT ![s] = Append(@, Head(q))]
      /\ UNCHANGED <<out, cur, sock>>
  BY DEF RxIsr, procVars
<1>2. QueuesOK /\ q \in Seq(Frame) /\ canrxq[s] \in Seq(Frame)
  BY DEF Base, TypeInv, QueuesOK
<1>3. /\ Tail(q) \in Seq(Frame) /\ ValuesOf(Tail(q)) \subseteq ValuesOf(q)
      /\ Head(q) \in ValuesOf(q) /\ Head(q) \in Frame
  BY <1>1, <1>2, SeqValues
<1>4. /\ Append(canrxq[s], Head(q)) \in Seq(Frame)
      /\ ValuesOf(Append(canrxq[s], Head(q))) = ValuesOf(canrxq[s]) \cup {Head(q)}
  BY <1>2, <1>3, SeqValues
<1>5. QueuesOK'
  BY <1>1, <1>2, <1>3, <1>4 DEF QueuesOK
<1>6. ASSUME NEW s2 \in Slot PROVE Asked(s2)' \subseteq Asked(s2) /\ Told(s2)' = Told(s2)
  <2>1. CASE s2 = s
    BY <1>1, <1>2, <1>3, <1>4, <2>1 DEF QueuesOK, Asked, Told
  <2>2. CASE s2 # s
    BY <1>1, <1>2, <2>2 DEF QueuesOK, Asked, Told
  <2> QED
    BY <2>1, <2>2
<1> QED
  BY <1>1, <1>5, <1>6 DEF Flow, Got

LEMMA SameFlow ==
  ASSUME Base, UNCHANGED <<wire, canrxq, out, cur, sock>>
  PROVE  QueuesOK' /\ Flow
BY DEF Base, TypeInv, QueuesOK, Flow, Asked, Told, Got

(* The first half of answering: f is taken, and r is the answer. *)
LEMMA TakenFlow ==
  ASSUME Base, NEW s \in Slot, NEW f \in Asked(s), NEW g, Answers(s, f, g),
         UNCHANGED <<wire, sock>>, canrxq' \in [Slot -> Seq(Frame)],
         cur' \in [Slot -> Frame \cup {None}],
         \A s2 \in Slot : Asked(s2)' \subseteq Asked(s2) /\ cur'[s2] \in {cur[s2], None},
         out' = [out EXCEPT ![s] = Append(@, g)]
  PROVE  QueuesOK' /\ Flow
<1> PICK q : q = out[s]
  OBVIOUS
<1>1. g \in Frame /\ QueuesOK /\ q \in Seq(Frame) /\ out' = [out EXCEPT ![s] = Append(q, g)]
  BY DEF Answers, Base, TypeInv, QueuesOK
<1>2. Append(q, g) \in Seq(Frame) /\ ValuesOf(Append(q, g)) = ValuesOf(q) \cup {g}
  BY <1>1, Longer
<1>3. QueuesOK'
  BY <1>1, <1>2 DEF QueuesOK
<1>4. ASSUME NEW s2 \in Slot, NEW h \in Told(s2)'
      PROVE  h \in Told(s2) \/ \E f2 \in Asked(s2) : Answers(s2, f2, h)
  <2>1. CASE s2 = s
    <3>1. h \in Told(s) \/ h = g
      BY <1>1, <1>2, <1>4, <2>1 DEF QueuesOK, Told
    <3> QED
      BY <2>1, <3>1
  <2>2. CASE s2 # s
    BY <1>1, <1>4, <2>2 DEF QueuesOK, Told
  <2> QED
    BY <2>1, <2>2
<1> QED
  BY <1>3, <1>4 DEF Flow, Got

LEMMA BitIs == \A b : bit(b) \in Seq(Int)
BY DEF bit

(* canrx answers the frame at the head of its queue, or goes to sleep over
   it. *)
LEMMA HandleIs ==
  ASSUME Base, NEW s \in Slot, Handle(s)
  PROVE  LET q == canrxq[s]
             f == Head(q)
         IN /\ cur[s] = None /\ q \in Seq(Frame) /\ q # <<>> /\ f \in Asked(s) /\ f \in Frame
            /\ canrxq' = [canrxq EXCEPT ![s] = Tail(q)]
            /\ UNCHANGED <<wire, pi, procVars, lost, abandoned, since>>
            /\ executed \subseteq executed'
            /\ \/ /\ cur' = [cur EXCEPT ![s] = f] /\ UNCHANGED out
                  /\ f.m.object = OBJ_POWER /\ f.m.type = WO
               \/ \E g : /\ Answers(s, f, g) /\ UNCHANGED cur
                         /\ out' = [out EXCEPT ![s] = Append(@, g)]
<1> PICK q : q = canrxq[s]
  OBVIOUS
<1> PICK f : f = Head(q)
  OBVIOUS
<1>1. /\ cur[s] = None /\ q # <<>> /\ canrxq' = [canrxq EXCEPT ![s] = Tail(q)]
      /\ UNCHANGED <<wire, pi, procVars, lost, abandoned, since>>
  BY DEF Handle
<1>2. QueuesOK /\ q \in Seq(Frame) /\ f \in Frame /\ f \in ValuesOf(q)
  BY <1>1, SeqValues DEF Base, TypeInv, QueuesOK
<1>3. f \in Asked(s) /\ RequestOK(f)
  BY <1>2 DEF Asked, Base, FramesOK
<1> PICK p : p = f.req.proc
  OBVIOUS
<1> PICK m : m = f.m
  OBVIOUS
<1>4. p \in Process /\ m \in Msg /\ f.req \in [proc : Process, n : Nat]
  BY <1>2 DEF Frame
<1>5. AskedBy(p, f.req.n, m)
  BY <1>3 DEF RequestOK
<1>6. RO # WO /\ OBJ_ECHO # OBJ_POWER /\ OBJ_ECHO # OBJ_SHUTDOWN /\ OBJ_POWER # OBJ_SHUTDOWN
      /\ ACK \in 0..7
  BY DEF RO, WO, OBJ_ECHO, OBJ_POWER, OBJ_SHUTDOWN, ACK
<1>7. ASSUME NEW data \in Seq(Int), AnswerWith(s, f, Ack(m, data)),
             m.object = OBJ_ECHO => data = m.data,
             m.object = OBJ_POWER => m.type = RO /\ data = bit(pi[s] # "off"),
             m.object = OBJ_SHUTDOWN /\ m.type = WO => f.req \in executed'
      PROVE  \E g : Answers(s, f, g) /\ out' = [out EXCEPT ![s] = Append(@, g)]
  <2> PICK a : a = Ack(m, data)
    OBVIOUS
  <2> PICK g : g = [m |-> a, req |-> f.req]
    OBVIOUS
  <2>1. a = [pri |-> 1, dst |-> m.src, src |-> m.dst, type |-> ACK,
             object |-> m.object, eot |-> 0, seq |-> 0, data |-> data]
    BY <1>4, ReplyIs
  <2>2. a \in Msg
    <3>0. m \in Msg
      BY <1>4
    <3>1. m.dst \in 0..63 /\ m.src \in 0..63 /\ m.object \in 0..255
      BY <3>0 DEF Msg
    <3>2. [pri |-> 1, dst |-> m.src, src |-> m.dst, type |-> ACK, object |-> m.object,
            eot |-> 0, seq |-> 0, data |-> data] \in Msg
      BY <1>6, <3>1, IsMsg
    <3> QED
      BY <2>1, <3>2
  <2>3. g \in Frame
    BY <1>4, <2>2 DEF Frame
  <2>4. Answers(s, f, g)
    BY <1>6, <1>7, <2>1, <2>3 DEF Answers
  <2>5. out' = [out EXCEPT ![s] = Append(@, g)]
    BY <1>7 DEF AnswerWith
  <2> QED
    BY <2>4, <2>5
<1>8. CASE m.object = OBJ_ECHO
  <2>1. m.type = WO /\ m.data \in Seq(Int)
    BY <1>4, <1>5, <1>6, <1>8, MsgFields DEF AskedBy, Process
  <2>2. Echo(s, f)
    BY <1>6, <1>8 DEF Handle
  <2>3. AnswerWith(s, f, Ack(m, m.data)) /\ UNCHANGED <<cur, executed>>
    BY <2>1, <2>2 DEF Echo
  <2> QED
    BY <1>1, <1>2, <1>3, <1>6, <1>7, <1>8, <2>1, <2>3
<1>9. CASE m.object = OBJ_POWER
  <2>1. m.type = RO \/ (m.type = WO /\ m.data \in {<<0>>, <<1>>})
    BY <1>4, <1>5, <1>6, <1>9 DEF AskedBy, Process, PowerRequests
  <2>2. Power(s, f)
    BY <1>6, <1>9 DEF Handle
  <2>3. CASE m.type = RO
    <3>1. AnswerWith(s, f, Ack(m, bit(RunPg(s)))) /\ UNCHANGED <<cur, executed>>
      BY <1>6, <2>2, <2>3 DEF Power
    <3>2. bit(RunPg(s)) = bit(pi[s] # "off") /\ bit(RunPg(s)) \in Seq(Int)
      BY BitIs DEF RunPg
    <3> QED
      BY <1>1, <1>2, <1>3, <1>6, <1>7, <1>9, <2>3, <3>1, <3>2
  <2>4. CASE m.type = WO /\ m.data \in {<<0>>, <<1>>}
    <3>1. cur' = [cur EXCEPT ![s] = f] /\ UNCHANGED <<out, executed>>
      BY <2>2, <2>4 DEF Power
    <3> QED
      BY <1>1, <1>2, <1>3, <1>9, <2>4, <3>1
  <2> QED
    BY <2>1, <2>3, <2>4
<1>10. CASE m.object = OBJ_SHUTDOWN
  <2>1. m.type \in {RO, WO} /\ m.data = <<>>
    BY <1>4, <1>5, <1>6, <1>10 DEF AskedBy, Process
  <2>2. Shutdown(s, f)
    BY <1>6, <1>10 DEF Handle
  <2>3. CASE m.type = RO
    <3>1. AnswerWith(s, f, Ack(m, bit(IsShutdown(s)))) /\ UNCHANGED <<cur, executed>>
      BY <1>6, <2>2, <2>3 DEF Shutdown
    <3>2. bit(IsShutdown(s)) \in Seq(Int)
      BY BitIs
    <3> QED
      BY <1>1, <1>2, <1>3, <1>6, <1>7, <1>10, <2>3, <3>1, <3>2
  <2>4. CASE m.type = WO
    <3>1. /\ AnswerWith(s, f, Ack(m, <<>>)) /\ UNCHANGED cur
          /\ executed' = executed \cup {f.req}
      BY <2>1, <2>2, <2>4 DEF Shutdown
    <3>2. <<>> \in Seq(Int)
      OBVIOUS
    <3> QED
      BY <1>1, <1>2, <1>3, <1>6, <1>7, <1>10, <2>4, <3>1, <3>2
  <2> QED
    BY <2>1, <2>3, <2>4
<1>11. m.object \in {OBJ_ECHO, OBJ_POWER, OBJ_SHUTDOWN}
  BY <1>4, <1>5 DEF AskedBy, Process
<1> QED
  BY <1>8, <1>9, <1>10, <1>11

LEMMA HandleFlow ==
  ASSUME Base, NEW s \in Slot, Handle(s)
  PROVE  QueuesOK' /\ Flow
<1> PICK q : q = canrxq[s]
  OBVIOUS
<1> PICK f : f = Head(q)
  OBVIOUS
<1>1. /\ cur[s] = None /\ q \in Seq(Frame) /\ q # <<>> /\ f \in Asked(s) /\ f \in Frame
      /\ canrxq' = [canrxq EXCEPT ![s] = Tail(q)] /\ UNCHANGED <<wire, procVars>>
      /\ \/ /\ cur' = [cur EXCEPT ![s] = f] /\ UNCHANGED out
            /\ f.m.object = OBJ_POWER /\ f.m.type = WO
         \/ \E g : /\ Answers(s, f, g) /\ UNCHANGED cur
                   /\ out' = [out EXCEPT ![s] = Append(@, g)]
  BY HandleIs
<1>2. QueuesOK
  BY DEF Base, TypeInv
<1>3. Tail(q) \in Seq(Frame) /\ ValuesOf(Tail(q)) \subseteq ValuesOf(q)
  BY <1>1, SeqValues
<1>4. UNCHANGED sock /\ canrxq' \in [Slot -> Seq(Frame)]
  BY <1>1, <1>2, <1>3 DEF QueuesOK, procVars
<1>5. CASE /\ cur' = [cur EXCEPT ![s] = f] /\ UNCHANGED out
           /\ f.m.object = OBJ_POWER /\ f.m.type = WO
  <2>1. QueuesOK'
    BY <1>1, <1>2, <1>3, <1>4, <1>5 DEF QueuesOK
  <2>2. ASSUME NEW s2 \in Slot
        PROVE  /\ Asked(s2)' \subseteq Asked(s2) /\ Told(s2)' = Told(s2)
               /\ cur'[s2] # cur[s2] => cur'[s2] = f
    <3>1. CASE s2 = s
      BY <1>1, <1>2, <1>3, <1>5, <3>1 DEF QueuesOK, Asked, Told
    <3>2. CASE s2 # s
      BY <1>1, <1>2, <1>5, <3>2 DEF QueuesOK, Asked, Told
    <3> QED
      BY <3>1, <3>2
  <2> QED
    BY <1>4, <1>5, <2>1, <2>2 DEF Flow, Got
<1>6. CASE \E g : /\ Answers(s, f, g) /\ UNCHANGED cur
                  /\ out' = [out EXCEPT ![s] = Append(@, g)]
  <2>1. PICK g : Answers(s, f, g) /\ out' = [out EXCEPT ![s] = Append(@, g)] /\ UNCHANGED cur
    BY <1>6
  <2>2. ASSUME NEW s2 \in Slot
        PROVE  Asked(s2)' \subseteq Asked(s2) /\ cur'[s2] \in {cur[s2], None}
    <3>1. CASE s2 = s
      BY <1>1, <1>2, <1>3, <2>1, <3>1 DEF QueuesOK, Asked
    <3>2. CASE s2 # s
      BY <1>1, <1>2, <2>1, <3>2 DEF QueuesOK, Asked
    <3> QED
      BY <3>1, <3>2
  <2>3. cur' \in [Slot -> Frame \cup {None}]
    BY <1>2, <2>1 DEF QueuesOK
  <2> QED
    BY <1>1, <1>4, <2>1, <2>2, <2>3, TakenFlow
<1> QED
  BY <1>1, <1>5, <1>6

(* The power has followed. *)
LEMMA SettleIs ==
  ASSUME Base, NEW s \in Slot, Settle(s)
  PROVE  LET f == cur[s]
         IN /\ f # None /\ f \in Asked(s) /\ f \in Frame
            /\ cur' = [cur EXCEPT ![s] = None]
            /\ UNCHANGED <<wire, canrxq, procVars, lost, abandoned>>
            /\ executed' = executed \cup {f.req}
            /\ \/ UNCHANGED <<pi, since>>
               \/ \E state \in PiStates : PiBecomes(s, state)
            /\ \E g : Answers(s, f, g) /\ out' = [out EXCEPT ![s] = Append(@, g)]
<1> PICK f : f = cur[s]
  OBVIOUS
<1> PICK m : m = f.m
  OBVIOUS
<1>1. /\ f # None /\ AnswerWith(s, f, Reply(m, ACK))
      /\ executed' = executed \cup {f.req}
      /\ cur' = [cur EXCEPT ![s] = None]
      /\ UNCHANGED <<wire, canrxq, procVars, lost, abandoned>>
      /\ \/ UNCHANGED <<pi, since>>
         \/ \E state \in PiStates : PiBecomes(s, state)
  BY DEF Settle, PiStates
<1>2. f \in Frame /\ f \in Asked(s) /\ m.object = OBJ_POWER /\ m.type = WO
  BY <1>1 DEF Base, TypeInv, QueuesOK, FramesOK, Asked
<1>3. m \in Msg /\ f.req \in [proc : Process, n : Nat]
  BY <1>2 DEF Frame
<1> PICK a : a = Reply(m, ACK)
  OBVIOUS
<1> PICK g : g = [m |-> a, req |-> f.req]
  OBVIOUS
<1>4. ACK \in 0..7 /\ <<>> \in Seq(Int)
  BY DEF ACK
<1>5. a = [pri |-> 1, dst |-> m.src, src |-> m.dst, type |-> ACK,
           object |-> m.object, eot |-> 0, seq |-> 0, data |-> <<>>]
  BY <1>3, <1>4, ReplyIs
<1>6. g \in Frame
  <2>1. a \in Msg
    <3>0. m \in Msg
      BY <1>3
    <3>1. m.dst \in 0..63 /\ m.src \in 0..63 /\ m.object \in 0..255
      BY <3>0 DEF Msg
    <3>2. [pri |-> 1, dst |-> m.src, src |-> m.dst, type |-> ACK, object |-> m.object,
            eot |-> 0, seq |-> 0, data |-> <<>>] \in Msg
      BY <1>4, <3>1, IsMsg
    <3> QED
      BY <1>5, <3>2
  <2> QED
    BY <1>3, <2>1 DEF Frame
<1>7. RO # WO /\ OBJ_ECHO # OBJ_POWER /\ OBJ_POWER # OBJ_SHUTDOWN
  BY DEF RO, WO, OBJ_ECHO, OBJ_POWER, OBJ_SHUTDOWN
<1>8. Answers(s, f, g)
  BY <1>1, <1>2, <1>5, <1>6, <1>7 DEF Answers
<1>9. out' = [out EXCEPT ![s] = Append(@, g)]
  BY <1>1 DEF AnswerWith
<1> QED
  BY <1>1, <1>2, <1>8, <1>9

LEMMA SettleFlow ==
  ASSUME Base, NEW s \in Slot, Settle(s)
  PROVE  QueuesOK' /\ Flow
<1> PICK f : f = cur[s]
  OBVIOUS
<1>1. PICK g : Answers(s, f, g) /\ out' = [out EXCEPT ![s] = Append(@, g)]
  BY SettleIs
<1>2. /\ f \in Asked(s) /\ cur' = [cur EXCEPT ![s] = None]
      /\ UNCHANGED <<wire, canrxq, procVars>>
  BY SettleIs
<1>3. QueuesOK
  BY DEF Base, TypeInv
<1>4. /\ canrxq' \in [Slot -> Seq(Frame)] /\ cur' \in [Slot -> Frame \cup {None}]
      /\ UNCHANGED sock
  BY <1>2, <1>3 DEF QueuesOK, procVars
<1>5. \A s2 \in Slot : Asked(s2)' \subseteq Asked(s2) /\ cur'[s2] \in {cur[s2], None}
  BY <1>2, <1>3 DEF QueuesOK, Asked
<1> QED
  BY <1>1, <1>2, <1>4, <1>5, TakenFlow

LEMMA DeliverIs ==
  ASSUME Base, NEW s \in Slot, Deliver(s)
  PROVE  \E i \in 1..Len(out[s]) :
           LET f == out[s][i]
           IN /\ Wins(s, i) /\ f \in Told(s) /\ f \in Frame
              /\ out' = [out EXCEPT ![s] = RemoveAt(@, i)]
              /\ UNCHANGED <<wire, canrxq, cur, pi, halt, pc, call, answer, stamped, histVars>>
              /\ sock' = [p \in Process |-> IF /\ Open(p) /\ Address[p] = f.m.dst
                                              /\ Len(sock[p]) < SockDepth
                                           THEN Append(sock[p], f) ELSE sock[p]]
<1>1. PICK i \in 1..Len(out[s]) :
        /\ Wins(s, i) /\ out' = [out EXCEPT ![s] = RemoveAt(@, i)]
        /\ LET f == [out[s][i] EXCEPT !.m = OverTheWire(@)]
           IN sock' = [p \in Process |-> IF /\ Open(p) /\ Address[p] = f.m.dst
                                           /\ Len(sock[p]) < SockDepth
                                        THEN Append(sock[p], f) ELSE sock[p]]
        /\ UNCHANGED <<wire, canrxq, cur, pi, halt, pc, call, answer, stamped, histVars>>
  BY Zenon DEF Deliver
<1> PICK f : f = out[s][i]
  OBVIOUS
<1>2. f \in Told(s) /\ f \in Frame
  BY SeqValues DEF Base, TypeInv, QueuesOK, Told
<1>3. [f EXCEPT !.m = OverTheWire(@)] = f
  BY <1>2, FrameArrives
<1>4. sock' = [p \in Process |-> IF /\ Open(p) /\ Address[p] = f.m.dst
                                 /\ Len(sock[p]) < SockDepth
                              THEN Append(sock[p], f) ELSE sock[p]]
  BY <1>1, <1>3, Zenon
<1>5. /\ Wins(s, i) /\ out' = [out EXCEPT ![s] = RemoveAt(@, i)]
      /\ UNCHANGED <<wire, canrxq, cur, pi, halt, pc, call, answer, stamped, histVars>>
  BY <1>1, Zenon
<1> QED
  BY <1>2, <1>4, <1>5, Zenon

LEMMA DeliverFlow ==
  ASSUME Base, NEW s \in Slot, Deliver(s)
  PROVE  QueuesOK' /\ Flow
<1> PICK i \in 1..Len(out[s]) :
           LET f == out[s][i]
           IN /\ f \in Told(s) /\ f \in Frame
              /\ out' = [out EXCEPT ![s] = RemoveAt(@, i)]
              /\ UNCHANGED <<wire, canrxq, cur>>
              /\ sock' = [p \in Process |-> IF /\ Open(p) /\ Address[p] = f.m.dst
                                              /\ Len(sock[p]) < SockDepth
                                           THEN Append(sock[p], f) ELSE sock[p]]
  BY DeliverIs
<1> PICK q : q = out[s]
  OBVIOUS
<1> PICK f : f = q[i]
  OBVIOUS
<1>1. QueuesOK /\ q \in Seq(Frame) /\ i \in 1..Len(q) /\ f \in Frame /\ f \in Told(s)
  BY DEF Base, TypeInv, QueuesOK
<1>2. RemoveAt(q, i) \in Seq(Frame) /\ ValuesOf(RemoveAt(q, i)) \subseteq ValuesOf(q)
  BY <1>1, SeqValues
<1>3. ASSUME NEW p \in Process
      PROVE  sock'[p] \in Seq(Frame)
             /\ \A g \in Got(p)' : g \in Got(p) \/ (g = f /\ f.m.dst = Address[p])
  <2> PICK r : r = sock[p]
    OBVIOUS
  <2>1. r \in Seq(Frame) /\ sock'[p] = IF /\ Open(p) /\ Address[p] = f.m.dst
                                           /\ Len(sock[p]) < SockDepth
                                        THEN Append(r, f) ELSE r
    BY <1>1 DEF QueuesOK
  <2>2. Append(r, f) \in Seq(Frame) /\ ValuesOf(Append(r, f)) = ValuesOf(r) \cup {f}
    BY <1>1, <2>1, Longer
  <2> QED
    BY <2>1, <2>2 DEF Got
<1>4. QueuesOK'
  BY <1>1, <1>2, <1>3 DEF QueuesOK
<1>5. \A s2 \in Slot : Asked(s2)' = Asked(s2) /\ Told(s2)' \subseteq Told(s2)
  BY <1>1, <1>2 DEF QueuesOK, Asked, Told
<1> QED
  BY <1>1, <1>3, <1>4, <1>5 DEF Flow

LEMMA LoseFlow ==
  ASSUME Base, NEW s \in Slot, LoseReply(s)
  PROVE  QueuesOK' /\ Flow
<1> PICK q : q = out[s]
  OBVIOUS
<1>1. /\ q # <<>> /\ out' = [out EXCEPT ![s] = Front(q)]
      /\ UNCHANGED <<wire, canrxq, cur, sock>>
  BY DEF LoseReply, procVars
<1>2. QueuesOK /\ q \in Seq(Frame)
  BY DEF Base, TypeInv, QueuesOK
<1>3. Front(q) \in Seq(Frame) /\ ValuesOf(Front(q)) \subseteq ValuesOf(q)
  BY <1>1, <1>2, SeqValues
<1>4. QueuesOK'
  BY <1>1, <1>2, <1>3 DEF QueuesOK
<1>5. \A s2 \in Slot : Asked(s2)' = Asked(s2) /\ Told(s2)' \subseteq Told(s2)
  BY <1>1, <1>2, <1>3 DEF QueuesOK, Asked, Told
<1> QED
  BY <1>1, <1>4, <1>5 DEF Flow, Got

(***************************************************************************)
(* Every step takes frames on, and nothing seen or done is undone.         *)
(***************************************************************************)
Counts == \A p \in Process : call[p].n <= call'[p].n
Grows ==
  /\ executed \subseteq executed' /\ abandoned \subseteq abandoned'
  /\ \A p \in Process :
       call'[p] = call[p] \/ (p \in Shutter /\ call[p].n # 0) => since[p] \subseteq since'[p]

LEMMA FlowKeeps ==
  ASSUME Base, Flow, Counts, call' \in [Process -> Call]
  PROVE  FramesOK'
<1>0. \A p \in Process : call[p].n \in Nat /\ call'[p].n \in Nat
  BY DEF Base, TypeInv, StatesOK, Call
<1>1. ASSUME NEW f \in Frame, Numbered(f) PROVE Numbered(f)'
  BY <1>0, <1>1 DEF Numbered, Frame, Counts
<1>2. \A s \in Slot : Asked(s) \subseteq Frame /\ Told(s) \subseteq Frame
  <2> SUFFICES ASSUME NEW s \in Slot PROVE Asked(s) \subseteq Frame /\ Told(s) \subseteq Frame
    OBVIOUS
  <2>1. /\ wire[s] \in Seq(Frame) /\ canrxq[s] \in Seq(Frame) /\ out[s] \in Seq(Frame)
        /\ cur[s] \in Frame \cup {None}
    BY DEF Base, TypeInv, QueuesOK
  <2> QED
    BY <2>1 DEF Asked, Told, ValuesOf
<1>3. \A p \in Process : Got(p) \subseteq Frame
  <2> SUFFICES ASSUME NEW p \in Process PROVE Got(p) \subseteq Frame
    OBVIOUS
  <2>1. sock[p] \in Seq(Frame)
    BY DEF Base, TypeInv, QueuesOK
  <2> QED
    BY <2>1 DEF Got, ValuesOf
<1>4. ASSUME NEW s \in Slot, NEW f \in Asked(s)'
      PROVE  RequestOK(f)' /\ Numbered(f)' /\ f.m.dst = s + ADDR_CONTROL
  <2>1. f \in Asked(s) \/ IsNew(s, f)
    BY <1>4 DEF Flow
  <2>2. CASE f \in Asked(s)
    BY <1>1, <1>2, <2>2 DEF Base, FramesOK, RequestOK
  <2>3. CASE IsNew(s, f)
    <3>1. /\ f \in Frame /\ RequestOK(f) /\ f.m.dst = s + ADDR_CONTROL
          /\ f.req.n = call'[f.req.proc].n /\ f.req.n >= 1 /\ f.req.proc \in Process
      BY <2>3 DEF IsNew, Own, Frame
    <3> QED
      BY <1>0, <3>1 DEF Numbered, RequestOK
  <2> QED
    BY <2>1, <2>2, <2>3
<1>5. ASSUME NEW s \in Slot, NEW g \in Told(s)'
      PROVE  AnswerOK(g)' /\ Numbered(g)' /\ g.m.src = s + ADDR_CONTROL
  <2>1. CASE g \in Told(s)
    BY <1>1, <1>2, <2>1 DEF Base, FramesOK, AnswerOK
  <2>2. CASE \E f \in Asked(s) : Answers(s, f, g)
    <3>1. PICK f \in Asked(s) : Answers(s, f, g)
      BY <2>2
    <3>2. /\ f \in Frame /\ RequestOK(f) /\ Numbered(f) /\ f.m.dst = s + ADDR_CONTROL
          /\ g \in Frame /\ g.req = f.req /\ g.m.dst = f.m.src /\ g.m.src = f.m.dst
          /\ g.m.type = ACK /\ g.m.object = f.m.object
          /\ f.m.object = OBJ_ECHO => g.m.data = f.m.data
      BY <1>2, <3>1 DEF Base, FramesOK, Answers
    <3>3. Numbered(g)
      BY <3>2 DEF Numbered
    <3>4. AnsweredTo(g.req.proc, g.req.n, g.m)
      BY <3>2 DEF RequestOK, AskedBy, AnsweredTo
    <3> QED
      BY <1>1, <3>2, <3>3, <3>4 DEF AnswerOK, RequestOK
  <2> QED
    BY <1>5, <2>1, <2>2 DEF Flow
<1>6. ASSUME NEW s \in Slot, cur'[s] # None
      PROVE  cur'[s].m.object = OBJ_POWER /\ cur'[s].m.type = WO
  BY <1>6 DEF Flow, Base, FramesOK
<1>7. ASSUME NEW p \in Process, NEW g \in Got(p)'
      PROVE  /\ AnswerOK(g)' /\ Numbered(g)' /\ g.m.dst = Address[p]
             /\ \E s \in Slot : g.m.src = s + ADDR_CONTROL
  <2>1. CASE g \in Got(p)
    BY <1>1, <1>3, <2>1 DEF Base, FramesOK, AnswerOK
  <2>2. CASE \E s \in Slot : g \in Told(s) /\ g.m.dst = Address[p]
    BY <1>1, <1>2, <2>2 DEF Base, FramesOK, AnswerOK
  <2> QED
    BY <1>7, <2>1, <2>2 DEF Flow
<1> QED
  BY <1>4, <1>5, <1>6, <1>7 DEF FramesOK

(* The first half of a call of canobj, and timer_cb: c is what is asked. *)
Sends(p, c) == Send(p, c.dst, c.type, c.object, c.data, c.n)
RequestOf(p, c) == [pri |-> 1, dst |-> c.dst, src |-> Address[p], type |-> c.type,
                    object |-> c.object, eot |-> 0, seq |-> 0, data |-> c.data]
FrameOf(p, c) == [m |-> RequestOf(p, c), req |-> [proc |-> p, n |-> c.n]]

LEMMA SendIs ==
  ASSUME Base, NEW p \in Process, NEW c \in Call, Sends(p, c),
         NEW f, f = FrameOf(p, c)
  PROVE  /\ f \in Frame /\ call' = [call EXCEPT ![p] = c]
         /\ \/ /\ \A s \in Slot : c.dst # s + ADDR_CONTROL
               /\ UNCHANGED wire /\ since' = [since EXCEPT ![p] = {}]
            \/ \E s \in Slot :
                 /\ c.dst = s + ADDR_CONTROL
                 /\ wire' = [wire EXCEPT ![s] = Append(@, f)]
                 /\ since' = [since EXCEPT ![p] = {pi[s]} \cup
                                 IF p \in Shutter /\ c.n > 1 THEN @ ELSE {}]
<1> PICK m : m = RequestOf(p, c)
  OBVIOUS
<1>1. /\ Address[p] \in 0..63 /\ c.dst \in 0..63 /\ c.type \in 0..7
      /\ c.object \in 0..255 /\ c.data \in Seq(Int) /\ c.n \in Nat
      /\ c = [dst |-> c.dst, type |-> c.type, object |-> c.object, data |-> c.data,
              n |-> c.n]
  BY ObjectsAssumption DEF Call
<1>2. m \in Msg
  BY <1>1, IsMsg DEF RequestOf
<1>3. f \in Frame
  BY <1>1, <1>2 DEF Frame, FrameOf
<1>5. /\ Message(Address[p], c.dst, c.type, c.object, 0, 0, c.data) = m
      /\ OverTheWire(m) = m
  BY <1>2, Arrives DEF Message, RequestOf
<1>6. /\ call' = [call EXCEPT ![p] = c]
      /\ IF Carrier(c.dst)
           THEN /\ wire' = [wire EXCEPT ![SlotOf(c.dst)] = Append(@, f)]
                /\ since' = [since EXCEPT ![p] = {pi[SlotOf(c.dst)]} \cup
                               IF p \in Shutter /\ c.n > 1 THEN @ ELSE {}]
           ELSE UNCHANGED wire /\ since' = [since EXCEPT ![p] = {}]
  BY <1>1, <1>5 DEF Sends, Send, FrameOf
<1>7. CASE Carrier(c.dst)
  BY <1>3, <1>6, <1>7, CarrierIs
<1>8. CASE ~Carrier(c.dst)
  <2>1. ASSUME NEW s \in Slot PROVE c.dst # s + ADDR_CONTROL
    <3>1. s # 16
      BY ObjectsAssumption
    <3>2. Carrier(s + ADDR_CONTROL)
      BY <3>1 DEF Carrier, CtlAddress
    <3> QED
      BY <1>8, <3>2
  <2> QED
    BY <1>3, <1>6, <1>8, <2>1
<1> QED
  BY <1>7, <1>8

LEMMA SendFlow ==
  ASSUME Base, NEW p \in Process, NEW c \in Call, Sends(p, c),
         1 <= c.n, call[p].n <= c.n,
         p \in Shutter /\ call[p].n # 0 => 1 < c.n /\ \E s \in Slot : c.dst = s + ADDR_CONTROL,
         p \notin Shutter => c.n # call[p].n, AskedBy(p, c.n, c),
         UNCHANGED <<canrxq, out, cur, pi, abandoned, executed>>,
         sock' \in [Process -> Seq(Frame)], \A q \in Process : Got(q)' \subseteq Got(q)
  PROVE  /\ QueuesOK' /\ Flow /\ Counts /\ Grows /\ SinceOK'
         /\ call' \in [Process -> Call] /\ since' \in [Process -> SUBSET PiStates]
<1> PICK f : f = FrameOf(p, c)
  OBVIOUS
<1>1. /\ f \in Frame /\ call' = [call EXCEPT ![p] = c]
      /\ \/ /\ \A s \in Slot : c.dst # s + ADDR_CONTROL
            /\ UNCHANGED wire /\ since' = [since EXCEPT ![p] = {}]
         \/ \E s \in Slot :
              /\ c.dst = s + ADDR_CONTROL
              /\ wire' = [wire EXCEPT ![s] = Append(@, f)]
              /\ since' = [since EXCEPT ![p] = {pi[s]} \cup
                              IF p \in Shutter /\ c.n > 1 THEN @ ELSE {}]
  BY SendIs
<1>2. QueuesOK /\ StatesOK /\ SinceOK
  BY DEF Base, TypeInv
<1>3. call' \in [Process -> Call] /\ call'[p] = c
      /\ \A q \in Process : q # p => call'[q] = call[q]
  BY <1>1, <1>2 DEF StatesOK
<1>4. Counts
  <2>1. \A q \in Process : call[q].n \in Nat
    BY <1>2 DEF StatesOK, Call
  <2> QED
    BY <1>3, <2>1 DEF Counts
<1>5. ASSUME NEW s, c.dst = s + ADDR_CONTROL PROVE IsNew(s, f)
  <2>1. /\ f.req.proc = p /\ f.req.n = c.n /\ Own(p)' = f.req /\ f.m.src = Address[p]
        /\ f.m.dst = c.dst /\ f.m.type = c.type /\ f.m.object = c.object
        /\ f.m.data = c.data
    BY <1>3 DEF Own, FrameOf, RequestOf
  <2>2. RequestOK(f)
    BY <2>1 DEF RequestOK, AskedBy
  <2> QED
    BY <1>1, <1>3, <1>5, <2>1, <2>2 DEF IsNew
<1>6. call'[p] = call[p] => p \in Shutter /\ call[p].n # 0
  BY <1>3
<1>7. CASE /\ \A s \in Slot : c.dst # s + ADDR_CONTROL
           /\ UNCHANGED wire /\ since' = [since EXCEPT ![p] = {}]
  <2>1. QueuesOK' /\ since' \in [Process -> SUBSET PiStates]
    BY <1>2, <1>7 DEF QueuesOK, StatesOK
  <2>2. \A s \in Slot : Asked(s)' = Asked(s) /\ Told(s)' = Told(s)
    BY <1>7 DEF Asked, Told
  <2>3. Flow
    BY <2>2 DEF Flow
  <2>4. SinceOK'
    BY <1>2, <1>3, <1>7 DEF SinceOK, StatesOK
  <2>5. ~(p \in Shutter /\ call[p].n # 0)
    BY <1>7
  <2>6. Grows
    BY <1>2, <1>6, <1>7, <2>5 DEF Grows, StatesOK
  <2> QED
    BY <1>3, <1>4, <2>1, <2>3, <2>4, <2>6
<1>8. ASSUME NEW s \in Slot, c.dst = s + ADDR_CONTROL,
             wire' = [wire EXCEPT ![s] = Append(@, f)],
             since' = [since EXCEPT ![p] = {pi[s]} \cup
                              IF p \in Shutter /\ c.n > 1 THEN @ ELSE {}]
      PROVE  QueuesOK' /\ Flow /\ Grows /\ SinceOK' /\ since' \in [Process -> SUBSET PiStates]
  <2> PICK q : q = wire[s]
    OBVIOUS
  <2>1. q \in Seq(Frame) /\ wire' = [wire EXCEPT ![s] = Append(q, f)]
    BY <1>2, <1>8 DEF QueuesOK
  <2>2. Append(q, f) \in Seq(Frame) /\ ValuesOf(Append(q, f)) = ValuesOf(q) \cup {f}
    BY <1>1, <2>1, Longer
  <2>3. QueuesOK'
    BY <1>2, <2>1, <2>2 DEF QueuesOK
  <2>4. ASSUME NEW s2 \in Slot, NEW g \in Asked(s2)' PROVE g \in Asked(s2) \/ IsNew(s2, g)
    <3>1. CASE s2 = s
      <4>1. g \in Asked(s) \/ g = f
        BY <1>2, <2>1, <2>2, <2>4, <3>1 DEF QueuesOK, Asked
      <4> QED
        BY <1>5, <1>8, <3>1, <4>1
    <3>2. CASE s2 # s
      BY <1>2, <2>1, <2>4, <3>2 DEF QueuesOK, Asked
    <3> QED
      BY <3>1, <3>2
  <2>5. Flow
    BY <2>4 DEF Flow, Told
  <2>6. pi[s] \in PiStates /\ since[p] \subseteq PiStates
    BY <1>2 DEF StatesOK
  <2>7. since' \in [Process -> SUBSET PiStates]
    BY <1>2, <1>8, <2>6 DEF StatesOK
  <2>8. pi[s] \in since'[p] /\ \A r \in Process : r # p => since'[r] = since[r]
    BY <1>2, <1>8 DEF StatesOK
  <2>9. SinceOK'
    <3> SUFFICES ASSUME NEW r \in Process, NEW s2 \in Slot, call'[r].dst = s2 + ADDR_CONTROL
                 PROVE  pi'[s2] \in since'[r]
      BY DEF SinceOK
    <3>1. CASE r = p
      <4>1. s2 + ADDR_CONTROL = s + ADDR_CONTROL
        BY <1>3, <1>8, <3>1
      <4>2. s2 = s
        BY <4>1, SlotIs
      <4> QED
        BY <2>8, <3>1, <4>2
    <3>2. CASE r # p
      BY <1>2, <1>3, <2>8, <3>2 DEF SinceOK
    <3> QED
      BY <3>1, <3>2
  <2>10. p \in Shutter /\ call[p].n # 0 => since[p] \subseteq since'[p]
    BY <1>2, <1>8 DEF StatesOK
  <2>11. Grows
    BY <1>6, <2>8, <2>10 DEF Grows
  <2> QED
    BY <2>3, <2>5, <2>7, <2>9, <2>11
<1> QED
  BY <1>1, <1>3, <1>4, <1>7, <1>8

(* The state of a Pi changes, and is seen. *)
LEMMA PiSeen ==
  ASSUME Base, NEW s \in Slot, NEW state \in PiStates, PiBecomes(s, state), UNCHANGED call
  PROVE  /\ pi' \in [Slot -> PiStates] /\ since' \in [Process -> SUBSET PiStates]
         /\ SinceOK' /\ \A p \in Process : since[p] \subseteq since'[p]
<1>1. StatesOK /\ SinceOK
  BY DEF Base, TypeInv
<1>2. /\ pi' = [pi EXCEPT ![s] = state]
      /\ since' = [p \in Process |-> IF SlotOf(call[p].dst) = s
                                      THEN since[p] \cup {state} ELSE since[p]]
  BY DEF PiBecomes, Seen
<1>3. ASSUME NEW p \in Process, NEW s2 \in Slot, call[p].dst = s2 + ADDR_CONTROL
      PROVE  pi'[s2] \in since'[p]
  <2>1. SlotOf(call[p].dst) = s2 /\ pi[s2] \in since[p]
    BY <1>1, <1>3, SlotIs DEF SinceOK
  <2> QED
    BY <1>1, <1>2, <2>1 DEF StatesOK
<1> QED
  BY <1>1, <1>2, <1>3 DEF StatesOK, SinceOK

(* Frames only move, or a process looks at its socket. *)
LEMMA MoveKeeps ==
  ASSUME Base, QueuesOK', Flow, UNCHANGED call,
         executed \subseteq executed', abandoned \subseteq abandoned',
         UNCHANGED <<pi, since>> \/ \E s \in Slot, state \in PiStates : PiBecomes(s, state),
         pc' \in [Process -> {"new", "idle", "wait", "ping", "done", "died"}],
         \A p \in Shutter : pc'[p] = pc[p] \/ (pc[p] # "new" /\ pc'[p] # "new"),
         answer' = [p \in Process |-> answer'[p]], UNCHANGED stamped
  PROVE  Base' /\ Counts /\ Grows
<1>1. StatesOK /\ ShuttersOK /\ SinceOK
  BY DEF Base, TypeInv
<1>2. /\ pi' \in [Slot -> PiStates] /\ since' \in [Process -> SUBSET PiStates]
      /\ SinceOK' /\ \A p \in Process : since[p] \subseteq since'[p]
  <2>1. CASE UNCHANGED <<pi, since>>
    BY <1>1, <2>1 DEF StatesOK, SinceOK
  <2>2. CASE \E s \in Slot, state \in PiStates : PiBecomes(s, state)
    BY <2>2, PiSeen
  <2> QED
    BY <2>1, <2>2
<1>3. \A p \in Process : call[p].n \in Nat
  BY <1>1 DEF StatesOK, Call
<1>4. Counts
  BY <1>3 DEF Counts
<1>5. StatesOK'
  BY <1>1, <1>2 DEF StatesOK
<1>6. ShuttersOK'
  BY <1>1 DEF ShuttersOK
<1>7. FramesOK'
  BY <1>1, <1>4, FlowKeeps DEF StatesOK
<1>8. Grows
  BY <1>2 DEF Grows
<1> QED
  BY <1>2, <1>4, <1>5, <1>6, <1>7, <1>8 DEF Base, TypeInv

(* A process sends a request. *)
LEMMA RequestKeeps ==
  ASSUME Base, QueuesOK', Flow, Counts, Grows, SinceOK', call' \in [Process -> Call],
         since' \in [Process -> SUBSET PiStates], UNCHANGED <<pi, answer>>, ShuttersOK',
         pc' \in [Process -> {"new", "idle", "wait", "ping", "done", "died"}],
         stamped' \in [Pinger -> [0..(TIMESTAMP_SLOTS - 1) -> Int]]
  PROVE  Base'
<1>1. StatesOK' /\ FramesOK'
  BY FlowKeeps DEF Base, TypeInv, StatesOK
<1> QED
  BY <1>1 DEF Base, TypeInv

LEMMA SocketFlow ==
  ASSUME Base, NEW p \in Process, UNCHANGED <<wire, canrxq, out, cur>>,
         \/ UNCHANGED sock
         \/ sock[p] # <<>> /\ sock' = [sock EXCEPT ![p] = Tail(@)]
         \/ sock' = [sock EXCEPT ![p] = <<>>]
  PROVE  QueuesOK' /\ Flow /\ \A q \in Process : Got(q)' \subseteq Got(q)
<1> PICK r : r = sock[p]
  OBVIOUS
<1>1. QueuesOK /\ r \in Seq(Frame)
  BY DEF Base, TypeInv, QueuesOK
<1>2. r # <<>> => Tail(r) \in Seq(Frame) /\ ValuesOf(Tail(r)) \subseteq ValuesOf(r)
  BY <1>1, SeqValues
<1>3. <<>> \in Seq(Frame) /\ ValuesOf(<<>>) = {}
  BY DEF ValuesOf
<1>4. QueuesOK' /\ \A q \in Process : Got(q)' \subseteq Got(q)
  <2>1. CASE UNCHANGED sock
    BY <1>1, <2>1 DEF QueuesOK, Got
  <2>2. CASE r # <<>> /\ sock' = [sock EXCEPT ![p] = Tail(r)]
    BY <1>1, <1>2, <2>2 DEF QueuesOK, Got
  <2>3. CASE sock' = [sock EXCEPT ![p] = <<>>]
    BY <1>1, <1>3, <2>3 DEF QueuesOK, Got
  <2> QED
    BY <2>1, <2>2, <2>3
<1>5. \A s \in Slot : Asked(s)' = Asked(s) /\ Told(s)' = Told(s)
  BY DEF Asked, Told
<1> QED
  BY <1>4, <1>5 DEF Flow

LEMMA SlotKeeps ==
  ASSUME Base, NEW s \in Slot, SlotStep(s) \/ PiStep(s) \/ LoseReply(s)
  PROVE  Base' /\ Flow /\ Counts /\ Grows
<1>0. /\ answer = [p \in Process |-> answer[p]]
      /\ pc \in [Process -> {"new", "idle", "wait", "ping", "done", "died"}]
  BY DEF Base, TypeInv, StatesOK
<1>1. CASE RxIsr(s)
  <2>1. UNCHANGED <<pc, call, answer, stamped, executed, abandoned, pi, since>>
    BY <1>1 DEF RxIsr, procVars, histVars
  <2> QED
    BY <1>0, <1>1, <2>1, RxIsrFlow, MoveKeeps
<1>2. CASE Handle(s)
  <2>1. UNCHANGED <<pc, call, answer, stamped, abandoned, pi, since>> /\ executed \subseteq executed'
    BY <1>2, HandleIs DEF procVars
  <2> QED
    BY <1>0, <1>2, <2>1, HandleFlow, MoveKeeps
<1>3. CASE Settle(s)
  <2>1. UNCHANGED <<pc, call, answer, stamped, abandoned>> /\ executed \subseteq executed'
        /\ (UNCHANGED <<pi, since>> \/ \E state \in PiStates : PiBecomes(s, state))
    BY <1>3, SettleIs DEF procVars
  <2> QED
    BY <1>0, <1>3, <2>1, SettleFlow, MoveKeeps
<1>4. CASE Deliver(s)
  <2>1. UNCHANGED <<pc, call, answer, stamped, executed, abandoned, pi, since>>
    BY <1>4, DeliverIs DEF histVars
  <2> QED
    BY <1>0, <1>4, <2>1, DeliverFlow, MoveKeeps
<1>5. CASE PiStep(s)
  <2>1. /\ UNCHANGED <<pc, call, answer, stamped, executed, abandoned>>
        /\ UNCHANGED <<wire, canrxq, out, cur, sock>>
        /\ (UNCHANGED <<pi, since>> \/ \E state \in PiStates : PiBecomes(s, state))
    BY <1>5 DEF PiStep, PiBoots, HaltPulse, PiTurnsOff, procVars, PiStates
  <2> QED
    BY <1>0, <2>1, SameFlow, MoveKeeps
<1>6. CASE LoseReply(s)
  <2>1. UNCHANGED <<pc, call, answer, stamped, executed, abandoned, pi, since>>
    BY <1>6 DEF LoseReply, procVars
  <2> QED
    BY <1>0, <1>6, <2>1, LoseFlow, MoveKeeps
<1> QED
  BY <1>1, <1>2, <1>3, <1>4, <1>5, <1>6 DEF SlotStep

LEMMA ConstantsOK ==
  /\ RO \in 0..7 /\ WO \in 0..7 /\ OBJ_ECHO \in 0..255 /\ OBJ_POWER \in 0..255
  /\ OBJ_SHUTDOWN \in 0..255 /\ OBJ_ECHO # OBJ_POWER /\ OBJ_ECHO # OBJ_SHUTDOWN
  /\ OBJ_POWER # OBJ_SHUTDOWN /\ RO # WO
  /\ \A slot \in Target : CtlAddress(slot) \in 16..31 /\ CtlAddress(slot) \in 0..63
<1>1. \A slot \in Target : slot \in 0..16
  BY ObjectsAssumption
<1> QED
  BY <1>1 DEF RO, WO, OBJ_ECHO, OBJ_POWER, OBJ_SHUTDOWN, CtlAddress, ADDR_CONTROL

LEMMA Disjoint ==
  ASSUME NEW p
  PROVE  /\ p \in Helper => p \notin Shutter /\ p \notin Pinger /\ p \in Process
         /\ p \in Shutter => p \notin Helper /\ p \notin Pinger /\ p \in Process
         /\ p \in Pinger => p \notin Helper /\ p \notin Shutter /\ p \in Process
BY ObjectsAssumption DEF Process

LEMMA HelperKeeps ==
  ASSUME Base, NEW p \in Helper, HelperStart(p) \/ HelperCommand(p) \/ HelperStep(p)
  PROVE  Base' /\ Flow /\ Counts /\ Grows
<1>0. /\ answer = [q \in Process |-> answer[q]] /\ p \in Process /\ p \notin Shutter
      /\ pc \in [Process -> {"new", "idle", "wait", "ping", "done", "died"}]
      /\ p \notin Pinger /\ call \in [Process -> Call]
      /\ stamped \in [Pinger -> [0..(TIMESTAMP_SLOTS - 1) -> Int]]
  BY Disjoint DEF Base, TypeInv, StatesOK
<1>1. CASE HelperStart(p) \/ HelperStep(p)
  <2>1. /\ UNCHANGED <<wire, canrxq, out, cur, call, pi, since, stamped, executed>>
        /\ abandoned \subseteq abandoned'
        /\ \/ UNCHANGED sock
           \/ sock[p] # <<>> /\ sock' = [sock EXCEPT ![p] = Tail(@)]
        /\ UNCHANGED pc \/ pc' = [pc EXCEPT ![p] = "idle"]
        /\ UNCHANGED answer \/ \E a : answer' = [answer EXCEPT ![p] = a]
    BY <1>1 DEF HelperStart, HelperStep, Skip, HelperTake, HelperTimeout, Take, TimesOut,
                slotVars, histVars
  <2>2. QueuesOK' /\ Flow
    BY <1>0, <2>1, SocketFlow
  <2>3. /\ pc' \in [Process -> {"new", "idle", "wait", "ping", "done", "died"}]
        /\ \A q \in Shutter : pc'[q] = pc[q]
        /\ answer' = [q \in Process |-> answer'[q]]
    BY <1>0, <2>1, Disjoint
  <2> QED
    BY <2>1, <2>2, <2>3, MoveKeeps
<1>2. CASE HelperCommand(p)
  <2>1. PICK slot \in Target, op \in PowerRequests :
          Send(p, CtlAddress(slot), op[1], OBJ_POWER, op[2], call[p].n + 1)
    BY <1>2 DEF HelperCommand, PowerRequests
  <2>2. /\ pc' = [pc EXCEPT ![p] = "wait"]
        /\ UNCHANGED <<canrxq, out, cur, pi, sock, answer, stamped, abandoned, executed>>
    BY <1>2 DEF HelperCommand
  <2> PICK c : c = [dst |-> CtlAddress(slot), type |-> op[1], object |-> OBJ_POWER,
                    data |-> op[2], n |-> call[p].n + 1]
    OBVIOUS
  <2>3. call[p].n \in Nat
    BY <1>0 DEF Call
  <2>4. op = <<op[1], op[2]>> /\ op[1] \in 0..7 /\ op[2] \in Seq(Int)
    <3>1. /\ op = <<op[1], op[2]>> /\ op[1] \in {RO, WO}
          /\ op[2] = <<>> \/ op[2] = <<0>> \/ op[2] = <<1>>
      BY DEF PowerRequests
    <3>2. <<>> \in Seq(Int) /\ <<0>> \in Seq(Int) /\ <<1>> \in Seq(Int)
      OBVIOUS
    <3> QED
      BY <3>1, <3>2, ConstantsOK
  <2>5. c \in Call
    <3>1. CtlAddress(slot) \in 0..63 /\ OBJ_POWER \in 0..255 /\ call[p].n + 1 \in Nat
      BY <2>3, ConstantsOK
    <3> QED
      BY <2>4, <3>1 DEF Call
  <2>6. Sends(p, c)
    BY <2>1 DEF Sends
  <2>7. AskedBy(p, c.n, c)
    BY <1>0, <2>4 DEF AskedBy
  <2>8. /\ QueuesOK' /\ Flow /\ Counts /\ Grows /\ SinceOK'
        /\ call' \in [Process -> Call] /\ since' \in [Process -> SUBSET PiStates]
    <3>1. 1 <= c.n /\ call[p].n <= c.n /\ c.n # call[p].n
      BY <2>3
    <3>2. sock' \in [Process -> Seq(Frame)] /\ \A q \in Process : Got(q)' \subseteq Got(q)
      BY <2>2 DEF Base, TypeInv, QueuesOK, Got
    <3> QED
      BY <1>0, <2>2, <2>5, <2>6, <2>7, <3>1, <3>2, SendFlow
  <2>9. ShuttersOK'
    <3>1. \A q \in Shutter : call'[q] = call[q] /\ pc'[q] = pc[q]
      BY <1>0, <2>1, <2>2, Disjoint DEF Send
    <3> QED
      BY <3>1 DEF Base, TypeInv, ShuttersOK
  <2> QED
    BY <1>0, <2>2, <2>8, <2>9, RequestKeeps
<1> QED
  BY <1>1, <1>2

(* Request k of the shutdown command at slot address dst. *)
ShutterCall(dst, k) ==
  [dst |-> dst, type |-> IF k = 1 THEN WO ELSE RO,
   object |-> IF k = 3 THEN OBJ_POWER ELSE OBJ_SHUTDOWN, data |-> <<>>, n |-> k]

LEMMA RequestSends ==
  ASSUME NEW p \in Process, NEW dst, NEW k \in {1, 2, 3}, Request(p, dst, k), dst \in 16..31,
         NEW c, c = ShutterCall(dst, k)
  PROVE  /\ c \in Call /\ Sends(p, c) /\ c.n = k /\ c.dst = dst
         /\ p \in Shutter => AskedBy(p, k, c)
<1>1. c = [dst |-> dst, type |-> IF k = 1 THEN WO ELSE RO,
           object |-> IF k = 3 THEN OBJ_POWER ELSE OBJ_SHUTDOWN, data |-> <<>>, n |-> k]
  BY DEF ShutterCall
<1>2. c \in Call
  <2>1. dst \in 0..63 /\ <<>> \in Seq(Int) /\ k \in Nat
    OBVIOUS
  <2> QED
    BY <1>1, <2>1, ConstantsOK DEF Call
<1>3. Sends(p, c)
  <2>1. CASE k = 1
    BY <1>1, <2>1 DEF Sends, Request
  <2>2. CASE k = 2
    BY <1>1, <2>2 DEF Sends, Request
  <2>3. CASE k = 3
    BY <1>1, <2>3 DEF Sends, Request
  <2> QED
    BY <2>1, <2>2, <2>3
<1>4. p \in Shutter => AskedBy(p, k, c)
  BY <1>1, ConstantsOK, Disjoint DEF AskedBy
<1> QED
  BY <1>1, <1>2, <1>3, <1>4

(* What the shutdown command does with a reply. *)
LEMMA ThenIs ==
  ASSUME NEW n \in {1, 2, 3}, NEW m
  PROVE  /\ Then(n, m) \in {0, 2, 3, 4}
         /\ Then(n, m) \in {2, 3} => n <= Then(n, m) /\ 1 < Then(n, m) /\ m.type = ACK
         /\ Then(n, m) = 3 => n # 1
         /\ Then(n, m) = 4 => n = 3 /\ m.type = ACK /\ Byte(m) # -1 /\ Byte(m) # 1
BY DEF Then

LEMMA ShutterTakes ==
  ASSUME Base, NEW p \in Shutter, ShutterTake(p), NEW r, r = sock[p], NEW m, m = Head(r).m
  PROVE  /\ Take(p) /\ r # <<>> /\ r \in Seq(Frame) /\ Matches(p, m) /\ pc[p] = "wait"
         /\ call[p].n \in {1, 2, 3} /\ call[p].dst \in 16..31
         /\ Head(r) \in Got(p) /\ \E s \in Slot : call[p].dst = s + ADDR_CONTROL
         /\ UNCHANGED <<canrxq, out, cur, pi, halt, answer, stamped, lost, abandoned,
                        executed>>
         /\ \/ /\ Then(call[p].n, m) \in {2, 3}
               /\ Request(p, call[p].dst, Then(call[p].n, m))
               /\ sock' = [sock EXCEPT ![p] = Tail(@)] /\ UNCHANGED pc
            \/ /\ Then(call[p].n, m) \in {0, 4}
               /\ pc' = [pc EXCEPT ![p] = IF Then(call[p].n, m) = 4 THEN "done" ELSE "died"]
               /\ sock' = [sock EXCEPT ![p] = <<>>] /\ UNCHANGED <<call, wire, since>>
<1>1. Take(p) /\ r # <<>> /\ Matches(p, m) /\ pc[p] = "wait"
  BY DEF ShutterTake, Take, Waits
<1>2. call[p].n \in 0..3 /\ call[p].n # 0 /\ call[p].dst \in 16..31
  BY <1>1 DEF Base, TypeInv, ShuttersOK
<1>3. r \in Seq(Frame) /\ p \in Process
  BY Disjoint DEF Base, TypeInv, QueuesOK
<1>4. Head(r) \in Got(p)
  BY <1>1, <1>3, SeqValues DEF Got
<1>5. \E s \in Slot : call[p].dst = s + ADDR_CONTROL
  BY <1>1, <1>3, <1>4 DEF Matches, Base, FramesOK
<1>6. call[p].n \in {1, 2, 3}
  BY <1>2
<1>7. Then(call[p].n, m) \in {0, 2, 3, 4}
  BY <1>6, ThenIs
<1>8. Then(call[p].n, m) \in {2, 3} <=> Then(call[p].n, m) \in 2..3
  BY <1>7
<1> QED
  BY <1>1, <1>2, <1>3, <1>4, <1>5, <1>6, <1>7, <1>8 DEF ShutterTake

LEMMA ShutterKeeps ==
  ASSUME Base, NEW p \in Shutter, ShutterStart(p) \/ ShutterStep(p)
  PROVE  Base' /\ Flow /\ Counts /\ Grows
<1>0. /\ answer = [q \in Process |-> answer[q]] /\ p \in Process
      /\ pc \in [Process -> {"new", "idle", "wait", "ping", "done", "died"}]
      /\ call \in [Process -> Call]
      /\ stamped \in [Pinger -> [0..(TIMESTAMP_SLOTS - 1) -> Int]]
  BY Disjoint DEF Base, TypeInv, StatesOK
<1>1. CASE Skip(p) \/ ShutterTimeout(p)
  <2>1. /\ UNCHANGED <<wire, canrxq, out, cur, call, pi, since, stamped, executed, answer>>
        /\ abandoned \subseteq abandoned' /\ pc[p] = "wait"
        /\ \/ UNCHANGED sock
           \/ sock[p] # <<>> /\ sock' = [sock EXCEPT ![p] = Tail(@)]
        /\ UNCHANGED pc \/ pc' = [pc EXCEPT ![p] = "died"]
    BY <1>1 DEF Skip, ShutterTimeout, Waits, TimesOut, slotVars, histVars
  <2>2. QueuesOK' /\ Flow
    BY <1>0, <2>1, SocketFlow
  <2>3. /\ pc' \in [Process -> {"new", "idle", "wait", "ping", "done", "died"}]
        /\ \A q \in Shutter : pc'[q] = pc[q] \/ (pc[q] # "new" /\ pc'[q] # "new")
    BY <1>0, <2>1, Disjoint
  <2> QED
    BY <1>0, <2>1, <2>2, <2>3, MoveKeeps
<1>2. CASE ShutterStart(p)
  <2>1. PICK slot \in Target : Request(p, CtlAddress(slot), 1)
    BY <1>2 DEF ShutterStart
  <2>2. /\ pc[p] = "new" /\ pc' = [pc EXCEPT ![p] = "wait"]
        /\ UNCHANGED <<canrxq, out, cur, pi, sock, answer, stamped, abandoned, executed>>
    BY <1>2 DEF ShutterStart
  <2> PICK c : c = ShutterCall(CtlAddress(slot), 1)
    OBVIOUS
  <2>3. /\ c \in Call /\ Sends(p, c) /\ c.n = 1 /\ c.dst = CtlAddress(slot)
        /\ AskedBy(p, c.n, c) /\ c.dst \in 16..31
    BY <1>0, <2>1, ConstantsOK, RequestSends
  <2>4. call[p].n = 0
    BY <2>2 DEF Base, TypeInv, ShuttersOK
  <2>5. /\ QueuesOK' /\ Flow /\ Counts /\ Grows /\ SinceOK'
        /\ call' \in [Process -> Call] /\ since' \in [Process -> SUBSET PiStates]
    <3>1. 1 <= c.n /\ call[p].n <= c.n
      BY <2>3, <2>4
    <3>2. sock' \in [Process -> Seq(Frame)] /\ \A q \in Process : Got(q)' \subseteq Got(q)
      BY <2>2 DEF Base, TypeInv, QueuesOK, Got
    <3> QED
      BY <1>0, <2>2, <2>3, <2>4, <3>1, <3>2, SendFlow
  <2>6. ShuttersOK'
    <3>1. call' = [call EXCEPT ![p] = c]
      BY <1>0, <2>3, SendIs
    <3>2. \A q \in Shutter : q # p => call'[q] = call[q] /\ pc'[q] = pc[q]
      BY <1>0, <2>2, <3>1, Disjoint
    <3>3. call'[p] = c /\ pc'[p] = "wait"
      BY <1>0, <2>2, <3>1
    <3>4. c.n \in 0..3 /\ c.n # 0
      BY <2>3
    <3> QED
      BY <2>3, <3>2, <3>3, <3>4 DEF Base, TypeInv, ShuttersOK
  <2>7. pc' \in [Process -> {"new", "idle", "wait", "ping", "done", "died"}]
    BY <1>0, <2>2
  <2> QED
    BY <1>0, <2>2, <2>5, <2>6, <2>7, RequestKeeps
<1>3. CASE ShutterTake(p)
  <2> PICK r : r = sock[p]
    OBVIOUS
  <2> PICK m : m = Head(r).m
    OBVIOUS
  <2> PICK k : k = Then(call[p].n, m)
    OBVIOUS
  <2>1. /\ r # <<>> /\ pc[p] = "wait"
        /\ call[p].n \in {1, 2, 3} /\ call[p].dst \in 16..31
        /\ \E s \in Slot : call[p].dst = s + ADDR_CONTROL
        /\ UNCHANGED <<canrxq, out, cur, pi, answer, stamped, abandoned, executed>>
        /\ \/ /\ k \in {2, 3} /\ Request(p, call[p].dst, k)
              /\ sock' = [sock EXCEPT ![p] = Tail(@)] /\ UNCHANGED pc
           \/ /\ pc' = [pc EXCEPT ![p] = IF k = 4 THEN "done" ELSE "died"]
              /\ sock' = [sock EXCEPT ![p] = <<>>] /\ UNCHANGED <<call, wire, since>>
    BY <1>3, ShutterTakes
  <2>2. CASE /\ k \in {2, 3} /\ Request(p, call[p].dst, k)
             /\ sock' = [sock EXCEPT ![p] = Tail(@)] /\ UNCHANGED pc
    <3> PICK c : c = ShutterCall(call[p].dst, k)
      OBVIOUS
    <3>1. /\ c \in Call /\ Sends(p, c) /\ c.n = k /\ c.dst = call[p].dst
          /\ AskedBy(p, c.n, c)
      BY <1>0, <2>1, <2>2, RequestSends
    <3>2. 1 <= c.n /\ call[p].n <= c.n /\ 1 < c.n
      BY <2>1, <2>2, <3>1, ThenIs
    <3>3. sock' \in [Process -> Seq(Frame)] /\ \A q \in Process : Got(q)' \subseteq Got(q)
      <4> PICK t : t = Tail(r)
        OBVIOUS
      <4>1. r \in Seq(Frame) /\ sock \in [Process -> Seq(Frame)]
        BY <1>0 DEF Base, TypeInv, QueuesOK
      <4>2. t \in Seq(Frame) /\ ValuesOf(t) \subseteq ValuesOf(r)
        BY <2>1, <4>1, SeqValues
      <4>3. sock' = [sock EXCEPT ![p] = t]
        BY <2>2
      <4> QED
        BY <1>0, <4>1, <4>2, <4>3 DEF Got
    <3>4. /\ QueuesOK' /\ Flow /\ Counts /\ Grows /\ SinceOK'
          /\ call' \in [Process -> Call] /\ since' \in [Process -> SUBSET PiStates]
      BY <1>0, <2>1, <3>1, <3>2, <3>3, SendFlow, SMTT(30)
    <3>5. ShuttersOK'
      <4>1. call' = [call EXCEPT ![p] = c]
        BY <1>0, <3>1, SendIs
      <4>2. \A q \in Shutter : q # p => call'[q] = call[q]
        BY <1>0, <4>1, Disjoint
      <4>3. call'[p] = c
        BY <1>0, <4>1
      <4>4. c.n \in 0..3 /\ c.n # 0
        BY <2>2, <3>1
      <4> QED
        BY <2>1, <2>2, <3>1, <4>2, <4>3, <4>4, SMTT(30), ZenonT(60) DEF Base, TypeInv, ShuttersOK
    <3> QED
      BY <1>0, <2>1, <2>2, <3>4, <3>5, RequestKeeps
  <2>3. CASE /\ pc' = [pc EXCEPT ![p] = IF k = 4 THEN "done" ELSE "died"]
             /\ sock' = [sock EXCEPT ![p] = <<>>] /\ UNCHANGED <<call, wire, since>>
    <3>1. QueuesOK' /\ Flow
      BY <1>0, <2>1, <2>3, SocketFlow
    <3>2. /\ pc' \in [Process -> {"new", "idle", "wait", "ping", "done", "died"}]
          /\ \A q \in Shutter : pc'[q] = pc[q] \/ (pc[q] # "new" /\ pc'[q] # "new")
      BY <1>0, <2>1, <2>3, Disjoint
    <3> QED
      BY <1>0, <2>1, <2>3, <3>1, <3>2, MoveKeeps
  <2> QED
    BY <2>1, <2>2, <2>3
<1> QED
  BY <1>1, <1>2, <1>3 DEF ShutterStep

LEMMA PingerKeeps ==
  ASSUME Base, NEW p \in Pinger, PingStart(p) \/ TimerCb(p) \/ CanCb(p)
  PROVE  Base' /\ Flow /\ Counts /\ Grows
<1>0. /\ answer = [q \in Process |-> answer[q]] /\ p \in Process /\ p \notin Shutter
      /\ pc \in [Process -> {"new", "idle", "wait", "ping", "done", "died"}]
      /\ p \notin Helper /\ call \in [Process -> Call]
      /\ stamped \in [Pinger -> [0..(TIMESTAMP_SLOTS - 1) -> Int]]
  BY Disjoint DEF Base, TypeInv, StatesOK
<1>1. CASE PingStart(p) \/ CanCb(p)
  <2>1. /\ UNCHANGED <<wire, canrxq, out, cur, call, pi, since, stamped, executed, abandoned>>
        /\ \/ UNCHANGED sock
           \/ sock[p] # <<>> /\ sock' = [sock EXCEPT ![p] = Tail(@)]
        /\ UNCHANGED pc \/ pc' = [pc EXCEPT ![p] = "ping"]
        /\ UNCHANGED answer \/ \E a : answer' = [answer EXCEPT ![p] = a]
    BY <1>1 DEF PingStart, CanCb, slotVars, histVars
  <2>2. QueuesOK' /\ Flow
    BY <1>0, <2>1, SocketFlow
  <2>3. /\ pc' \in [Process -> {"new", "idle", "wait", "ping", "done", "died"}]
        /\ \A q \in Shutter : pc'[q] = pc[q]
        /\ answer' = [q \in Process |-> answer'[q]]
    BY <1>0, <2>1, Disjoint
  <2> QED
    BY <2>1, <2>2, <2>3, MoveKeeps
<1>2. CASE TimerCb(p)
  <2>1. PICK slot \in Target :
          Send(p, CtlAddress(slot), WO, OBJ_ECHO, <<call[p].n>>, call[p].n + 1)
    BY <1>2 DEF TimerCb
  <2>2. /\ UNCHANGED <<canrxq, out, cur, pi, pc, sock, answer, abandoned, executed>>
        /\ Stamp(p, call[p].n)
    BY <1>2 DEF TimerCb
  <2> PICK c : c = [dst |-> CtlAddress(slot), type |-> WO, object |-> OBJ_ECHO,
                    data |-> <<call[p].n>>, n |-> call[p].n + 1]
    OBVIOUS
  <2>3. call[p].n \in Nat
    BY <1>0 DEF Call
  <2>4. c \in Call
    <3>1. CtlAddress(slot) \in 0..63 /\ <<call[p].n>> \in Seq(Int) /\ call[p].n + 1 \in Nat
      BY <2>3, ConstantsOK
    <3> QED
      BY <3>1, ConstantsOK DEF Call
  <2>5. Sends(p, c)
    BY <2>1 DEF Sends
  <2>6. AskedBy(p, c.n, c)
    BY <1>0, <2>3 DEF AskedBy
  <2>7. /\ QueuesOK' /\ Flow /\ Counts /\ Grows /\ SinceOK'
        /\ call' \in [Process -> Call] /\ since' \in [Process -> SUBSET PiStates]
    <3>1. 1 <= c.n /\ call[p].n <= c.n /\ c.n # call[p].n
      BY <2>3
    <3>2. sock' \in [Process -> Seq(Frame)] /\ \A q \in Process : Got(q)' \subseteq Got(q)
      BY <2>2 DEF Base, TypeInv, QueuesOK, Got
    <3> QED
      BY <1>0, <2>2, <2>4, <2>5, <2>6, <3>1, <3>2, SendFlow
  <2>8. ShuttersOK'
    <3>1. \A q \in Shutter : call'[q] = call[q] /\ pc'[q] = pc[q]
      BY <1>0, <2>1, <2>2, Disjoint DEF Send
    <3> QED
      BY <3>1 DEF Base, TypeInv, ShuttersOK
  <2>9. stamped' \in [Pinger -> [0..(TIMESTAMP_SLOTS - 1) -> Int]]
    <3> PICK st : st = stamped[p]
      OBVIOUS
    <3> PICK i : i = call[p].n % TIMESTAMP_SLOTS
      OBVIOUS
    <3>1. st \in [0..(TIMESTAMP_SLOTS - 1) -> Int]
      BY <1>0
    <3>2. stamped' = [stamped EXCEPT ![p] = [st EXCEPT ![i] = call[p].n]]
      BY <2>2 DEF Stamp
    <3>3. [st EXCEPT ![i] = call[p].n] \in [0..(TIMESTAMP_SLOTS - 1) -> Int]
      <4> PICK n : n = call[p].n
        OBVIOUS
      <4>1. n \in Int /\ st \in [0..(TIMESTAMP_SLOTS - 1) -> Int]
        BY <2>3, <3>1
      <4> QED
        BY <4>1
    <3> QED
      BY <1>0, <3>2, <3>3
  <2>10. pc' \in [Process -> {"new", "idle", "wait", "ping", "done", "died"}]
    BY <1>0, <2>2
  <2> QED
    BY <2>2, <2>7, <2>8, <2>9, <2>10, RequestKeeps
<1> QED
  BY <1>1, <1>2

LEMMA BaseInit == Init => Base
<1> SUFFICES ASSUME Init PROVE Base
  OBVIOUS
<1>1. /\ wire = [s \in Slot |-> <<>>] /\ canrxq = [s \in Slot |-> <<>>]
      /\ out = [s \in Slot |-> <<>>] /\ cur = [s \in Slot |-> None]
      /\ sock = [p \in Process |-> <<>>] /\ <<>> \in Seq(Frame)
  BY DEF Init
<1>2. QueuesOK
  BY <1>1 DEF QueuesOK
<1>3. \A p \in Process : call[p].n = 0 /\ call[p].dst = 0 /\ pc[p] = "new"
  BY DEF Init
<1>4. StatesOK
  <2>1. [dst |-> 0, type |-> 0, object |-> 0, data |-> <<>>, n |-> 0] \in Call
    BY DEF Call
  <2>2. call \in [Process -> Call]
    BY <2>1 DEF Init
  <2>3. stamped \in [Pinger -> [0..(TIMESTAMP_SLOTS - 1) -> Int]]
    BY DEF Init
  <2>4. pi \in [Slot -> PiStates] /\ since \in [Process -> SUBSET PiStates]
    BY DEF Init, PiStates
  <2>5. pc \in [Process -> {"new", "idle", "wait", "ping", "done", "died"}]
    BY DEF Init
  <2>6. answer = [p \in Process |-> answer[p]]
    BY DEF Init
  <2> QED
    BY <2>2, <2>3, <2>4, <2>5, <2>6 DEF StatesOK
<1>5. ShuttersOK
  BY <1>3, Disjoint DEF ShuttersOK
<1>6. FramesOK
  <2>1. \A s \in Slot : Asked(s) = {} /\ Told(s) = {} /\ cur[s] = None
    BY <1>1 DEF Asked, Told, ValuesOf
  <2>2. \A p \in Process : Got(p) = {}
    BY <1>1 DEF Got, ValuesOf
  <2> QED
    BY <2>1, <2>2 DEF FramesOK
<1>7. SinceOK
  BY <1>3, SlotIs DEF SinceOK
<1> QED
  BY <1>2, <1>4, <1>5, <1>6, <1>7 DEF Base, TypeInv

LEMMA BaseStep ==
  ASSUME Base, Next
  PROVE  Base' /\ Flow /\ Counts /\ Grows
BY SlotKeeps, HelperKeeps, ShutterKeeps, PingerKeeps DEF Next

LEMMA BaseStutter ==
  ASSUME Base, UNCHANGED vars
  PROVE  Base'
<1>1. UNCHANGED <<wire, canrxq, out, cur, pi, pc, sock, call, answer, stamped, since>>
  BY DEF vars, slotVars, procVars, histVars
<1>2. TypeInv'
  BY <1>1 DEF Base, TypeInv, QueuesOK, StatesOK, ShuttersOK
<1>3. \A s \in Slot : Asked(s)' = Asked(s) /\ Told(s)' = Told(s)
  BY <1>1 DEF Asked, Told
<1>4. \A p \in Process : Got(p)' = Got(p)
  BY <1>1 DEF Got
<1>5. FramesOK'
  BY <1>1, <1>3, <1>4 DEF Base, FramesOK, RequestOK, AnswerOK, Numbered
<1> QED
  BY <1>1, <1>2, <1>5 DEF Base, SinceOK

-----------------------------------------------------------------------------
(***************************************************************************)
(* canping.                                                                *)
(***************************************************************************)
LEMMA SlotsDiffer ==
  ASSUME NEW n \in Nat \ {0}, NEW a \in Nat, NEW b \in Nat, a < b, b < a + n
  PROVE  a % n # b % n
<1>1. /\ a = n * (a \div n) + (a % n) /\ b = n * (b \div n) + (b % n)
      /\ a \div n \in Int /\ b \div n \in Int /\ a % n \in Int /\ b % n \in Int
  OBVIOUS
<1> SUFFICES ASSUME a % n = b % n PROVE FALSE
  OBVIOUS
<1> PICK i : i = a \div n
  OBVIOUS
<1> PICK j : j = b \div n
  OBVIOUS
<1>2. i \in Int /\ j \in Int /\ b - a = n * j - n * i
  BY <1>1
<1>3. b - a = n * (j - i)
  BY <1>2
<1>4. j - i \in Int /\ (j - i <= 0 \/ j - i >= 1)
  BY <1>2
<1>5. CASE j - i <= 0
  BY <1>3, <1>4, <1>5
<1>6. CASE j - i >= 1
  <2>1. n * (j - i) >= n
    BY <1>4, <1>6
  <2> QED
    BY <1>3, <2>1
<1> QED
  BY <1>4, <1>5, <1>6

(* The stamps of the latest TIMESTAMP_SLOTS requests are there. *)
Stamped(p) ==
  \A seq \in Nat : seq < call[p].n /\ call[p].n <= seq + TIMESTAMP_SLOTS
                     => stamped[p][seq % TIMESTAMP_SLOTS] = seq
Timed(p) ==
  answer[p] # None /\ answer[p].f.req.proc = p =>
    /\ answer[p].type = "time"
    /\ answer[p].sent <= answer[p].seq + TIMESTAMP_SLOTS
         => answer[p].stamp = answer[p].seq
PingInv == \A p \in Pinger : Stamped(p) /\ Timed(p)

LEMMA StampKeeps ==
  ASSUME Base, NEW p \in Pinger, Stamped(p), TimerCb(p)
  PROVE  Stamped(p)'
<1> PICK n : n = call[p].n
  OBVIOUS
<1> PICK st : st = stamped[p]
  OBVIOUS
<1>1. n \in Nat /\ p \in Process /\ st \in [0..(TIMESTAMP_SLOTS - 1) -> Int]
      /\ call \in [Process -> Call] /\ stamped \in [Pinger -> [0..(TIMESTAMP_SLOTS - 1) -> Int]]
  BY Disjoint DEF Base, TypeInv, StatesOK, Call
<1>2. TIMESTAMP_SLOTS \in Nat \ {0}
  BY ObjectsAssumption
<1>3. call'[p].n = n + 1 /\ stamped'[p] = [st EXCEPT ![n % TIMESTAMP_SLOTS] = n]
  BY <1>1 DEF TimerCb, Send, Stamp
<1> SUFFICES ASSUME NEW seq \in Nat, seq < n + 1, n + 1 <= seq + TIMESTAMP_SLOTS
             PROVE  stamped'[p][seq % TIMESTAMP_SLOTS] = seq
  BY <1>3 DEF Stamped
<1>4. seq % TIMESTAMP_SLOTS \in 0..(TIMESTAMP_SLOTS - 1)
  BY <1>2
<1>5. CASE seq = n
  BY <1>1, <1>3, <1>4, <1>5
<1>6. CASE seq < n
  <2>1. st[seq % TIMESTAMP_SLOTS] = seq
    BY <1>1, <1>2, <1>6 DEF Stamped
  <2>2. seq % TIMESTAMP_SLOTS # n % TIMESTAMP_SLOTS
    <3>1. n < seq + TIMESTAMP_SLOTS
      BY <1>1, <1>2
    <3> HIDE DEF Stamped
    <3> QED
      BY <1>1, <1>2, <1>6, <3>1, SlotsDiffer
  <2> QED
    BY <1>1, <1>3, <1>4, <2>1, <2>2
<1> QED
  BY <1>1, <1>5, <1>6

LEMMA CanCbKeeps ==
  ASSUME Base, NEW p \in Pinger, Stamped(p), Timed(p), CanCb(p)
  PROVE  Timed(p)'
<1> PICK q : q = sock[p]
  OBVIOUS
<1> PICK f : f = Head(q)
  OBVIOUS
<1>1. q # <<>> /\ p \in Process /\ q \in Seq(Frame) /\ call[p].n \in Nat
      /\ answer = [r \in Process |-> answer[r]]
  BY Disjoint DEF CanCb, Base, TypeInv, QueuesOK, StatesOK, Call
<1>2. f \in Got(p) /\ f \in Frame
  BY <1>1, SeqValues DEF Got
<1>3. AnswerOK(f) /\ Numbered(f)
  BY <1>1, <1>2 DEF Base, FramesOK
<1>4. ASSUME f.req.proc = p
      PROVE  \E seq \in Nat : /\ f.m.data[1] = seq /\ seq < call[p].n
  <2>1. f.m.data = <<f.req.n - 1>> /\ f.req.n \in Nat /\ 1 <= f.req.n /\ f.req.n <= call[p].n
    BY <1>2, <1>3, <1>4 DEF AnswerOK, AnsweredTo, Numbered, Frame
  <2> PICK k : k = f.req.n
    OBVIOUS
  <2>2. k - 1 \in Nat /\ f.m.data[1] = k - 1 /\ k - 1 < call[p].n
    BY <1>1, <2>1
  <2> QED
    BY <2>2
<1> PICK v : v = f.m.data[1]
  OBVIOUS
<1>5. \/ UNCHANGED answer
      \/ answer' = [answer EXCEPT ![p] =
                      IF v > call[p].n THEN [type |-> "higher", f |-> f]
                      ELSE [type |-> "time", f |-> f, seq |-> v,
                            stamp |-> stamped[p][v % TIMESTAMP_SLOTS], sent |-> call[p].n]]
  BY DEF CanCb
<1>6. CASE UNCHANGED answer
  BY <1>6 DEF Timed
<1>7. CASE answer' = [answer EXCEPT ![p] =
                      IF v > call[p].n THEN [type |-> "higher", f |-> f]
                      ELSE [type |-> "time", f |-> f, seq |-> v,
                            stamp |-> stamped[p][v % TIMESTAMP_SLOTS], sent |-> call[p].n]]
  <2> PICK a : a = answer'[p]
    OBVIOUS
  <2>1. a = IF v > call[p].n THEN [type |-> "higher", f |-> f]
            ELSE [type |-> "time", f |-> f, seq |-> v,
                  stamp |-> stamped[p][v % TIMESTAMP_SLOTS], sent |-> call[p].n]
    BY <1>1, <1>7
  <2> SUFFICES ASSUME a.f.req.proc = p
               PROVE  a.type = "time" /\ (a.sent <= a.seq + TIMESTAMP_SLOTS => a.stamp = a.seq)
    BY DEF Timed
  <2>2. a.f = f
    BY <2>1, SMTT(40)
  <2>3. v \in Nat /\ v < call[p].n
    BY <1>4, <2>2
  <2>4. a = [type |-> "time", f |-> f, seq |-> v,
             stamp |-> stamped[p][v % TIMESTAMP_SLOTS], sent |-> call[p].n]
    <3>1. ~(v > call[p].n)
      BY <1>1, <2>3
    <3> QED
      BY <2>1, <3>1, Zenon
  <2>5. a.type = "time" /\ a.sent = call[p].n /\ a.seq = v
        /\ a.stamp = stamped[p][v % TIMESTAMP_SLOTS]
    BY <2>4, SMTT(40)
  <2> QED
    BY <1>1, <2>3, <2>5 DEF Stamped
<1> QED
  BY <1>5, <1>6, <1>7

LEMMA PingStep ==
  ASSUME Base, PingInv, [Next]_vars
  PROVE  PingInv'
<1>0. answer = [r \in Process |-> answer[r]] /\ call \in [Process -> Call]
      /\ stamped \in [Pinger -> [0..(TIMESTAMP_SLOTS - 1) -> Int]]
  BY DEF Base, TypeInv, StatesOK
<1>1. ASSUME NEW p \in Pinger, UNCHANGED <<stamped[p], answer[p], call[p]>>
      PROVE  Stamped(p)' /\ Timed(p)'
  BY <1>1 DEF PingInv, Stamped, Timed
<1>2. ASSUME NEW s \in Slot, SlotStep(s) \/ PiStep(s) \/ LoseReply(s)
      PROVE  UNCHANGED <<stamped, answer, call>>
  BY <1>2 DEF SlotStep, RxIsr, Handle, Settle, Deliver, PiStep, PiBoots, HaltPulse,
              PiTurnsOff, LoseReply, procVars
<1>3. ASSUME NEW q \in Process, NEW p \in Pinger, p # q,
             \/ HelperStart(q) \/ HelperCommand(q) \/ HelperStep(q)
             \/ ShutterStart(q) \/ ShutterStep(q) \/ PingStart(q)
      PROVE  UNCHANGED <<stamped[p], answer[p], call[p]>>
  <2>1. CASE HelperStart(q) \/ HelperCommand(q) \/ HelperStep(q)
    <3>1. CASE HelperStart(q) \/ HelperStep(q)
      <4>1. UNCHANGED <<stamped, call>>
            /\ (UNCHANGED answer \/ \E a : answer' = [answer EXCEPT ![q] = a])
        BY <3>1 DEF HelperStart, HelperStep, Skip, HelperTake, HelperTimeout
      <4> QED
        BY <1>0, <1>3, <4>1, Disjoint
    <3>2. CASE HelperCommand(q)
      <4>1. UNCHANGED <<stamped, answer>>
            /\ \E slot \in Target, op \in PowerRequests :
                 Send(q, CtlAddress(slot), op[1], OBJ_POWER, op[2], call[q].n + 1)
        BY <3>2 DEF HelperCommand, PowerRequests
      <4>2. \E c : call' = [call EXCEPT ![q] = c]
        BY <4>1 DEF Send
      <4> QED
        BY <1>0, <1>3, <4>1, <4>2, Disjoint
    <3> QED
      BY <2>1, <3>1, <3>2
  <2>2. CASE ShutterStart(q)
    <3>1. PICK addr : Request(q, addr, 1)
      BY <2>2 DEF ShutterStart
    <3>2. UNCHANGED <<stamped, answer>>
      BY <2>2 DEF ShutterStart
    <3> QED
      BY <1>0, <1>3, <3>1, <3>2, Disjoint DEF Request, Send
  <2>3. CASE Skip(q) \/ ShutterTimeout(q)
    BY <2>3 DEF Skip, ShutterTimeout
  <2>4. CASE ShutterTake(q)
    <3> PICK k : k = Then(call[q].n, Head(sock[q]).m)
      OBVIOUS
    <3>1. UNCHANGED <<stamped, answer>>
          /\ (UNCHANGED call \/ (k \in 2..3 /\ Request(q, call[q].dst, k)))
      BY <2>4 DEF ShutterTake
    <3>2. k \in 2..3 => k = 2 \/ k = 3
      OBVIOUS
    <3> QED
      BY <1>0, <1>3, <3>1, <3>2, Disjoint DEF Request, Send
  <2>5. CASE PingStart(q)
    BY <2>5 DEF PingStart
  <2> QED
    BY <1>3, <2>1, <2>2, <2>3, <2>4, <2>5 DEF ShutterStep
<1>4. ASSUME NEW p \in Pinger, NEW q \in Pinger, p # q, TimerCb(q) \/ CanCb(q)
      PROVE  UNCHANGED <<stamped[p], answer[p], call[p]>>
  BY <1>0, <1>4, Disjoint DEF TimerCb, CanCb, Send, Stamp
<1>5. ASSUME NEW p \in Pinger, PingStart(p)
      PROVE  UNCHANGED <<stamped[p], answer[p], call[p]>>
  BY <1>5 DEF PingStart
<1>6. ASSUME NEW p \in Pinger, TimerCb(p) PROVE Stamped(p)' /\ Timed(p)'
  <2>1. Stamped(p)'
    BY <1>6, StampKeeps DEF PingInv
  <2>2. UNCHANGED answer
    BY <1>6 DEF TimerCb
  <2> QED
    BY <2>1, <2>2 DEF PingInv, Timed
<1>7. ASSUME NEW p \in Pinger, CanCb(p) PROVE Stamped(p)' /\ Timed(p)'
  <2>1. Timed(p)'
    BY <1>7, CanCbKeeps DEF PingInv
  <2>2. UNCHANGED <<call, stamped>>
    BY <1>7 DEF CanCb
  <2> QED
    BY <2>1, <2>2 DEF PingInv, Stamped
<1>8. ASSUME NEW p \in Pinger, Next PROVE Stamped(p)' /\ Timed(p)'
  <2>1. CASE \E s \in Slot : SlotStep(s) \/ PiStep(s) \/ LoseReply(s)
    BY <1>1, <1>2, <2>1
  <2>2. CASE \E q \in Helper : HelperStart(q) \/ HelperCommand(q) \/ HelperStep(q)
    BY <1>1, <1>3, <2>2, Disjoint
  <2>3. CASE \E q \in Shutter : ShutterStart(q) \/ ShutterStep(q)
    BY <1>1, <1>3, <2>3, Disjoint
  <2>4. CASE \E q \in Pinger : PingStart(q) \/ TimerCb(q) \/ CanCb(q)
    BY <1>1, <1>3, <1>4, <1>5, <1>6, <1>7, <2>4, Disjoint
  <2> QED
    BY <1>8, <2>1, <2>2, <2>3, <2>4 DEF Next
<1>9. CASE UNCHANGED vars
  BY <1>1, <1>9 DEF vars, procVars, PingInv
<1> QED
  BY <1>8, <1>9 DEF PingInv

LEMMA PingInitial == Init => PingInv
BY Disjoint DEF Init, PingInv, Stamped, Timed

(* canping times a request with its own stamp, whatever is lost, late or
   answered by another slot (timer_cb, can_cb). *)
THEOREM PingsAreTimed == Spec => []PingTimes
<1>1. Init => Base /\ PingInv
  BY BaseInit, PingInitial
<1>2. Base /\ PingInv /\ [Next]_vars => (Base /\ PingInv)'
  BY BaseStep, BaseStutter, PingStep
<1>3. PingInv => PingTimes
  BY DEF PingInv, Timed, PingTimes
<1> QED
  BY <1>1, <1>2, <1>3, PTL DEF Spec

-----------------------------------------------------------------------------
(***************************************************************************)
(* A helper's request is in one place at a time, as itself or as its       *)
(* answer, until the helper takes the answer or it is lost.                *)
(***************************************************************************)
Row(x) == CASE x.in = "wire" -> wire[x.at]
            [] x.in = "canrxq" -> canrxq[x.at]
            [] x.in = "cur" -> IF cur[x.at] = None THEN <<>> ELSE <<cur[x.at]>>
            [] x.in = "out" -> out[x.at]
            [] x.in = "sock" -> sock[x.at]
WireOf(s) == [at |-> s, in |-> "wire"]
CanrxqOf(s) == [at |-> s, in |-> "canrxq"]
CurOf(s) == [at |-> s, in |-> "cur"]
OutOf(s) == [at |-> s, in |-> "out"]
SockOf(p) == [at |-> p, in |-> "sock"]
At(s) == {WireOf(s), CanrxqOf(s), CurOf(s), OutOf(s)}
Places(p) == [at : Slot, in : {"wire", "canrxq", "cur", "out"}] \cup {SockOf(p)}
Tokens(p) == {f \in Frame : f.req = Own(p)}

Once(p) ==
  \A x \in Places(p) :
    /\ Single(Row(x), Tokens(p))
    /\ \A y \in Places(p) :
         x = y \/ Among(Row(x), Tokens(p)) = {} \/ Among(Row(y), Tokens(p)) = {}

(* t is s without f, or with g besides. *)
Without(t, s, f) ==
  \A T : /\ Fewer(t, s, T)
         /\ Single(s, T) /\ f \in T => f \in Among(s, T) /\ Among(t, T) = {}
With(t, s, g) ==
  \A T : /\ g \notin T => Fewer(t, s, T)
         /\ Among(s, T) = {} => Single(t, T)
Less(t, s) == \A T : Fewer(t, s, T)

LEMMA RowIs ==
  /\ \A s : /\ Row(WireOf(s)) = wire[s] /\ Row(CanrxqOf(s)) = canrxq[s]
            /\ Row(OutOf(s)) = out[s] /\ Row(SockOf(s)) = sock[s]
            /\ Row(CurOf(s)) = IF cur[s] = None THEN <<>> ELSE <<cur[s]>>
  /\ \A s : /\ Row(WireOf(s))' = wire'[s] /\ Row(CanrxqOf(s))' = canrxq'[s]
            /\ Row(OutOf(s))' = out'[s] /\ Row(SockOf(s))' = sock'[s]
            /\ Row(CurOf(s))' = IF cur'[s] = None THEN <<>> ELSE <<cur'[s]>>
BY DEF Row, WireOf, CanrxqOf, CurOf, OutOf, SockOf

LEMMA PlacesAre ==
  ASSUME NEW p, NEW x \in Places(p)
  PROVE  x = SockOf(p) \/ \E s \in Slot : x \in At(s)
BY DEF Places, At, WireOf, CanrxqOf, CurOf, OutOf, SockOf

LEMMA Taken ==
  ASSUME NEW s \in Seq(Frame)
  PROVE  /\ s # <<>> => Without(Tail(s), s, Head(s)) /\ Less(Front(s), s)
         /\ \A i \in 1..Len(s) : Without(RemoveAt(s, i), s, s[i])
         /\ \A f \in Frame : /\ With(Append(s, f), s, f) /\ With(<<f>>, <<>>, f)
                             /\ Without(<<>>, <<f>>, f)
         /\ Less(s, s)
<1>1. ASSUME s # <<>> PROVE Without(Tail(s), s, Head(s))
  BY <1>1, FewerTail, HeadAmong DEF Without
<1>2. ASSUME s # <<>> PROVE Less(Front(s), s)
  <2> PICK n : n = Len(s) - 1
    OBVIOUS
  <2>1. n \in 0..Len(s) /\ Len(s) \in Nat
    BY <1>2
  <2> DEFINE t == SubSeq(s, 1, n)
  <2>2. t \in Seq(Frame) /\ Len(t) = n /\ \A p \in 1..n : t[p] = s[p]
    BY <2>1, Slices, ZenonT(30)
  <2>3. Front(s) = t
    BY DEF Front
  <2> HIDE DEF t
  <2>4. \A p \in 1..Len(t) : p \in 1..Len(s) /\ t[p] = s[p]
    BY <2>1, <2>2
  <2> QED
    BY <2>3, <2>4 DEF Less, Fewer, Single, Among, ValuesOf
<1>3. ASSUME NEW i \in 1..Len(s) PROVE Without(RemoveAt(s, i), s, s[i])
  <2>1. s[i] \in ValuesOf(s)
    BY DEF ValuesOf
  <2> QED
    BY <2>1, FewerRemoved DEF Without, Among
<1>4. ASSUME NEW f \in Frame PROVE With(Append(s, f), s, f)
  BY FewerAppended DEF With
<1>5. ASSUME NEW f \in Frame PROVE With(<<f>>, <<>>, f) /\ Without(<<>>, <<f>>, f)
  BY DEF With, Without, Fewer, Single, Among, ValuesOf
<1>6. Less(s, s)
  BY FewerSame DEF Less
<1> QED
  BY <1>1, <1>2, <1>3, <1>4, <1>5, <1>6

LEMMA LessOnce ==
  ASSUME NEW p, Once(p), UNCHANGED call[p],
         \A x \in Places(p) : Fewer(Row(x)', Row(x), Tokens(p))
  PROVE  Once(p)'
<1>1. Tokens(p)' = Tokens(p) /\ Places(p)' = Places(p)
  BY DEF Tokens, Own, Places, At
<1>2. \A x \in Places(p) : /\ Single(Row(x)', Tokens(p))
                           /\ Among(Row(x), Tokens(p)) = {} => Among(Row(x)', Tokens(p)) = {}
  BY DEF Once, Fewer
<1> QED
  BY <1>1, <1>2 DEF Once

(* A frame f at x becomes g at y. *)
LEMMA HopOnce ==
  ASSUME NEW p, Once(p), UNCHANGED call[p], NEW x \in Places(p), NEW y \in Places(p), x # y,
         NEW f \in Frame, NEW g \in Frame, f.req = g.req,
         Without(Row(x)', Row(x), f), With(Row(y)', Row(y), g),
         \A z \in Places(p) : z \in {x, y} \/ Less(Row(z)', Row(z))
  PROVE  Once(p)'
<1> PICK T : T = Tokens(p)
  OBVIOUS
<1>1. Tokens(p)' = T /\ Places(p)' = Places(p) /\ (f \in T <=> g \in T)
  BY DEF Tokens, Own, Places, At
<1>2. \A z \in Places(p) : z # y => Fewer(Row(z)', Row(z), T)
  BY DEF Without, Less
<1>3. CASE g \notin T
  BY <1>2, <1>3, LessOnce DEF With
<1>4. CASE g \in T
  <2>1. f \in Among(Row(x), T) /\ Among(Row(x)', T) = {}
    BY <1>1, <1>4 DEF Without, Once
  <2>2. \A z \in Places(p) : z # x => Among(Row(z), T) = {}
    BY <2>1 DEF Once
  <2>3. \A z \in Places(p) : z # y => Among(Row(z)', T) = {} /\ Single(Row(z)', T)
    BY <1>2, <2>1, <2>2 DEF Fewer, Once
  <2>4. Single(Row(y)', T)
    BY <2>2 DEF With
  <2> QED
    BY <1>1, <2>3, <2>4 DEF Once
<1> QED
  BY <1>3, <1>4

LEMMA AllPlaces ==
  ASSUME Base
  PROVE  /\ \A s \in Slot : /\ wire[s] \in Seq(Frame) /\ canrxq[s] \in Seq(Frame)
                          /\ out[s] \in Seq(Frame) /\ cur[s] \in Frame \cup {None}
         /\ \A p \in Process : sock[p] \in Seq(Frame)
         /\ wire = [s \in Slot |-> wire[s]] /\ canrxq = [s \in Slot |-> canrxq[s]]
         /\ out = [s \in Slot |-> out[s]] /\ cur = [s \in Slot |-> cur[s]]
         /\ sock = [p \in Process |-> sock[p]]
BY DEF Base, TypeInv, QueuesOK

LEMMA SameAt ==
  ASSUME NEW s, UNCHANGED <<wire[s], canrxq[s], cur[s], out[s]>>, NEW z \in At(s)
  PROVE  Row(z)' = Row(z)
BY RowIs DEF At

(* The places of a slot no step touches. *)
LEMMA OtherPlaces ==
  ASSUME NEW p, NEW s \in Slot,
         \A t \in Slot \ {s} : UNCHANGED <<wire[t], canrxq[t], cur[t], out[t]>>,
         NEW z \in Places(p), z \notin At(s), z # SockOf(p)
  PROVE  Row(z)' = Row(z)
<1>1. PICK t \in Slot : z \in At(t)
  BY PlacesAre
<1>2. UNCHANGED <<wire[t], canrxq[t], cur[t], out[t]>>
  BY <1>1
<1> QED
  BY <1>1, <1>2, SameAt

LEMMA InPlaces ==
  ASSUME NEW p, NEW s \in Slot
  PROVE  /\ At(s) \subseteq Places(p) /\ SockOf(p) \in Places(p)
         /\ At(s) = {WireOf(s), CanrxqOf(s), CurOf(s), OutOf(s)}
         /\ SockOf(p) \notin At(s) /\ OutOf(s) # SockOf(p)
         /\ WireOf(s) # CanrxqOf(s) /\ WireOf(s) # CurOf(s)
         /\ CanrxqOf(s) # CurOf(s) /\ CanrxqOf(s) # OutOf(s)
         /\ CurOf(s) # OutOf(s)
BY DEF Places, At, WireOf, CanrxqOf, CurOf, OutOf, SockOf

LEMMA SlotOnce ==
  ASSUME Base, NEW p \in Process, Once(p), NEW s \in Slot,
         SlotStep(s) \/ PiStep(s) \/ LoseReply(s)
  PROVE  Once(p)'
<1>0. ASSUME \A t \in Slot \ {s} : UNCHANGED <<wire[t], canrxq[t], cur[t], out[t]>>,
             NEW z \in Places(p), z \notin At(s), z # SockOf(p)
      PROVE  Less(Row(z)', Row(z))
  BY <1>0, OtherPlaces, FewerSame DEF Less
<1>1. CASE RxIsr(s)
  <2> PICK q : q = wire[s]
    OBVIOUS
  <2> PICK f : f = Head(q)
    OBVIOUS
  <2>1. /\ q # <<>> /\ wire' = [wire EXCEPT ![s] = Tail(q)]
        /\ canrxq' = canrxq \/ canrxq' = [canrxq EXCEPT ![s] = Append(@, f)]
        /\ UNCHANGED <<out, cur, sock, call>>
    BY <1>1 DEF RxIsr, procVars
  <2>2. q \in Seq(Frame) /\ canrxq[s] \in Seq(Frame) /\ out[s] \in Seq(Frame)
        /\ f \in Frame
    BY <2>1, AllPlaces, SeqValues
  <2>3. \A t \in Slot \ {s} : UNCHANGED <<wire[t], canrxq[t], cur[t], out[t]>>
    BY <2>1, AllPlaces
  <2>4. Row(WireOf(s))' = Tail(q) /\ Row(WireOf(s)) = q
        /\ Row(OutOf(s))' = Row(OutOf(s)) /\ Row(CurOf(s))' = Row(CurOf(s))
        /\ Row(SockOf(p))' = Row(SockOf(p))
    <3>1. wire'[s] = Tail(q) /\ UNCHANGED <<out[s], cur[s], sock[p]>>
      BY <2>1, AllPlaces
    <3> QED
      BY <3>1, RowIs
  <2>5. Without(Tail(q), q, f)
    BY <2>1, <2>2, Taken
  <2>6. \A z \in Places(p) : z \in {WireOf(s), CanrxqOf(s)} \/ Less(Row(z)', Row(z))
    BY <1>0, <2>3, <2>4, InPlaces, FewerSame DEF Less
  <2>7. CASE canrxq' = canrxq
    <3>1. Less(Row(CanrxqOf(s))', Row(CanrxqOf(s)))
      BY <2>7, RowIs, FewerSame DEF Less
    <3> QED
      BY <2>1, <2>4, <2>5, <2>6, <3>1, LessOnce DEF Less, Without
  <2>8. CASE canrxq' = [canrxq EXCEPT ![s] = Append(@, f)]
    <3>1. /\ Row(CanrxqOf(s))' = Append(canrxq[s], f)
          /\ Row(CanrxqOf(s)) = canrxq[s]
      BY <2>8, RowIs, AllPlaces
    <3>2. With(Append(canrxq[s], f), canrxq[s], f)
      BY <2>2, Taken
    <3> PICK x : x = WireOf(s)
      OBVIOUS
    <3> PICK y : y = CanrxqOf(s)
      OBVIOUS
    <3>7. x \in Places(p) /\ y \in Places(p) /\ x # y
      BY InPlaces
    <3>8. Without(Row(x)', Row(x), f) /\ With(Row(y)', Row(y), f)
      BY <2>4, <2>5, <3>1, <3>2
    <3>9. \A z \in Places(p) : z \in {x, y} \/ Less(Row(z)', Row(z))
      BY <2>6
    <3> QED
      BY <2>1, <2>2, <3>7, <3>8, <3>9, HopOnce
  <2> QED
    BY <2>1, <2>7, <2>8
<1>2. CASE Handle(s)
  <2> PICK q : q = canrxq[s]
    OBVIOUS
  <2> PICK f : f = Head(q)
    OBVIOUS
  <2>1. /\ cur[s] = None /\ q \in Seq(Frame) /\ q # <<>> /\ f \in Frame
        /\ canrxq' = [canrxq EXCEPT ![s] = Tail(q)] /\ UNCHANGED <<wire, procVars>>
        /\ \/ cur' = [cur EXCEPT ![s] = f] /\ UNCHANGED out
           \/ \E g : /\ Answers(s, f, g) /\ UNCHANGED cur
                     /\ out' = [out EXCEPT ![s] = Append(@, g)]
    BY <1>2, HandleIs
  <2>2. UNCHANGED <<sock, call>>
    BY <2>1 DEF procVars
  <2>3. \A t \in Slot \ {s} : UNCHANGED <<wire[t], canrxq[t], cur[t], out[t]>>
    BY <2>1, AllPlaces
  <2>4. Row(CanrxqOf(s))' = Tail(q) /\ Row(CanrxqOf(s)) = q
        /\ Row(WireOf(s))' = Row(WireOf(s))
        /\ Row(SockOf(p))' = Row(SockOf(p))
    BY <2>1, <2>2, AllPlaces, RowIs
  <2>5. Without(Tail(q), q, f)
    BY <2>1, Taken
  <2>6. \A z \in Places(p) :
          z \in {CanrxqOf(s), CurOf(s), OutOf(s)} \/ Less(Row(z)', Row(z))
    BY <1>0, <2>3, <2>4, InPlaces, FewerSame DEF Less
  <2>7. CASE cur' = [cur EXCEPT ![s] = f] /\ UNCHANGED out
    <3>1. f # None /\ cur'[s] = f
      BY <2>1, <2>7, AllPlaces DEF Frame, None
    <3>2. Row(CurOf(s))' = <<f>> /\ Row(CurOf(s)) = <<>>
      BY <2>1, <3>1, RowIs
    <3>3. With(<<f>>, <<>>, f)
      BY <2>1, Taken
    <3>4. Less(Row(OutOf(s))', Row(OutOf(s)))
      BY <2>7, RowIs, FewerSame DEF Less
    <3> PICK x : x = CanrxqOf(s)
      OBVIOUS
    <3> PICK y : y = CurOf(s)
      OBVIOUS
    <3>7. x \in Places(p) /\ y \in Places(p) /\ x # y
      BY InPlaces
    <3>8. Without(Row(x)', Row(x), f) /\ With(Row(y)', Row(y), f)
      BY <2>4, <2>5, <3>2, <3>3
    <3>9. \A z \in Places(p) : z \in {x, y} \/ Less(Row(z)', Row(z))
      BY <2>6, <3>4
    <3> QED
      BY <2>1, <2>2, <3>7, <3>8, <3>9, HopOnce
  <2>8. CASE \E g : /\ Answers(s, f, g) /\ UNCHANGED cur
                    /\ out' = [out EXCEPT ![s] = Append(@, g)]
    <3>1. PICK g : Answers(s, f, g) /\ UNCHANGED cur /\ out' = [out EXCEPT ![s] = Append(@, g)]
      BY <2>8
    <3>2. g \in Frame /\ g.req = f.req
      BY <3>1 DEF Answers
    <3>3. Row(OutOf(s))' = Append(out[s], g) /\ Row(OutOf(s)) = out[s]
      BY <3>1, RowIs, AllPlaces
    <3>4. With(Append(out[s], g), out[s], g)
      BY <3>2, AllPlaces, Taken
    <3>5. Less(Row(CurOf(s))', Row(CurOf(s)))
      BY <3>1, RowIs, FewerSame DEF Less
    <3> PICK x : x = CanrxqOf(s)
      OBVIOUS
    <3> PICK y : y = OutOf(s)
      OBVIOUS
    <3>7. x \in Places(p) /\ y \in Places(p) /\ x # y
      BY InPlaces
    <3>8. Without(Row(x)', Row(x), f) /\ With(Row(y)', Row(y), g)
      BY <2>4, <2>5, <3>3, <3>4
    <3>9. \A z \in Places(p) : z \in {x, y} \/ Less(Row(z)', Row(z))
      BY <2>6, <3>5
    <3> QED
      BY <2>1, <2>2, <3>2, <3>7, <3>8, <3>9, HopOnce
  <2> QED
    BY <2>1, <2>7, <2>8
<1>3. CASE Settle(s)
  <2> PICK f : f = cur[s]
    OBVIOUS
  <2>1. PICK g : Answers(s, f, g) /\ out' = [out EXCEPT ![s] = Append(@, g)]
    BY <1>3, SettleIs
  <2>2. /\ f # None /\ f \in Frame /\ cur' = [cur EXCEPT ![s] = None]
        /\ UNCHANGED <<wire, canrxq, procVars>>
    BY <1>3, SettleIs
  <2>3. UNCHANGED <<sock, call>> /\ g \in Frame /\ g.req = f.req
    BY <2>1, <2>2 DEF procVars, Answers
  <2>4. \A t \in Slot \ {s} : UNCHANGED <<wire[t], canrxq[t], cur[t], out[t]>>
    BY <2>1, <2>2, AllPlaces
  <2>5. Row(CurOf(s))' = <<>> /\ Row(CurOf(s)) = <<f>>
        /\ Row(WireOf(s))' = Row(WireOf(s))
        /\ Row(CanrxqOf(s))' = Row(CanrxqOf(s))
        /\ Row(SockOf(p))' = Row(SockOf(p))
        /\ Row(OutOf(s))' = Append(out[s], g) /\ Row(OutOf(s)) = out[s]
    BY <2>1, <2>2, <2>3, AllPlaces, RowIs
  <2>6. Without(<<>>, <<f>>, f) /\ With(Append(out[s], g), out[s], g)
    BY <2>2, <2>3, AllPlaces, Taken
  <2>7. \A z \in Places(p) : z \in {CurOf(s), OutOf(s)} \/ Less(Row(z)', Row(z))
    BY <1>0, <2>4, <2>5, InPlaces, FewerSame DEF Less
  <2> PICK x : x = CurOf(s)
    OBVIOUS
  <2> PICK y : y = OutOf(s)
    OBVIOUS
  <2>8. x \in Places(p) /\ y \in Places(p) /\ x # y
    BY InPlaces
  <2>9. Without(Row(x)', Row(x), f) /\ With(Row(y)', Row(y), g)
    BY <2>5, <2>6
  <2>10. \A z \in Places(p) : z \in {x, y} \/ Less(Row(z)', Row(z))
    BY <2>7
  <2> QED
    BY <2>2, <2>3, <2>8, <2>9, <2>10, HopOnce
<1>4. CASE Deliver(s)
  <2> PICK i \in 1..Len(out[s]) :
           LET f == out[s][i]
           IN /\ f \in Told(s) /\ f \in Frame
              /\ out' = [out EXCEPT ![s] = RemoveAt(@, i)]
              /\ UNCHANGED <<wire, canrxq, cur, call>>
              /\ sock' = [r \in Process |-> IF /\ Open(r) /\ Address[r] = f.m.dst
                                              /\ Len(sock[r]) < SockDepth
                                           THEN Append(sock[r], f) ELSE sock[r]]
    BY <1>4, DeliverIs
  <2> PICK f : f = out[s][i]
    OBVIOUS
  <2> PICK q : q = out[s]
    OBVIOUS
  <2>1. f \in Frame /\ q \in Seq(Frame) /\ i \in 1..Len(q) /\ f = q[i]
        /\ sock[p] \in Seq(Frame)
    BY AllPlaces
  <2>2. \A t \in Slot \ {s} : UNCHANGED <<wire[t], canrxq[t], cur[t], out[t]>>
    BY AllPlaces
  <2>3. Row(OutOf(s))' = RemoveAt(q, i) /\ Row(OutOf(s)) = q
        /\ Row(WireOf(s))' = Row(WireOf(s))
        /\ Row(CanrxqOf(s))' = Row(CanrxqOf(s))
        /\ Row(CurOf(s))' = Row(CurOf(s))
    BY AllPlaces, RowIs, SMTT(30)
  <2>4. Without(RemoveAt(q, i), q, f)
    BY <2>1, Taken
  <2>5. \A z \in Places(p) :
          z \in {OutOf(s), SockOf(p)} \/ Less(Row(z)', Row(z))
    BY <1>0, <2>2, <2>3, InPlaces, FewerSame DEF Less
  <2>6. Row(SockOf(p)) = sock[p]
        /\ (Row(SockOf(p))' = sock[p] \/ Row(SockOf(p))' = Append(sock[p], f))
    BY RowIs
  <2>7. CASE Row(SockOf(p))' = sock[p]
    BY <2>3, <2>4, <2>5, <2>6, <2>7, LessOnce, FewerSame DEF Less, Without
  <2>8. CASE Row(SockOf(p))' = Append(sock[p], f)
    <3>1. With(Append(sock[p], f), sock[p], f)
      BY <2>1, Taken
    <3>2. OutOf(s) # SockOf(p) /\ OutOf(s) \in Places(p)
          /\ SockOf(p) \in Places(p)
      BY InPlaces
    <3> PICK x : x = OutOf(s)
      OBVIOUS
    <3> PICK y : y = SockOf(p)
      OBVIOUS
    <3>7. x \in Places(p) /\ y \in Places(p) /\ x # y
      BY InPlaces
    <3>8. Without(Row(x)', Row(x), f) /\ With(Row(y)', Row(y), f)
      BY <2>3, <2>4, <2>6, <2>8, <3>1
    <3>9. \A z \in Places(p) : z \in {x, y} \/ Less(Row(z)', Row(z))
      BY <2>5
    <3> QED
      BY <2>1, <2>2, <3>7, <3>8, <3>9, HopOnce
  <2> QED
    BY <2>6, <2>7, <2>8
<1>5. CASE PiStep(s)
  <2>1. UNCHANGED <<wire, canrxq, out, cur, sock, call>>
    BY <1>5 DEF PiStep, PiBoots, HaltPulse, PiTurnsOff, procVars
  <2>2. \A z \in Places(p) : Row(z)' = Row(z)
    BY <2>1 DEF Row
  <2> QED
    BY <2>1, <2>2, LessOnce, FewerSame
<1>6. CASE LoseReply(s)
  <2>1. /\ out[s] # <<>> /\ out' = [out EXCEPT ![s] = Front(@)]
        /\ UNCHANGED <<wire, canrxq, cur, sock, call>>
    BY <1>6 DEF LoseReply, procVars
  <2>2. Row(OutOf(s))' = Front(out[s]) /\ Row(OutOf(s)) = out[s]
        /\ \A z \in Places(p) : z = OutOf(s) \/ Row(z)' = Row(z)
    <3>1. \A t \in Slot \ {s} : UNCHANGED <<wire[t], canrxq[t], cur[t], out[t]>>
      BY <2>1, AllPlaces
    <3>2. out'[s] = Front(out[s]) /\ UNCHANGED <<wire[s], canrxq[s], cur[s], sock[p]>>
      BY <2>1, AllPlaces
    <3>3. Row(OutOf(s))' = Front(out[s]) /\ Row(OutOf(s)) = out[s]
          /\ \A z \in At(s) \cup {SockOf(p)} : z = OutOf(s) \/ Row(z)' = Row(z)
      BY <3>2, RowIs DEF At
    <3>4. \A z \in Places(p) : z \in At(s) \cup {SockOf(p)} \/ Row(z)' = Row(z)
      BY <3>1, OtherPlaces
    <3> QED
      BY <3>3, <3>4
  <2>3. Less(Front(out[s]), out[s])
    BY <2>1, AllPlaces, Taken
  <2> QED
    BY <2>1, <2>2, <2>3, LessOnce, FewerSame DEF Less
<1> QED
  BY <1>1, <1>2, <1>3, <1>4, <1>5, <1>6 DEF SlotStep

LEMMA RowFrames ==
  /\ \A s \in Slot : /\ Told(s) = ValuesOf(Row(OutOf(s)))
                     /\ Asked(s) = ValuesOf(Row(WireOf(s))) \cup ValuesOf(Row(CanrxqOf(s)))
                                     \cup ValuesOf(Row(CurOf(s)))
  /\ \A p : Got(p) = ValuesOf(Row(SockOf(p)))
<1>1. \A c : ValuesOf(IF c = None THEN <<>> ELSE <<c>>) = {c} \ {None}
  <2> SUFFICES ASSUME NEW c PROVE ValuesOf(IF c = None THEN <<>> ELSE <<c>>) = {c} \ {None}
    OBVIOUS
  <2>1. CASE c = None
    BY <2>1 DEF ValuesOf
  <2>2. CASE c # None
    BY <2>2 DEF ValuesOf
  <2> QED
    BY <2>1, <2>2
<1> QED
  BY <1>1, RowIs DEF Told, Asked, Got

(* Frames of process p's request r. *)
OnItsWay(p, r) ==
  \/ \E s \in Slot : \E f \in Asked(s) \cup Told(s) : f.req = r
  \/ \E f \in Got(p) : f.req = r

LEMMA WayIs ==
  ASSUME NEW p, NEW r
  PROVE  OnItsWay(p, r) <=> \E z \in Places(p) : \E f \in ValuesOf(Row(z)) : f.req = r
<1>1. ASSUME OnItsWay(p, r) PROVE \E z \in Places(p) : \E f \in ValuesOf(Row(z)) : f.req = r
  <2>1. CASE \E s \in Slot : \E f \in Asked(s) \cup Told(s) : f.req = r
    <3> PICK s \in Slot : \E f \in Asked(s) \cup Told(s) : f.req = r
      BY <2>1
    <3>1. PICK f \in Asked(s) \cup Told(s) : f.req = r
      OBVIOUS
    <3>2. \E z \in At(s) : f \in ValuesOf(Row(z))
      BY RowFrames DEF At
    <3> QED
      BY <3>1, <3>2, InPlaces
  <2>2. CASE \E f \in Got(p) : f.req = r
    <3>1. SockOf(p) \in Places(p)
      BY DEF Places
    <3> QED
      BY <2>2, <3>1, RowFrames
  <2> QED
    BY <1>1, <2>1, <2>2 DEF OnItsWay
<1>2. ASSUME NEW z \in Places(p), NEW f \in ValuesOf(Row(z)), f.req = r PROVE OnItsWay(p, r)
  <2>1. CASE z = SockOf(p)
    BY <1>2, <2>1, RowFrames DEF OnItsWay
  <2>2. CASE \E s \in Slot : z \in At(s)
    <3>1. PICK s \in Slot : z \in At(s)
      BY <2>2
    <3>2. f \in Asked(s) \cup Told(s)
      BY <1>2, <3>1, RowFrames DEF At
    <3> QED
      BY <1>2, <3>2 DEF OnItsWay
  <2> QED
    BY <2>1, <2>2, PlacesAre
<1> QED
  BY <1>1, <1>2

LEMMA RowsTyped ==
  ASSUME Base, NEW p \in Process, NEW z \in Places(p)
  PROVE  ValuesOf(Row(z)) \subseteq Frame
<1>1. CASE z = SockOf(p)
  BY <1>1, AllPlaces, RowIs DEF ValuesOf
<1>2. CASE \E s \in Slot : z \in At(s)
  <2>1. PICK s \in Slot : z \in At(s)
    BY <1>2
  <2>2. CASE z = CurOf(s)
    <3>1. Row(z) = IF cur[s] = None THEN <<>> ELSE <<cur[s]>>
      BY <2>2, RowIs
    <3>2. cur[s] \in Frame \/ cur[s] = None
      BY AllPlaces
    <3> QED
      BY <3>1, <3>2 DEF ValuesOf
  <2>3. CASE z \in {WireOf(s), CanrxqOf(s), OutOf(s)}
    <3>1. Row(z) \in Seq(Frame)
      BY <2>3, RowIs, AllPlaces
    <3> QED
      BY <3>1 DEF ValuesOf
  <2> QED
    BY <2>1, <2>2, <2>3 DEF At
<1> QED
  BY <1>1, <1>2, PlacesAre

(* No frame carries a number its process has not reached. *)
LEMMA NotYet ==
  ASSUME Base, NEW p \in Process, NEW n \in Nat, n > call[p].n
  PROVE  ~OnItsWay(p, [proc |-> p, n |-> n])
<1>1. call[p].n \in Nat
  BY DEF Base, TypeInv, StatesOK, Call
<1>2. ASSUME NEW f, Numbered(f), f.req = [proc |-> p, n |-> n] PROVE FALSE
  BY <1>1, <1>2 DEF Numbered
<1> QED
  BY <1>2 DEF OnItsWay, Base, FramesOK

(* Another process sends a request. *)
LEMMA OtherSendOnce ==
  ASSUME Base, NEW p \in Process, Once(p), NEW q \in Process, q # p, NEW c \in Call,
         Sends(q, c), UNCHANGED <<canrxq, out, cur>>, UNCHANGED sock[p]
  PROVE  Once(p)'
<1> PICK f : f = FrameOf(q, c)
  OBVIOUS
<1>1. /\ f \in Frame /\ call' = [call EXCEPT ![q] = c]
      /\ UNCHANGED wire \/ \E s \in Slot : wire' = [wire EXCEPT ![s] = Append(@, f)]
  BY SendIs
<1>2. call'[p] = call[p]
  BY <1>1 DEF Base, TypeInv, StatesOK
<1>3. f \notin Tokens(p)
  BY DEF Tokens, Own, FrameOf
<1>4. \A s \in Slot : wire'[s] = wire[s] \/ wire'[s] = Append(wire[s], f)
  BY <1>1, AllPlaces
<1>5. ASSUME NEW z \in Places(p) PROVE Fewer(Row(z)', Row(z), Tokens(p))
  <2>1. CASE z = SockOf(p)
    <3>1. Row(z)' = Row(z)
      BY <2>1, RowIs
    <3> QED
      BY <3>1, FewerSame
  <2>2. CASE \E s \in Slot : z \in At(s)
    <3>1. PICK s \in Slot : z \in At(s)
      BY <2>2
    <3>2. CASE z = WireOf(s)
      <4>1. Row(z) = wire[s] /\ Row(z)' = wire'[s] /\ wire[s] \in Seq(Frame)
        BY <3>2, RowIs, AllPlaces
      <4>2. Fewer(Append(wire[s], f), wire[s], Tokens(p)) /\ Fewer(wire[s], wire[s], Tokens(p))
        BY <1>1, <1>3, <4>1, FewerAppended, FewerSame
      <4> QED
        BY <1>4, <4>1, <4>2
    <3>3. CASE z \in {CanrxqOf(s), CurOf(s), OutOf(s)}
      <4>1. Row(z)' = Row(z)
        BY <3>3, RowIs
      <4> QED
        BY <4>1, FewerSame
    <3> QED
      BY <3>1, <3>2, <3>3 DEF At
  <2> QED
    BY <2>1, <2>2, PlacesAre
<1> QED
  BY <1>2, <1>5, LessOnce

(* A process sends its next request. *)
LEMMA OwnSendOnce ==
  ASSUME Base, NEW p \in Process, NEW c \in Call, Sends(p, c), c.n > call[p].n,
         UNCHANGED <<canrxq, out, cur, sock>>
  PROVE  Once(p)'
<1> PICK f : f = FrameOf(p, c)
  OBVIOUS
<1>1. /\ f \in Frame /\ call' = [call EXCEPT ![p] = c]
      /\ UNCHANGED wire \/ \E s \in Slot : wire' = [wire EXCEPT ![s] = Append(@, f)]
  BY SendIs
<1> PICK r : r = [proc |-> p, n |-> c.n]
  OBVIOUS
<1> PICK T : T = {g \in Frame : g.req = r}
  OBVIOUS
<1>2. Tokens(p)' = T /\ Places(p)' = Places(p) /\ c.n \in Nat
  <2>1. call'[p] = c
    BY <1>1 DEF Base, TypeInv, StatesOK
  <2> QED
    BY <2>1 DEF Tokens, Own, Places, SockOf, Call
<1>3. ~OnItsWay(p, r)
  BY <1>2, NotYet
<1>4. \A z \in Places(p) : Among(Row(z), T) = {}
  BY <1>3, WayIs DEF Among
<1>5. \A z \in Places(p) : Row(z)' = Row(z) => Single(Row(z)', T) /\ Among(Row(z)', T) = {}
  BY <1>4 DEF Single, Among, ValuesOf
<1>6. CASE UNCHANGED wire
  <2>1. \A z \in Places(p) : Row(z)' = Row(z)
    BY <1>6 DEF Row
  <2> QED
    BY <1>2, <1>5, <2>1 DEF Once
<1>7. ASSUME NEW s \in Slot, wire' = [wire EXCEPT ![s] = Append(@, f)] PROVE Once(p)'
  <2> PICK y : y = WireOf(s)
    OBVIOUS
  <2>1. Row(y)' = Append(wire[s], f) /\ Row(y) = wire[s] /\ wire[s] \in Seq(Frame) /\ y \in Places(p)
    BY <1>7, AllPlaces, RowIs, InPlaces
  <2>2. Single(Row(y)', T)
    BY <1>1, <1>4, <2>1, FewerAppended
  <2>3. \A z \in Places(p) : z = y \/ Row(z)' = Row(z)
    <3>1. wire'[s] = Append(wire[s], f) /\ UNCHANGED <<canrxq[s], cur[s], out[s], sock[p]>>
      BY <1>7, AllPlaces
    <3>2. \A z \in At(s) \cup {SockOf(p)} : z = y \/ Row(z)' = Row(z)
      BY <3>1, RowIs DEF At
    <3>3. \A t \in Slot \ {s} : UNCHANGED <<wire[t], canrxq[t], cur[t], out[t]>>
      BY <1>7, AllPlaces
    <3>4. \A z \in Places(p) : z \in At(s) \cup {SockOf(p)} \/ Row(z)' = Row(z)
      BY <3>3, OtherPlaces
    <3> QED
      BY <3>2, <3>4
  <2>4. \A z \in Places(p) : Single(Row(z)', T) /\ (z = y \/ Among(Row(z)', T) = {})
    BY <1>5, <2>2, <2>3
  <2> QED
    BY <1>2, <2>4 DEF Once
<1> QED
  BY <1>1, <1>6, <1>7

-----------------------------------------------------------------------------
(***************************************************************************)
(* The steps of the processes.                                             *)
(***************************************************************************)
LEMMA CommandSends ==
  ASSUME Base, NEW p \in Helper, HelperCommand(p)
  PROVE  /\ pc[p] = "idle" /\ pc' = [pc EXCEPT ![p] = "wait"]
         /\ UNCHANGED <<canrxq, out, cur, pi, sock, answer, stamped, abandoned, executed>>
         /\ \E c \in Call : Sends(p, c) /\ c.n = call[p].n + 1
<1>1. PICK slot \in Target, op \in PowerRequests :
        Send(p, CtlAddress(slot), op[1], OBJ_POWER, op[2], call[p].n + 1)
  BY DEF HelperCommand, PowerRequests
<1>2. /\ pc[p] = "idle" /\ pc' = [pc EXCEPT ![p] = "wait"]
      /\ UNCHANGED <<canrxq, out, cur, pi, sock, answer, stamped, abandoned, executed>>
  BY DEF HelperCommand
<1> PICK c : c = [dst |-> CtlAddress(slot), type |-> op[1], object |-> OBJ_POWER,
                  data |-> op[2], n |-> call[p].n + 1]
  OBVIOUS
<1>3. call[p].n \in Nat
  BY Disjoint DEF Base, TypeInv, StatesOK, Call
<1>4. op[1] \in 0..7 /\ op[2] \in Seq(Int)
  <2>1. op[1] \in {RO, WO} /\ (op[2] = <<>> \/ op[2] = <<0>> \/ op[2] = <<1>>)
    BY DEF PowerRequests
  <2>2. <<>> \in Seq(Int) /\ <<0>> \in Seq(Int) /\ <<1>> \in Seq(Int)
    OBVIOUS
  <2> QED
    BY <2>1, <2>2, ConstantsOK
<1>5. c \in Call
  <2>1. CtlAddress(slot) \in 0..63 /\ OBJ_POWER \in 0..255 /\ call[p].n + 1 \in Nat
    BY <1>3, ConstantsOK
  <2> QED
    BY <1>4, <2>1 DEF Call
<1>6. Sends(p, c) /\ c.n = call[p].n + 1
  BY <1>1 DEF Sends
<1> QED
  BY <1>2, <1>5, <1>6

LEMMA PingSends ==
  ASSUME Base, NEW p \in Pinger, TimerCb(p)
  PROVE  \E c \in Call : Sends(p, c)
<1>1. PICK slot \in Target :
        Send(p, CtlAddress(slot), WO, OBJ_ECHO, <<call[p].n>>, call[p].n + 1)
  BY DEF TimerCb
<1> PICK c : c = [dst |-> CtlAddress(slot), type |-> WO, object |-> OBJ_ECHO,
                  data |-> <<call[p].n>>, n |-> call[p].n + 1]
  OBVIOUS
<1>2. call[p].n \in Nat
  BY Disjoint DEF Base, TypeInv, StatesOK, Call
<1>3. CtlAddress(slot) \in 0..63 /\ <<call[p].n>> \in Seq(Int) /\ call[p].n + 1 \in Nat
  BY <1>2, ConstantsOK
<1>4. c \in Call
  BY <1>3, ConstantsOK DEF Call
<1>5. Sends(p, c)
  BY <1>1 DEF Sends
<1> QED
  BY <1>4, <1>5

HelperSteps(p) == HelperStart(p) \/ HelperCommand(p) \/ HelperStep(p)
ShutterSteps(p) == ShutterStart(p) \/ ShutterStep(p)
PingerSteps(p) == PingStart(p) \/ TimerCb(p) \/ CanCb(p)
ProcessStep(p) ==
  \/ p \in Helper /\ HelperSteps(p)
  \/ p \in Shutter /\ ShutterSteps(p)
  \/ p \in Pinger /\ PingerSteps(p)

LEMMA NextIs ==
  ASSUME Next
  PROVE  \/ \E s \in Slot : SlotStep(s) \/ PiStep(s) \/ LoseReply(s)
         \/ \E p \in Process : ProcessStep(p)
<1>1. CASE \E s \in Slot : SlotStep(s) \/ PiStep(s) \/ LoseReply(s)
  BY <1>1
<1>2. CASE \E p \in Helper : HelperSteps(p)
  BY <1>2, Disjoint DEF ProcessStep
<1>3. CASE \E p \in Shutter : ShutterSteps(p)
  BY <1>3, Disjoint DEF ProcessStep
<1>4. CASE \E p \in Pinger : PingerSteps(p)
  BY <1>4, Disjoint DEF ProcessStep
<1> QED
  BY <1>1, <1>2, <1>3, <1>4 DEF Next, HelperSteps, ShutterSteps, PingerSteps

(* What a process leaves alone. *)
LEMMA Alone ==
  ASSUME Base, NEW p \in Process, ProcessStep(p)
  PROVE  /\ UNCHANGED <<canrxq, out, cur, pi, executed>>
         /\ UNCHANGED <<wire, call, since>> \/ \E c \in Call : Sends(p, c)
         /\ UNCHANGED sock \/ \E q : sock' = [sock EXCEPT ![p] = q]
         /\ UNCHANGED pc \/ \E x : pc' = [pc EXCEPT ![p] = x]
         /\ UNCHANGED answer \/ \E a : answer' = [answer EXCEPT ![p] = a]
<1>1. CASE p \in Helper /\ (HelperStart(p) \/ HelperStep(p))
  BY <1>1 DEF HelperStart, HelperStep, Skip, HelperTake, HelperTimeout, slotVars, histVars
<1>2. CASE p \in Helper /\ HelperCommand(p)
  BY <1>2, CommandSends
<1>3. CASE p \in Shutter /\ (Skip(p) \/ ShutterTimeout(p))
  BY <1>3 DEF Skip, ShutterTimeout, slotVars, histVars
<1>4. CASE p \in Shutter /\ ShutterStart(p)
  <2>1. PICK slot \in Target : Request(p, CtlAddress(slot), 1)
    BY <1>4 DEF ShutterStart
  <2> PICK c : c = ShutterCall(CtlAddress(slot), 1)
    OBVIOUS
  <2>2. c \in Call /\ Sends(p, c)
    BY <2>1, ConstantsOK, RequestSends
  <2>3. UNCHANGED <<canrxq, out, cur, pi, executed, sock, answer>>
        /\ pc' = [pc EXCEPT ![p] = "wait"]
    BY <1>4 DEF ShutterStart
  <2> QED
    BY <2>2, <2>3
<1>5. CASE p \in Shutter /\ ShutterTake(p)
  <2> PICK m : m = Head(sock[p]).m
    OBVIOUS
  <2> PICK k : k = Then(call[p].n, m)
    OBVIOUS
  <2>1. /\ UNCHANGED <<canrxq, out, cur, pi, executed, answer>> /\ call[p].dst \in 16..31
        /\ \/ /\ k \in {2, 3} /\ Request(p, call[p].dst, k)
              /\ sock' = [sock EXCEPT ![p] = Tail(@)] /\ UNCHANGED pc
           \/ /\ pc' = [pc EXCEPT ![p] = IF k = 4 THEN "done" ELSE "died"]
              /\ sock' = [sock EXCEPT ![p] = <<>>] /\ UNCHANGED <<call, wire, since>>
    BY <1>5, ShutterTakes
  <2>2. CASE /\ k \in {2, 3} /\ Request(p, call[p].dst, k)
             /\ sock' = [sock EXCEPT ![p] = Tail(@)] /\ UNCHANGED pc
    <3> PICK c : c = ShutterCall(call[p].dst, k)
      OBVIOUS
    <3>1. c \in Call /\ Sends(p, c)
      BY <2>1, <2>2, RequestSends
    <3> QED
      BY <2>1, <2>2, <3>1
  <2> QED
    BY <2>1, <2>2
<1>6. CASE p \in Pinger /\ (PingStart(p) \/ CanCb(p))
  BY <1>6 DEF PingStart, CanCb, slotVars, histVars
<1>7. CASE p \in Pinger /\ TimerCb(p)
  <2>1. UNCHANGED <<canrxq, out, cur, pi, executed, sock, pc, answer>>
    BY <1>7 DEF TimerCb
  <2> QED
    BY <1>7, <2>1, PingSends
<1> QED
  BY <1>1, <1>2, <1>3, <1>4, <1>5, <1>6, <1>7
     DEF ProcessStep, HelperSteps, ShutterSteps, PingerSteps, ShutterStep

LEMMA OthersStep ==
  ASSUME Base, NEW q \in Process, ProcessStep(q), NEW p \in Process, p # q
  PROVE  /\ UNCHANGED <<sock[p], call[p], pc[p], answer[p]>>
         /\ \A s \in Slot : \A f \in Asked(s)' : f \in Asked(s) \/ f.req.proc = q
         /\ \A s \in Slot : Told(s)' = Told(s)
<1>1. /\ UNCHANGED <<canrxq, out, cur, pi, executed>>
      /\ UNCHANGED <<wire, call, since>> \/ \E c \in Call : Sends(q, c)
      /\ UNCHANGED sock \/ \E x : sock' = [sock EXCEPT ![q] = x]
      /\ UNCHANGED pc \/ \E x : pc' = [pc EXCEPT ![q] = x]
      /\ UNCHANGED answer \/ \E a : answer' = [answer EXCEPT ![q] = a]
  BY Alone
<1>2. /\ call \in [Process -> Call] /\ answer = [r \in Process |-> answer[r]]
      /\ pc \in [Process -> {"new", "idle", "wait", "ping", "done", "died"}]
  BY DEF Base, TypeInv, StatesOK
<1>3. UNCHANGED <<sock[p], pc[p], answer[p]>>
  BY <1>1, <1>2, AllPlaces
<1>4. CASE UNCHANGED <<wire, call>>
  BY <1>1, <1>3, <1>4 DEF Asked, Told
<1>5. CASE \E c \in Call : Sends(q, c)
  <2>1. PICK c \in Call : Sends(q, c)
    BY <1>5
  <2> PICK f : f = FrameOf(q, c)
    OBVIOUS
  <2>2. /\ f \in Frame /\ call' = [call EXCEPT ![q] = c]
        /\ UNCHANGED wire \/ \E s \in Slot : wire' = [wire EXCEPT ![s] = Append(@, f)]
    BY <2>1, SendIs
  <2>3. f.req.proc = q
    BY DEF FrameOf
  <2>4. ASSUME NEW s \in Slot PROVE ValuesOf(wire'[s]) \subseteq ValuesOf(wire[s]) \cup {f}
    <3>1. wire'[s] = wire[s] \/ wire'[s] = Append(wire[s], f)
      BY <2>2, AllPlaces
    <3>2. wire[s] \in Seq(Frame)
      BY AllPlaces
    <3>3. ValuesOf(Append(wire[s], f)) = ValuesOf(wire[s]) \cup {f}
      BY <2>2, <3>2, Longer
    <3> QED
      BY <3>1, <3>3
  <2> QED
    BY <1>1, <1>2, <1>3, <2>2, <2>3, <2>4 DEF Asked, Told
<1> QED
  BY <1>1, <1>4, <1>5

LEMMA SlotLeaves ==
  ASSUME NEW s \in Slot, SlotStep(s) \/ PiStep(s) \/ LoseReply(s)
  PROVE  UNCHANGED <<answer, call, pc, abandoned>>
BY DEF SlotStep, RxIsr, Handle, Settle, Deliver, PiStep, PiBoots, HaltPulse,
       PiTurnsOff, LoseReply, procVars, histVars

-----------------------------------------------------------------------------
(***************************************************************************)
(* A helper waits for nobody's answer but its own, except where it gave    *)
(* a request up; and its own answer says what was done or seen.            *)
(***************************************************************************)
Pending(p) ==
  \A r : OnItsWay(p, r) /\ r.proc = p
           => r \in abandoned \/ (r = Own(p) /\ pc[p] = "wait")

TellsIt(p, g) ==
  IF call[p].type = WO THEN g.req \in executed
  ELSE \E state \in since[p] : g.m.data = bit(state # "off")
Tells(p) ==
  /\ \A s \in Slot :
       /\ \A f \in Asked(s) : f.req = Own(p) => f.m.dst = call[p].dst /\ f.m.type = call[p].type
       /\ \A g \in Told(s) : g.req = Own(p) => TellsIt(p, g)
  /\ \A g \in Got(p) : g.req = Own(p) => TellsIt(p, g)

Right(p) ==
  Answered(p) =>
    IF OwnReply(p)
      THEN answer[p].f.m.type = ACK =>
             IF answer[p].to.type = WO THEN answer[p].f.req \in executed
             ELSE \E state \in answer[p].since : answer[p].f.m.data = bit(state # "off")
      ELSE LET f == answer[p].f
           IN /\ f.m.src = answer[p].to.dst /\ f.m.object = answer[p].to.object
              /\ f.req \in abandoned \/ f.req.proc # p
              /\ Address[f.req.proc] = Address[p]
HelperInv(p) == Once(p) /\ Pending(p) /\ Tells(p) /\ Right(p)

LEMMA OnceStep ==
  ASSUME Base, NEW p \in Helper, Once(p), Next
  PROVE  Once(p)'
<1>0. p \in Process
  BY Disjoint
<1>1. ASSUME NEW s \in Slot, SlotStep(s) \/ PiStep(s) \/ LoseReply(s) PROVE Once(p)'
  BY <1>0, <1>1, SlotOnce
<1>2. ASSUME NEW q \in Process, ProcessStep(q), q # p PROVE Once(p)'
  <2>1. /\ UNCHANGED <<canrxq, out, cur>>
        /\ UNCHANGED <<wire, call, since>> \/ \E c \in Call : Sends(q, c)
    BY <1>2, Alone
  <2>2. UNCHANGED <<sock[p], call[p]>>
    BY <1>0, <1>2, OthersStep
  <2>3. CASE UNCHANGED wire
    <3>1. \A z \in Places(p) : Row(z)' = Row(z)
      <4> SUFFICES ASSUME NEW z \in Places(p) PROVE Row(z)' = Row(z)
        OBVIOUS
      <4>1. CASE z = SockOf(p)
        BY <2>2, <4>1, RowIs
      <4>2. CASE \E s \in Slot : z \in At(s)
        <5>1. PICK s \in Slot : z \in At(s)
          BY <4>2
        <5> QED
          BY <2>1, <2>3, <5>1, SameAt
      <4> QED
        BY <4>1, <4>2, PlacesAre
    <3> QED
      BY <2>2, <3>1, FewerSame, LessOnce
  <2>4. ASSUME NEW c \in Call, Sends(q, c) PROVE Once(p)'
    BY <1>0, <1>2, <2>1, <2>2, <2>4, OtherSendOnce
  <2> QED
    BY <2>1, <2>3, <2>4
<1>3. CASE HelperCommand(p)
  <2>1. PICK c \in Call : Sends(p, c) /\ c.n = call[p].n + 1
    BY <1>3, CommandSends
  <2>2. UNCHANGED <<canrxq, out, cur, sock>>
    BY <1>3, CommandSends
  <2>3. c.n > call[p].n
    BY <1>0, <2>1 DEF Base, TypeInv, StatesOK, Call
  <2> QED
    BY <1>0, <2>1, <2>2, <2>3, OwnSendOnce
<1>4. CASE HelperStart(p) \/ HelperStep(p)
  <2>1. /\ UNCHANGED <<wire, canrxq, out, cur, call>>
        /\ UNCHANGED sock \/ (sock[p] # <<>> /\ sock' = [sock EXCEPT ![p] = Tail(@)])
    BY <1>4 DEF HelperStart, HelperStep, Skip, HelperTake, HelperTimeout, Take, slotVars
  <2>2. sock'[p] = sock[p] \/ (sock[p] # <<>> /\ sock'[p] = Tail(sock[p]))
    BY <1>0, <2>1, AllPlaces
  <2>3. Fewer(sock'[p], sock[p], Tokens(p))
    <3>1. sock[p] \in Seq(Frame)
      BY <1>0, AllPlaces
    <3>2. sock[p] # <<>> => Fewer(Tail(sock[p]), sock[p], Tokens(p))
      BY <3>1, FewerTail
    <3> QED
      BY <2>2, <3>2, FewerSame
  <2>4. \A z \in Places(p) : Fewer(Row(z)', Row(z), Tokens(p))
    <3> SUFFICES ASSUME NEW z \in Places(p) PROVE Fewer(Row(z)', Row(z), Tokens(p))
      OBVIOUS
    <3>1. CASE z = SockOf(p)
      BY <2>3, <3>1, RowIs
    <3>2. CASE \E s \in Slot : z \in At(s)
      <4>1. PICK s \in Slot : z \in At(s)
        BY <3>2
      <4>2. Row(z)' = Row(z)
        BY <2>1, <4>1, SameAt
      <4> QED
        BY <4>2, FewerSame
    <3> QED
      BY <3>1, <3>2, PlacesAre
  <2> QED
    BY <2>1, <2>4, LessOnce
<1>5. ASSUME ProcessStep(p) PROVE Once(p)'
  BY <1>3, <1>4, <1>5, Disjoint DEF ProcessStep, HelperSteps
<1> QED
  BY <1>1, <1>2, <1>5, NextIs

(* Nothing of a helper's is on its way that was not, but a new request. *)
LEMMA WayKeeps ==
  ASSUME Flow, NEW p \in Process, p \notin Shutter, NEW r, r.proc = p, OnItsWay(p, r)'
  PROVE  OnItsWay(p, r) \/ (r = Own(p)' /\ r.n # call[p].n)
<1>1. ASSUME NEW s \in Slot, NEW f \in Asked(s)', f.req = r
      PROVE  OnItsWay(p, r) \/ (r = Own(p)' /\ r.n # call[p].n)
  <2>1. f \in Asked(s) \/ IsNew(s, f)
    BY DEF Flow
  <2> QED
    BY <1>1, <2>1 DEF OnItsWay, IsNew
<1>2. ASSUME NEW s \in Slot, NEW g \in Told(s)', g.req = r PROVE OnItsWay(p, r)
  <2>1. g \in Told(s) \/ \E f \in Asked(s) : f.req = g.req
    BY DEF Flow, Answers
  <2> QED
    BY <1>2, <2>1 DEF OnItsWay
<1>3. ASSUME NEW g \in Got(p)', g.req = r PROVE OnItsWay(p, r)
  <2>1. g \in Got(p) \/ \E s \in Slot : g \in Told(s)
    BY <1>3 DEF Flow
  <2> QED
    BY <1>3, <2>1 DEF OnItsWay
<1> QED
  BY <1>1, <1>2, <1>3 DEF OnItsWay

LEMMA PendingStep ==
  ASSUME Base, NEW p \in Helper, Once(p), Pending(p), Next
  PROVE  Pending(p)'
<1>0. Flow /\ Grows /\ p \in Process /\ p \notin Shutter
  BY BaseStep, Disjoint
<1>1. ASSUME UNCHANGED call[p], NEW r, r.proc = p, OnItsWay(p, r)'
      PROVE  OnItsWay(p, r) /\ Own(p)' = Own(p)
  <2>1. Own(p)' = Own(p) /\ Own(p).n = call[p].n
    BY <1>1 DEF Own
  <2> QED
    BY <1>0, <1>1, <2>1, WayKeeps
<1>2. ASSUME UNCHANGED <<call[p], pc[p]>> PROVE Pending(p)'
  BY <1>0, <1>1, <1>2 DEF Pending, Grows
<1>3. ASSUME NEW s \in Slot, SlotStep(s) \/ PiStep(s) \/ LoseReply(s) PROVE Pending(p)'
  BY <1>2, <1>3, SlotLeaves
<1>4. ASSUME NEW q \in Process, ProcessStep(q), q # p PROVE Pending(p)'
  BY <1>0, <1>2, <1>4, OthersStep
<1>5. CASE HelperStart(p) \/ Skip(p)
  <2>1. UNCHANGED <<call, abandoned>> /\ (UNCHANGED pc \/ pc[p] = "new")
    BY <1>5 DEF HelperStart, Skip, histVars
  <2>2. CASE UNCHANGED pc
    BY <1>2, <2>1, <2>2
  <2>3. CASE pc[p] = "new"
    BY <1>1, <2>1, <2>3 DEF Pending
  <2> QED
    BY <2>1, <2>2, <2>3
<1>6. CASE HelperTimeout(p)
  <2>1. UNCHANGED call /\ abandoned' = abandoned \cup {Own(p)}
    BY <1>6 DEF HelperTimeout
  <2> QED
    BY <1>1, <2>1 DEF Pending
<1>7. CASE HelperTake(p)
  <2> PICK q : q = sock[p]
    OBVIOUS
  <2> PICK f : f = Head(q)
    OBVIOUS
  <2>1. /\ UNCHANGED <<wire, canrxq, out, cur, call>> /\ q # <<>>
        /\ sock' = [sock EXCEPT ![p] = Tail(@)]
        /\ abandoned' = abandoned \cup ({Own(p)} \ {f.req})
    BY <1>7 DEF HelperTake, Take, slotVars
  <2>2. q \in Seq(Frame) /\ sock'[p] = Tail(q) /\ f \in Frame
    BY <1>0, <2>1, AllPlaces, SeqValues
  <2>3. CASE f.req # Own(p)
    BY <1>1, <2>1, <2>3 DEF Pending
  <2>4. CASE f.req = Own(p)
    <3> PICK T : T = Tokens(p)
      OBVIOUS
    <3> PICK y : y = SockOf(p)
      OBVIOUS
    <3>1. f \in T /\ Row(y) = q /\ y \in Places(p)
      BY <2>2, <2>4, RowIs DEF Tokens, Places
    <3>2. f \in Among(q, T) /\ Among(Tail(q), T) = {}
      BY <2>1, <2>2, <3>1, FewerTail, HeadAmong DEF Once
    <3>3. \A z \in Places(p) : z = y \/ Among(Row(z), T) = {}
      BY <3>1, <3>2 DEF Once
    <3>4. ASSUME NEW s \in Slot, NEW g \in Asked(s) \cup Told(s) PROVE g.req # Own(p)
      <4>1. \E z \in At(s) : g \in ValuesOf(Row(z))
        BY <3>4, RowFrames DEF At
      <4>2. PICK z \in At(s) : g \in ValuesOf(Row(z))
        BY <4>1
      <4>3. z \in Places(p) /\ z # y
        BY <4>2, InPlaces
      <4>4. g \in Frame /\ g \notin T
        BY <1>0, <3>3, <4>2, <4>3, RowsTyped DEF Among
      <4> QED
        BY <4>4 DEF Tokens
    <3>5. ASSUME NEW g \in ValuesOf(Tail(q)) PROVE g.req # Own(p)
      <4>1. g \in Frame
        <5>1. Tail(q) \in Seq(Frame)
          BY <2>1, <2>2
        <5> QED
          BY <5>1 DEF ValuesOf
      <4> QED
        BY <3>2, <3>5, <4>1 DEF Among, Tokens
    <3>6. /\ \A s \in Slot : Asked(s)' = Asked(s) /\ Told(s)' = Told(s)
          /\ Got(p)' = ValuesOf(Tail(q))
      BY <2>1, <2>2 DEF Asked, Told, Got
    <3>7. ~OnItsWay(p, Own(p))'
      <4>1. Own(p)' = Own(p)
        BY <2>1 DEF Own
      <4> QED
        BY <3>4, <3>5, <3>6, <4>1 DEF OnItsWay
    <3> QED
      BY <1>1, <2>1, <3>7 DEF Pending
  <2> QED
    BY <2>3, <2>4
<1>8. CASE HelperCommand(p)
  <2>1. pc[p] = "idle" /\ pc'[p] = "wait" /\ UNCHANGED abandoned
    BY <1>0, <1>8, CommandSends DEF Base, TypeInv, StatesOK
  <2> QED
    BY <1>0, <2>1, WayKeeps DEF Pending
<1>9. ASSUME ProcessStep(p) PROVE Pending(p)'
  BY <1>5, <1>6, <1>7, <1>8, <1>9, Disjoint DEF ProcessStep, HelperSteps, HelperStep
<1> QED
  BY <1>3, <1>4, <1>9, NextIs

(* A helper's latest request stays, or makes room for its next. *)
LEMMA CallStep ==
  ASSUME Base, NEW p \in Helper, Next
  PROVE  UNCHANGED call[p] \/ call'[p].n > call[p].n
<1>0. p \in Process /\ call \in [Process -> Call]
  BY Disjoint DEF Base, TypeInv, StatesOK
<1>1. ASSUME NEW s \in Slot, SlotStep(s) \/ PiStep(s) \/ LoseReply(s) PROVE UNCHANGED call[p]
  BY <1>1, SlotLeaves
<1>2. ASSUME NEW q \in Process, ProcessStep(q), q # p PROVE UNCHANGED call[p]
  BY <1>0, <1>2, OthersStep
<1>3. CASE HelperStart(p) \/ HelperStep(p)
  BY <1>3 DEF HelperStart, HelperStep, Skip, HelperTake, HelperTimeout
<1>4. CASE HelperCommand(p)
  <2>1. PICK c \in Call : Sends(p, c) /\ c.n = call[p].n + 1
    BY <1>4, CommandSends
  <2>2. call' = [call EXCEPT ![p] = c]
    BY <1>0, <2>1, SendIs
  <2> QED
    BY <1>0, <2>1, <2>2 DEF Call
<1>5. ASSUME ProcessStep(p) PROVE UNCHANGED call[p] \/ call'[p].n > call[p].n
  BY <1>3, <1>4, <1>5, Disjoint DEF ProcessStep, HelperSteps
<1> QED
  BY <1>1, <1>2, <1>5, NextIs

LEMMA TellsStep ==
  ASSUME Base, NEW p \in Helper, Tells(p), Next
  PROVE  Tells(p)'
<1>0. /\ Flow /\ Grows /\ p \in Process /\ p \notin Shutter /\ FramesOK /\ SinceOK
      /\ call[p].n \in Nat /\ call'[p].n \in Nat
  <2>1. Base' /\ Flow /\ Grows
    BY BaseStep
  <2> QED
    BY <2>1, Disjoint DEF Base, TypeInv, StatesOK, Call
<1>1. ASSUME NEW s \in Slot, NEW f \in Asked(s)', f.req = Own(p)',
             UNCHANGED call[p] \/ call'[p].n > call[p].n
      PROVE  f.m.dst = call'[p].dst /\ f.m.type = call'[p].type
             /\ (f \in Asked(s) => UNCHANGED call[p])
  <2>1. f \in Asked(s) \/ IsNew(s, f)
    BY <1>0, <1>1 DEF Flow
  <2>2. CASE f \in Asked(s)
    <3>1. Numbered(f)
      BY <1>0, <2>2 DEF FramesOK
    <3>2. call[p].n \in Nat /\ f.req.proc = p /\ f.req.n = call'[p].n
      BY <1>0, <1>1 DEF Own
    <3>3. UNCHANGED call[p]
      BY <1>0, <1>1, <3>1, <3>2 DEF Numbered
    <3> QED
      BY <1>1, <2>2, <3>3 DEF Tells, Own
  <2>3. CASE IsNew(s, f) /\ f \notin Asked(s)
    BY <1>1, <2>3 DEF IsNew, Own
  <2> QED
    BY <2>1, <2>2, <2>3
<1>2. ASSUME NEW g, g.req = Own(p), TellsIt(p, g), UNCHANGED call[p] PROVE TellsIt(p, g)'
  BY <1>0, <1>2 DEF TellsIt, Grows
<1>3. ASSUME NEW f, Numbered(f), f.req = Own(p)', UNCHANGED call[p] \/ call'[p].n > call[p].n
      PROVE  UNCHANGED call[p] /\ f.req = Own(p)
  <2>1. f.req.proc = p /\ f.req.n = call'[p].n
    BY <1>3 DEF Own
  <2>2. UNCHANGED call[p]
    BY <1>0, <1>3, <2>1 DEF Numbered
  <2> QED
    BY <1>3, <2>2 DEF Own
<1>4. ASSUME NEW s \in Slot, NEW g \in Told(s)', g.req = Own(p)' PROVE TellsIt(p, g)'
  <2>1. CASE g \in Told(s)
    <3>1. Numbered(g)
      BY <1>0, <2>1 DEF FramesOK
    <3> QED
      BY <1>2, <1>3, <1>4, <2>1, <3>1, CallStep DEF Tells
  <2>2. ASSUME NEW f \in Asked(s), Answers(s, f, g) PROVE TellsIt(p, g)'
    <3>1. g.req = f.req /\ Numbered(f) /\ RequestOK(f) /\ f.m.dst = s + ADDR_CONTROL
      BY <1>0, <2>2 DEF Answers, FramesOK
    <3>2. UNCHANGED call[p] /\ f.req = Own(p)
      BY <1>3, <1>4, <3>1, CallStep
    <3>3. f.m.dst = call[p].dst /\ f.m.type = call[p].type
      BY <3>2 DEF Tells
    <3>4. f.m.object = OBJ_POWER /\ f.m.type \in {RO, WO}
      <4>1. AskedBy(p, f.req.n, f.m)
        BY <3>1, <3>2 DEF RequestOK, Own
      <4> QED
        BY <4>1 DEF AskedBy, PowerRequests
    <3>5. CASE f.m.type = WO
      BY <2>2, <3>1, <3>2, <3>3, <3>4, <3>5 DEF Answers, TellsIt
    <3>6. CASE f.m.type = RO
      <4>1. g.m.data = bit(pi[s] # "off")
        BY <2>2, <3>4, <3>6 DEF Answers
      <4>2. pi[s] \in since[p] /\ since[p] \subseteq since'[p]
        BY <1>0, <3>1, <3>2, <3>3 DEF SinceOK, Grows
      <4>3. call'[p].type # WO
        BY <3>2, <3>3, <3>6, ConstantsOK
      <4> QED
        BY <4>1, <4>2, <4>3 DEF TellsIt
    <3> QED
      BY <3>4, <3>5, <3>6
  <2> QED
    BY <1>0, <1>4, <2>1, <2>2 DEF Flow
<1>5. ASSUME NEW g \in Got(p)', g.req = Own(p)' PROVE TellsIt(p, g)'
  <2>1. g \in Got(p) \/ \E s \in Slot : g \in Told(s)
    BY <1>0, <1>5 DEF Flow
  <2>2. Numbered(g)
    BY <1>0, <2>1 DEF FramesOK
  <2>3. UNCHANGED call[p] /\ g.req = Own(p)
    BY <1>3, <1>5, <2>2, CallStep
  <2> QED
    BY <1>2, <2>1, <2>3 DEF Tells
<1> QED
  BY <1>1, <1>4, <1>5, CallStep DEF Tells

LEMMA RightStep ==
  ASSUME Base, NEW p \in Helper, Pending(p), Tells(p), Right(p), Next
  PROVE  Right(p)'
<1>0. Grows /\ p \in Process /\ answer = [q \in Process |-> answer[q]]
  BY BaseStep, Disjoint DEF Base, TypeInv, StatesOK
<1>1. ASSUME UNCHANGED answer[p] PROVE Right(p)'
  BY <1>0, <1>1 DEF Right, Answered, OwnReply, Grows
<1>2. ASSUME NEW s \in Slot, SlotStep(s) \/ PiStep(s) \/ LoseReply(s) PROVE Right(p)'
  BY <1>1, <1>2, SlotLeaves
<1>3. ASSUME NEW q \in Process, ProcessStep(q), q # p PROVE Right(p)'
  BY <1>0, <1>1, <1>3, OthersStep
<1>4. CASE HelperStart(p) \/ HelperCommand(p) \/ Skip(p) \/ HelperTimeout(p)
  BY <1>1, <1>4 DEF HelperStart, HelperCommand, Skip, HelperTimeout
<1>5. CASE HelperTake(p)
  <2> PICK q : q = sock[p]
    OBVIOUS
  <2> PICK f : f = Head(q)
    OBVIOUS
  <2> PICK a : a = [type |-> "reply", f |-> f, to |-> call[p], since |-> since[p]]
    OBVIOUS
  <2>1. /\ UNCHANGED executed /\ abandoned \subseteq abandoned' /\ q # <<>>
        /\ answer' = [answer EXCEPT ![p] = a] /\ Matches(p, f.m)
    BY <1>5 DEF HelperTake, Take
  <2>2. answer'[p] = a /\ f \in Got(p)
    <3>1. q \in Seq(Frame)
      BY <1>0, AllPlaces
    <3>2. f \in Got(p)
      BY <2>1, <3>1, SeqValues DEF Got
    <3> QED
      BY <1>0, <2>1, <3>2
  <2>3. f.m.dst = Address[p] /\ f.m.dst = Address[f.req.proc]
    BY <1>0, <2>2 DEF Base, FramesOK, AnswerOK
  <2>4. CASE f.req = Own(p)
    <3>1. TellsIt(p, f)
      BY <2>2, <2>4 DEF Tells
    <3> QED
      BY <2>1, <2>2, <2>4, <3>1 DEF Right, OwnReply, Own, TellsIt
  <2>5. CASE f.req # Own(p)
    <3>1. f.req.proc = p => f.req \in abandoned
      BY <2>2, <2>5 DEF Pending, OnItsWay
    <3> QED
      BY <2>1, <2>2, <2>3, <2>5, <3>1 DEF Right, OwnReply, Own, Matches
  <2> QED
    BY <2>4, <2>5
<1>6. ASSUME ProcessStep(p) PROVE Right(p)'
  BY <1>4, <1>5, <1>6, Disjoint DEF ProcessStep, HelperSteps, HelperStep
<1> QED
  BY <1>2, <1>3, <1>6, NextIs

HelpersOK == \A p \in Helper : HelperInv(p)

LEMMA HelpersInitial == Init => HelpersOK
<1> SUFFICES ASSUME Init, NEW p \in Helper PROVE HelperInv(p)
  BY DEF HelpersOK
<1>1. /\ \A s \in Slot : wire[s] = <<>> /\ canrxq[s] = <<>> /\ out[s] = <<>> /\ cur[s] = None
      /\ p \in Process /\ sock[p] = <<>> /\ answer[p] = None
  BY Disjoint DEF Init
<1>2. \A z \in Places(p) : Row(z) = <<>>
  <2> SUFFICES ASSUME NEW z \in Places(p) PROVE Row(z) = <<>>
    OBVIOUS
  <2>1. CASE z = SockOf(p)
    BY <1>1, <2>1, RowIs
  <2>2. CASE \E s \in Slot : z \in At(s)
    BY <1>1, <2>2, RowIs DEF At
  <2> QED
    BY <2>1, <2>2, PlacesAre
<1>3. \A T : Single(<<>>, T) /\ Among(<<>>, T) = {} /\ ValuesOf(<<>>) = {}
  BY DEF Single, Among, ValuesOf
<1>4. Once(p)
  BY <1>2, <1>3 DEF Once
<1>5. \A s \in Slot : Asked(s) = {} /\ Told(s) = {}
  BY <1>1, <1>3 DEF Asked, Told
<1>6. Got(p) = {}
  BY <1>1, <1>3 DEF Got
<1>7. Pending(p) /\ Tells(p)
  BY <1>5, <1>6 DEF Pending, OnItsWay, Tells
<1>8. Right(p)
  BY <1>1 DEF Right, Answered, None
<1> QED
  BY <1>4, <1>7, <1>8 DEF HelperInv

LEMMA HelpersStep ==
  ASSUME Base, HelpersOK, [Next]_vars
  PROVE  HelpersOK'
<1>1. CASE Next
  BY <1>1, OnceStep, PendingStep, TellsStep, RightStep DEF HelpersOK, HelperInv
<1>2. CASE UNCHANGED vars
  <2>1. UNCHANGED <<wire, canrxq, out, cur, pc, sock, call, answer, abandoned, executed, since>>
    BY <1>2 DEF vars, slotVars, procVars, histVars
  <2> SUFFICES ASSUME NEW p \in Helper, HelperInv(p) PROVE HelperInv(p)'
    BY DEF HelpersOK
  <2>2. \A z : Row(z)' = Row(z)
    BY <2>1 DEF Row
  <2>3. Tokens(p)' = Tokens(p) /\ Places(p)' = Places(p) /\ Own(p)' = Own(p)
    BY <2>1 DEF Tokens, Own, Places, SockOf
  <2>4. Once(p)'
    BY <2>2, <2>3 DEF HelperInv, Once
  <2>5. (\A s \in Slot : Asked(s)' = Asked(s) /\ Told(s)' = Told(s)) /\ Got(p)' = Got(p)
    BY <2>1 DEF Asked, Told, Got
  <2>6. Pending(p)'
    BY <2>1, <2>3, <2>5 DEF HelperInv, Pending, OnItsWay
  <2>7. Tells(p)'
    BY <2>1, <2>3, <2>5 DEF HelperInv, Tells, TellsIt
  <2>8. Right(p)'
    BY <2>1 DEF HelperInv, Right, Answered, OwnReply
  <2> QED
    BY <2>4, <2>6, <2>7, <2>8 DEF HelperInv
<1> QED
  BY <1>1, <1>2

LEMMA HelpersAlways == Spec => [](Base /\ HelpersOK)
<1>1. Init => Base /\ HelpersOK
  BY BaseInit, HelpersInitial
<1>2. Base /\ HelpersOK /\ [Next]_vars => (Base /\ HelpersOK)'
  BY BaseStep, BaseStutter, HelpersStep
<1> QED
  BY <1>1, <1>2, PTL DEF Spec

(* The answer a call of canobj returns is to another request only where the
   process gave that one up, or shares its address with the one that sent
   it (canobj_write, canobj_read). *)
THEOREM AnswersAreOwn == Spec => []OwnAnswer
<1>1. HelpersOK => OwnAnswer
  BY DEF HelpersOK, HelperInv, Right, OwnAnswer
<1> QED
  BY <1>1, HelpersAlways, PTL

(* powerman-helper tells what was done, or what was so while it asked
   (canservices_power). *)
THEOREM ReportsAreTrue == Spec => []ReportsWhatIs
<1>1. HelpersOK => ReportsWhatIs
  BY DEF HelpersOK, HelperInv, Right, ReportsWhatIs
<1> QED
  BY <1>1, HelpersAlways, PTL

-----------------------------------------------------------------------------
(***************************************************************************)
(* The shutdown command. A reply that says the power is off is only made   *)
(* when it is; one that was made before the command is ahead of the answer *)
(* to its first request and stays there, since in arbitration the object   *)
(* of power comes before that of shutdown: the command passes over it.     *)
(***************************************************************************)
OneEach == \A p, q \in Shutter : Address[p] = Address[q] => p = q

To(p, m) == m.dst = Address[p] /\ m.src = call[p].dst
Obeyed(p) == {f \in Frame : To(p, f.m) /\ f.m.type = ACK /\ f.m.object = OBJ_SHUTDOWN}
Offs(p) == {f \in Frame : /\ To(p, f.m) /\ f.m.type = ACK /\ f.m.object = OBJ_POWER
                          /\ Byte(f.m) # -1 /\ Byte(f.m) # 1}
NoneAfter(q, S, B) == \A i, j \in 1..Len(q) : q[i] \in S /\ q[j] \in B => j < i
First(p) == [proc |-> p, n |-> 1]

Passes(p) ==
  /\ NoneAfter(sock[p], Obeyed(p), Offs(p))
  /\ \A s \in Slot : NoneAfter(out[s], Obeyed(p), Offs(p))
  /\ call[p].n >= 2 \/ (\E f \in Got(p) : f \in Obeyed(p))
       => \A s \in Slot : Told(s) \cap Offs(p) = {}
  /\ call[p].n >= 2 => Got(p) \cap Offs(p) = {}

Carried(p) ==
  /\ \A s \in Slot : \A g \in Told(s) : g.req = First(p) => First(p) \in executed
  /\ \A g \in Got(p) : g.req = First(p) => First(p) \in executed
Obeys(p) ==
  /\ pc[p] = "wait" => call[p].object = IF call[p].n = 3 THEN OBJ_POWER ELSE OBJ_SHUTDOWN
  /\ call[p].n >= 2 => First(p) \in executed
  /\ Carried(p)
Ends(p) == pc[p] = "done" => First(p) \in executed /\ "off" \in since[p]
ShutterInv(p) ==
  Obeys(p) /\ (pc[p] = "wait" /\ "off" \notin since[p] => Passes(p)) /\ Ends(p)

LEMMA NoneAfterParts ==
  ASSUME NEW q \in Seq(Frame), NEW S, NEW B, NoneAfter(q, S, B)
  PROVE  /\ q # <<>> => NoneAfter(Tail(q), S, B) /\ NoneAfter(Front(q), S, B)
         /\ \A i \in 1..Len(q) : NoneAfter(RemoveAt(q, i), S, B)
         /\ \A f \in Frame : f \notin B => NoneAfter(Append(q, f), S, B)
<1>1. ASSUME q # <<>> PROVE NoneAfter(Tail(q), S, B)
  <2> DEFINE t == Tail(q)
  <2>1. /\ Len(q) \in Nat /\ Len(t) = Len(q) - 1
        /\ \A j \in 1..(Len(q) - 1) : t[j] = q[j + 1] /\ j + 1 \in 1..Len(q)
    BY <1>1
  <2> HIDE DEF t
  <2>2. ASSUME NEW i \in 1..Len(t), NEW j \in 1..Len(t), t[i] \in S, t[j] \in B
        PROVE  j < i
    <3>1. /\ i + 1 \in 1..Len(q) /\ t[i] = q[i + 1]
          /\ j + 1 \in 1..Len(q) /\ t[j] = q[j + 1]
      BY <2>1
    <3>2. j + 1 < i + 1
      BY <2>2, <3>1 DEF NoneAfter
    <3> QED
      BY <2>1, <3>2
  <2>3. NoneAfter(t, S, B)
    BY <2>2 DEF NoneAfter
  <2> QED
    BY <2>3 DEF t
<1>2. ASSUME q # <<>> PROVE NoneAfter(Front(q), S, B)
  <2> PICK n : n = Len(q) - 1
    OBVIOUS
  <2>1. n \in 0..Len(q) /\ Len(q) \in Nat
    BY <1>2
  <2> DEFINE t == SubSeq(q, 1, n)
  <2>2. t \in Seq(Frame) /\ Len(t) = n /\ \A p \in 1..n : t[p] = q[p]
    BY <2>1, Slices, Zenon
  <2>3. Front(q) = t
    BY DEF Front
  <2> HIDE DEF t
  <2>4. NoneAfter(t, S, B)
    BY <2>1, <2>2, SMTT(30) DEF NoneAfter
  <2> QED
    BY <2>3, <2>4
<1>3. ASSUME NEW i \in 1..Len(q) PROVE NoneAfter(RemoveAt(q, i), S, B)
  <2> DEFINE t == RemoveAt(q, i)
  <2>1. /\ Len(q) \in Nat /\ Len(t) = Len(q) - 1
        /\ \A j \in 1..(Len(q) - 1) : t[j] = IF j < i THEN q[j] ELSE q[j + 1]
    BY RemoveAtValues
  <2> HIDE DEF t
  <2>2. NoneAfter(t, S, B)
    BY <2>1, SMTT(30) DEF NoneAfter
  <2> QED
    BY <2>2 DEF t
<1>4. ASSUME NEW f \in Frame, f \notin B PROVE NoneAfter(Append(q, f), S, B)
  <2> DEFINE t == Append(q, f)
             n == Len(q) + 1
  <2>1. /\ Len(q) \in Nat /\ Len(t) = n /\ t[n] = f
        /\ \A p \in 1..Len(q) : t[p] = q[p]
        /\ \A p \in 1..n : p # n => p \in 1..Len(q)
    BY AppendProperties
  <2> HIDE DEF t
  <2>2. NoneAfter(t, S, B)
    BY <1>4, <2>1 DEF NoneAfter
  <2> QED
    BY <2>2 DEF t
<1> QED
  BY <1>1, <1>2, <1>3, <1>4

LEMMA NoneAtAll ==
  ASSUME NEW q, NEW S, NEW B, ValuesOf(q) \cap S = {}
  PROVE  NoneAfter(q, S, B)
BY DEF NoneAfter, ValuesOf

(* Who has a frame for p is not kept waiting behind it by one who obeyed. *)
LEMMA PowerWins ==
  ASSUME NEW p, NEW f \in Obeyed(p), NEW g \in Offs(p)
  PROVE  IdEncode(g.m) < IdEncode(f.m) /\ IdEncode(g.m) \in Int /\ IdEncode(f.m) \in Int
<1> PICK a : a = f.m
  OBVIOUS
<1> PICK b : b = g.m
  OBVIOUS
<1>1. /\ a \in Msg /\ b \in Msg /\ a.dst = b.dst /\ a.src = b.src /\ a.type = b.type
      /\ a.object = OBJ_SHUTDOWN /\ b.object = OBJ_POWER
  BY DEF Obeyed, Offs, To, Frame
<1>2. /\ a.pri = 1 /\ b.pri = 1 /\ a.eot = 0 /\ b.eot = 0 /\ a.seq = 0 /\ b.seq = 0
      /\ a.dst \in Int /\ a.src \in Int /\ a.type \in Int
  <2>1. a.pri = 1 /\ a.eot = 0 /\ a.seq = 0 /\ a.dst \in 0..63 /\ a.src \in 0..63 /\ a.type \in 0..7
    BY <1>1, MsgFields
  <2>2. b.pri = 1 /\ b.eot = 0 /\ b.seq = 0
    BY <1>1, MsgFields
  <2> QED
    BY <2>1, <2>2
<1> PICK k : k = a.type + 8 * (a.src + 64 * (a.dst + 64 * 1))
  OBVIOUS
<1>3. k \in Int
  BY <1>2
<1>4. IdEncode(a) = 0 + 16 * (0 + 2 * (OBJ_SHUTDOWN + 256 * k))
      /\ IdEncode(b) = 0 + 16 * (0 + 2 * (OBJ_POWER + 256 * k))
  BY <1>1, <1>2 DEF IdEncode
<1>5. OBJ_POWER < OBJ_SHUTDOWN /\ OBJ_POWER \in Int /\ OBJ_SHUTDOWN \in Int
  BY DEF OBJ_POWER, OBJ_SHUTDOWN
<1> QED
  BY <1>3, <1>4, <1>5

(* A shutdown command's replies are its own. *)
LEMMA OwnShutdown ==
  ASSUME Base, OneEach, NEW p \in Shutter, NEW g \in Frame, AnswerOK(g), Numbered(g),
         g.m.dst = Address[p], g.m.object = OBJ_SHUTDOWN
  PROVE  g.req.proc = p /\ g.req.n \in 1..call[p].n
<1>1. g.req.proc \in Process /\ g.req.n \in Nat /\ call[p].n \in Nat
  BY Disjoint DEF Frame, Base, TypeInv, StatesOK, Call
<1>2. g.req.proc \in Shutter
  BY <1>1, ConstantsOK DEF AnswerOK, AnsweredTo, Process
<1>3. g.req.proc = p
  BY <1>2 DEF AnswerOK, OneEach
<1> QED
  BY <1>1, <1>3 DEF Numbered

(* A reply that says the power is off, made while p waits. *)
LEMMA OffIsSeen ==
  ASSUME Base, NEW p \in Process, NEW s \in Slot, NEW f \in Asked(s), NEW g, Answers(s, f, g),
         g \in Offs(p)
  PROVE  "off" \in since[p]
<1>1. /\ RequestOK(f) /\ f.m.dst = s + ADDR_CONTROL /\ g.m.src = f.m.dst
      /\ f.m.object = g.m.object
  BY DEF Base, FramesOK, Answers
<1>2. f.m.object = OBJ_POWER /\ g.m.src = call[p].dst /\ Byte(g.m) # -1 /\ Byte(g.m) # 1
  BY <1>1 DEF Offs, To
<1>3. f \in Frame
  <2>1. /\ wire[s] \in Seq(Frame) /\ canrxq[s] \in Seq(Frame) /\ cur[s] \in Frame \cup {None}
    BY AllPlaces
  <2> QED
    BY <2>1 DEF Asked, ValuesOf
<1>4. f.m.type \in {RO, WO}
  <2>1. f.req.proc \in Process
    BY <1>3 DEF Frame
  <2> QED
    BY <1>1, <1>2, <2>1, ConstantsOK DEF RequestOK, AskedBy, PowerRequests, Process
<1>5. f.m.type # WO
  <2>1. ASSUME g.m.data = <<>> PROVE FALSE
    BY <1>2, <2>1 DEF Byte
  <2> QED
    BY <1>2, <2>1 DEF Answers
<1>6. g.m.data = bit(pi[s] # "off")
  BY <1>2, <1>4, <1>5 DEF Answers
<1>7. pi[s] = "off"
  <2>1. g.m.data # <<1>>
    BY <1>2 DEF Byte
  <2> QED
    BY <1>6, <2>1 DEF bit
<1> QED
  BY <1>1, <1>2, <1>7 DEF Base, SinceOK

(***************************************************************************)
(* Passes holds on, while the power has not been off.                      *)
(***************************************************************************)
LEMMA PassesNow ==
  ASSUME NEW p, Passes(p), NEW O, NEW B, O = Obeyed(p), B = Offs(p)
  PROVE  /\ NoneAfter(sock[p], O, B) /\ \A s \in Slot : NoneAfter(out[s], O, B)
         /\ call[p].n >= 2 \/ ValuesOf(sock[p]) \cap O # {}
              => \A s \in Slot : ValuesOf(out[s]) \cap B = {}
         /\ call[p].n >= 2 => ValuesOf(sock[p]) \cap B = {}
BY DEF Passes, Got, Told

LEMMA PassesNext ==
  ASSUME NEW p, NEW O, NEW B, O = Obeyed(p)', B = Offs(p)',
         NoneAfter(sock'[p], O, B), \A s \in Slot : NoneAfter(out'[s], O, B),
         call'[p].n >= 2 \/ ValuesOf(sock'[p]) \cap O # {}
           => \A s \in Slot : ValuesOf(out'[s]) \cap B = {},
         call'[p].n >= 2 => ValuesOf(sock'[p]) \cap B = {}
  PROVE  Passes(p)'
BY DEF Passes, Got, Told, NoneAfter

LEMMA SameSets ==
  ASSUME NEW p, UNCHANGED call[p].dst
  PROVE  Obeyed(p)' = Obeyed(p) /\ Offs(p)' = Offs(p)
BY DEF Obeyed, Offs, To

LEMMA SamePasses ==
  ASSUME NEW p, UNCHANGED <<call[p], sock[p], out>>, Passes(p)
  PROVE  Passes(p)'
<1> PICK O : O = Obeyed(p)
  OBVIOUS
<1> PICK B : B = Offs(p)
  OBVIOUS
<1>1. O = Obeyed(p)' /\ B = Offs(p)'
  BY SameSets
<1>2. /\ NoneAfter(sock[p], O, B) /\ \A s \in Slot : NoneAfter(out[s], O, B)
      /\ call[p].n >= 2 \/ ValuesOf(sock[p]) \cap O # {}
           => \A s \in Slot : ValuesOf(out[s]) \cap B = {}
      /\ call[p].n >= 2 => ValuesOf(sock[p]) \cap B = {}
  BY PassesNow
<1> QED
  BY <1>1, <1>2, PassesNext

(* A slot answers, but does not say the power is off. *)
LEMMA AnswerPasses ==
  ASSUME Base, NEW p \in Process, NEW s \in Slot, NEW g \in Frame, UNCHANGED <<call, sock>>,
         out' = [out EXCEPT ![s] = Append(@, g)], g \notin Offs(p), Passes(p)
  PROVE  Passes(p)'
<1> PICK O : O = Obeyed(p)
  OBVIOUS
<1> PICK B : B = Offs(p)
  OBVIOUS
<1>1. O = Obeyed(p)' /\ B = Offs(p)'
  BY SameSets
<1>2. /\ NoneAfter(sock[p], O, B) /\ \A z \in Slot : NoneAfter(out[z], O, B)
      /\ call[p].n >= 2 \/ ValuesOf(sock[p]) \cap O # {}
           => \A z \in Slot : ValuesOf(out[z]) \cap B = {}
      /\ call[p].n >= 2 => ValuesOf(sock[p]) \cap B = {}
  BY PassesNow
<1>3. ASSUME NEW z \in Slot
      PROVE  NoneAfter(out'[z], O, B) /\ ValuesOf(out'[z]) \cap B = ValuesOf(out[z]) \cap B
  <2> PICK q : q = out[z]
    OBVIOUS
  <2>1. q \in Seq(Frame) /\ out'[z] = IF z = s THEN Append(q, g) ELSE q
    BY AllPlaces
  <2>2. NoneAfter(q, O, B)
    BY <1>2
  <2>3. NoneAfter(Append(q, g), O, B)
    BY <2>1, <2>2, NoneAfterParts
  <2>4. ValuesOf(Append(q, g)) = ValuesOf(q) \cup {g}
    BY <2>1, Longer
  <2> QED
    BY <2>1, <2>2, <2>3, <2>4
<1> QED
  BY <1>1, <1>2, <1>3, PassesNext

(* A reply goes out to the bus, or is lost in cantxq. *)
LEMMA LosePasses ==
  ASSUME Base, NEW p \in Process, NEW s \in Slot, LoseReply(s), Passes(p)
  PROVE  Passes(p)'
<1> PICK O : O = Obeyed(p)
  OBVIOUS
<1> PICK B : B = Offs(p)
  OBVIOUS
<1>0. /\ UNCHANGED <<call, sock>> /\ out[s] # <<>>
      /\ out' = [out EXCEPT ![s] = Front(@)]
  BY DEF LoseReply, procVars
<1>1. O = Obeyed(p)' /\ B = Offs(p)'
  BY <1>0, SameSets
<1>2. /\ NoneAfter(sock[p], O, B) /\ \A z \in Slot : NoneAfter(out[z], O, B)
      /\ call[p].n >= 2 \/ ValuesOf(sock[p]) \cap O # {}
           => \A z \in Slot : ValuesOf(out[z]) \cap B = {}
      /\ call[p].n >= 2 => ValuesOf(sock[p]) \cap B = {}
  BY PassesNow
<1>3. ASSUME NEW z \in Slot
      PROVE  NoneAfter(out'[z], O, B) /\ ValuesOf(out'[z]) \subseteq ValuesOf(out[z])
  <2> PICK q : q = out[z]
    OBVIOUS
  <2>1. q \in Seq(Frame) /\ out'[z] = (IF z = s THEN Front(q) ELSE q) /\ (z = s => q # <<>>)
    BY <1>0, AllPlaces
  <2>2. NoneAfter(q, O, B)
    BY <1>2
  <2>3. q # <<>> => NoneAfter(Front(q), O, B)
    BY <2>1, <2>2, NoneAfterParts
  <2>4. q # <<>> => ValuesOf(Front(q)) \subseteq ValuesOf(q)
    BY <2>1, SeqValues
  <2> QED
    BY <2>1, <2>2, <2>3, <2>4
<1>4. \A z \in Slot : ValuesOf(out[z]) \cap B = {} => ValuesOf(out'[z]) \cap B = {}
  BY <1>3
<1> QED
  BY <1>0, <1>1, <1>2, <1>3, <1>4, PassesNext

(* A reply that obeys wins the bus only when nothing about the power waits. *)
LEMMA WinsLast ==
  ASSUME Base, NEW p \in Process, NEW s \in Slot, NEW i \in 1..Len(out[s]), Wins(s, i),
         Passes(p), out[s][i] \in Obeyed(p), NEW z \in Slot
  PROVE  ValuesOf(out[z]) \cap Offs(p) = {}
<1> SUFFICES ASSUME NEW g \in ValuesOf(out[z]), g \in Offs(p) PROVE FALSE
  OBVIOUS
<1> PICK f : f = out[s][i]
  OBVIOUS
<1>1. f \in Told(s) /\ g \in Told(z)
  BY DEF Told, ValuesOf
<1>2. f.m.src = s + ADDR_CONTROL /\ g.m.src = z + ADDR_CONTROL
  BY <1>1 DEF Base, FramesOK
<1>3. f.m.src = call[p].dst /\ g.m.src = call[p].dst
  BY DEF Obeyed, Offs, To
<1>4. z = s
  <2>1. SlotOf(s + ADDR_CONTROL) = s /\ SlotOf(z + ADDR_CONTROL) = z
    BY SlotIs
  <2> QED
    BY <1>2, <1>3, <2>1
<1>5. PICK j \in 1..Len(out[s]) : out[s][j] = g
  BY <1>4 DEF ValuesOf
<1>6. j < i
  BY <1>5 DEF Passes, NoneAfter
<1>7. j \in 1..(i - 1)
  BY <1>6
<1>8. IdEncode(f.m) < IdEncode(g.m)
  BY <1>5, <1>7 DEF Wins
<1> QED
  BY <1>8, PowerWins

LEMMA DeliverPasses ==
  ASSUME Base, NEW p \in Process, NEW s \in Slot, Deliver(s), Passes(p)
  PROVE  Passes(p)'
<1> PICK O : O = Obeyed(p)
  OBVIOUS
<1> PICK B : B = Offs(p)
  OBVIOUS
<1> PICK q : q = out[s]
  OBVIOUS
<1> PICK r : r = sock[p]
  OBVIOUS
<1> PICK i \in 1..Len(q) :
      LET f == q[i]
      IN /\ Wins(s, i) /\ f \in Told(s) /\ f \in Frame
         /\ out' = [out EXCEPT ![s] = RemoveAt(@, i)] /\ UNCHANGED call
         /\ sock' = [x \in Process |-> IF /\ Open(x) /\ Address[x] = f.m.dst
                                         /\ Len(sock[x]) < SockDepth
                                      THEN Append(sock[x], f) ELSE sock[x]]
  BY DeliverIs
<1> PICK f : f = q[i]
  OBVIOUS
<1>1. O = Obeyed(p)' /\ B = Offs(p)'
  BY SameSets
<1>2. /\ NoneAfter(r, O, B) /\ \A z \in Slot : NoneAfter(out[z], O, B)
      /\ call[p].n >= 2 \/ ValuesOf(r) \cap O # {}
           => \A z \in Slot : ValuesOf(out[z]) \cap B = {}
      /\ call[p].n >= 2 => ValuesOf(r) \cap B = {}
  BY PassesNow
<1>3. /\ r \in Seq(Frame) /\ (sock'[p] = r \/ sock'[p] = Append(r, f)) /\ f \in Frame
      /\ f \in ValuesOf(out[s]) /\ UNCHANGED call
  BY AllPlaces DEF Told
<1>4. ASSUME NEW z \in Slot
      PROVE  NoneAfter(out'[z], O, B) /\ ValuesOf(out'[z]) \subseteq ValuesOf(out[z])
  <2> PICK t : t = out[z]
    OBVIOUS
  <2>1. t \in Seq(Frame) /\ out'[z] = (IF z = s THEN RemoveAt(t, i) ELSE t)
        /\ (z = s => i \in 1..Len(t))
    BY AllPlaces
  <2>2. NoneAfter(t, O, B)
    BY <1>2
  <2>3. i \in 1..Len(t) => NoneAfter(RemoveAt(t, i), O, B)
    BY <2>1, <2>2, NoneAfterParts
  <2>4. i \in 1..Len(t) => ValuesOf(RemoveAt(t, i)) \subseteq ValuesOf(t)
    BY <2>1, SeqValues
  <2> QED
    BY <2>1, <2>2, <2>3, <2>4
<1>5. f \in O => \A z \in Slot : ValuesOf(out[z]) \cap B = {}
  BY WinsLast
<1>6. f \in B => ValuesOf(r) \cap O = {} /\ ~(call[p].n >= 2) /\ f \notin O
  <2>1. f \in B => ValuesOf(out[s]) \cap B # {}
    BY <1>3
  <2>2. f \in B => f \notin O
    BY ConstantsOK DEF Obeyed, Offs
  <2> QED
    BY <1>2, <2>1, <2>2
<1>7. ValuesOf(Append(r, f)) = ValuesOf(r) \cup {f}
  BY <1>3, Longer
<1>8. NoneAfter(Append(r, f), O, B)
  <2>1. CASE f \in B
    <3>1. ValuesOf(Append(r, f)) \cap O = {}
      BY <1>6, <1>7, <2>1
    <3> QED
      BY <3>1, NoneAtAll
  <2>2. CASE f \notin B
    BY <1>2, <1>3, <2>2, NoneAfterParts
  <2> QED
    BY <2>1, <2>2
<1>9. call[p].n >= 2 \/ ValuesOf(sock'[p]) \cap O # {}
        => \A z \in Slot : ValuesOf(out'[z]) \cap B = {}
  <2>1. call[p].n >= 2 \/ ValuesOf(sock'[p]) \cap O # {}
          => call[p].n >= 2 \/ ValuesOf(r) \cap O # {} \/ f \in O
    BY <1>3, <1>7
  <2>2. \A z \in Slot : ValuesOf(out[z]) \cap B = {} => ValuesOf(out'[z]) \cap B = {}
    BY <1>4
  <2> QED
    BY <1>2, <1>5, <2>1, <2>2
<1>10. call[p].n >= 2 => ValuesOf(sock'[p]) \cap B = {}
  BY <1>2, <1>3, <1>6, <1>7
<1>11. NoneAfter(sock'[p], O, B) /\ \A z \in Slot : NoneAfter(out'[z], O, B)
  BY <1>2, <1>3, <1>4, <1>8
<1> QED
  BY <1>1, <1>3, <1>9, <1>10, <1>11, PassesNext

LEMMA SlotPasses ==
  ASSUME Base, NEW p \in Process, NEW s \in Slot, SlotStep(s) \/ PiStep(s) \/ LoseReply(s),
         "off" \notin since[p], Passes(p)
  PROVE  Passes(p)'
<1>1. CASE RxIsr(s) \/ PiStep(s)
  <2>1. UNCHANGED <<call, sock, out>>
    BY <1>1 DEF RxIsr, PiStep, PiBoots, HaltPulse, PiTurnsOff, procVars
  <2> QED
    BY <2>1, SamePasses
<1>2. CASE Handle(s) \/ Settle(s)
  <2>1. /\ UNCHANGED <<call, sock>>
        /\ \/ UNCHANGED out
           \/ \E f \in Asked(s) : \E g : /\ Answers(s, f, g)
                                         /\ out' = [out EXCEPT ![s] = Append(@, g)]
    <3>1. CASE Handle(s)
      BY <3>1, HandleIs DEF procVars
    <3>2. CASE Settle(s)
      BY <3>2, SettleIs DEF procVars
    <3> QED
      BY <1>2, <3>1, <3>2
  <2>2. CASE UNCHANGED out
    BY <2>1, <2>2, SamePasses
  <2>3. ASSUME NEW f \in Asked(s), NEW g, Answers(s, f, g),
               out' = [out EXCEPT ![s] = Append(@, g)]
        PROVE  Passes(p)'
    <3>1. g \notin Offs(p)
      BY <2>3, OffIsSeen
    <3>2. g \in Frame
      BY <2>3 DEF Answers
    <3> QED
      BY <2>1, <2>3, <3>1, <3>2, AnswerPasses
  <2> QED
    BY <2>1, <2>2, <2>3
<1>3. CASE Deliver(s)
  BY <1>3, DeliverPasses
<1>4. CASE LoseReply(s)
  BY <1>4, LosePasses
<1> QED
  BY <1>1, <1>2, <1>3, <1>4 DEF SlotStep

(* The first request is carried out by the time it is answered. *)
LEMMA CarriedOn ==
  ASSUME Base, Flow, executed \subseteq executed', NEW p \in Shutter, Carried(p)
  PROVE  Carried(p)'
<1> PICK r : r = First(p)
  OBVIOUS
<1>1. r.proc = p /\ r.n = 1 /\ p \in Process
  BY Disjoint DEF First
<1>2. ASSUME NEW s \in Slot, NEW g \in Told(s)', g.req = r
      PROVE  r \in executed'
  <2>1. CASE g \in Told(s)
    BY <1>2, <2>1 DEF Carried
  <2>2. ASSUME NEW f \in Asked(s), Answers(s, f, g)
        PROVE  r \in executed'
    <3>1. f.req = r
      BY <1>2, <2>2 DEF Answers
    <3>2. RequestOK(f)
      BY DEF Base, FramesOK
    <3>3. f.m.object = OBJ_SHUTDOWN /\ f.m.type = WO
      BY <1>1, <3>1, <3>2 DEF RequestOK, AskedBy
    <3> QED
      BY <2>2, <3>1, <3>3 DEF Answers
  <2> QED
    BY <2>1, <2>2 DEF Flow
<1>3. ASSUME NEW g \in Got(p)', g.req = r
      PROVE  r \in executed'
  <2>1. g \in Got(p) \/ \E s \in Slot : g \in Told(s)
    BY <1>1 DEF Flow
  <2> QED
    BY <1>3, <2>1 DEF Carried
<1>4. First(p)' = r
  BY DEF First
<1> QED
  BY <1>2, <1>3, <1>4 DEF Carried

LEMMA EndsOn ==
  ASSUME NEW p, executed \subseteq executed', since[p] \subseteq since'[p], UNCHANGED pc[p],
         Ends(p)
  PROVE  Ends(p)'
<1>1. First(p)' = First(p)
  BY DEF First
<1> QED
  BY <1>1 DEF Ends

(* A step that leaves the call of p alone. *)
LEMMA WaitsOn ==
  ASSUME Base, Flow, Grows, NEW p \in Shutter, ShutterInv(p), UNCHANGED <<call[p], pc[p]>>,
         "off" \notin since[p] /\ Passes(p) => Passes(p)'
  PROVE  ShutterInv(p)'
<1>1. p \in Process /\ since[p] \subseteq since'[p] /\ executed \subseteq executed'
  BY Disjoint DEF Grows
<1>2. Carried(p)'
  BY <1>1, CarriedOn DEF ShutterInv, Obeys
<1>3. First(p)' = First(p)
  BY DEF First
<1>4. Obeys(p)'
  BY <1>1, <1>2, <1>3 DEF ShutterInv, Obeys
<1>5. Ends(p)'
  BY <1>1, EndsOn DEF ShutterInv
<1> QED
  BY <1>1, <1>4, <1>5 DEF ShutterInv

LEMMA SkipPasses ==
  ASSUME Base, NEW p \in Process, UNCHANGED <<call, out>>, sock[p] # <<>>,
         sock' = [sock EXCEPT ![p] = Tail(@)], Passes(p)
  PROVE  Passes(p)'
<1> PICK O : O = Obeyed(p)
  OBVIOUS
<1> PICK B : B = Offs(p)
  OBVIOUS
<1> PICK r : r = sock[p]
  OBVIOUS
<1>1. O = Obeyed(p)' /\ B = Offs(p)'
  BY SameSets
<1>2. /\ NoneAfter(r, O, B) /\ \A z \in Slot : NoneAfter(out[z], O, B)
      /\ call[p].n >= 2 \/ ValuesOf(r) \cap O # {}
           => \A z \in Slot : ValuesOf(out[z]) \cap B = {}
      /\ call[p].n >= 2 => ValuesOf(r) \cap B = {}
  BY PassesNow
<1>3. r \in Seq(Frame) /\ r # <<>> /\ sock'[p] = Tail(r)
  BY AllPlaces
<1>4. NoneAfter(Tail(r), O, B)
  BY <1>2, <1>3, NoneAfterParts
<1>5. ValuesOf(Tail(r)) \subseteq ValuesOf(r)
  BY <1>3, SeqValues
<1> QED
  BY <1>1, <1>2, <1>3, <1>4, <1>5, PassesNext

LEMMA StartHolds ==
  ASSUME Base, OneEach, NEW p \in Shutter, ShutterStart(p), ShutterInv(p)
  PROVE  ShutterInv(p)'
<1>1. /\ p \in Process /\ pc[p] = "new" /\ call[p].n = 0
      /\ pc' = [pc EXCEPT ![p] = "wait"] /\ UNCHANGED <<out, sock>>
  BY Disjoint DEF ShutterStart, Base, TypeInv, ShuttersOK
<1>2. PICK slot \in Target : Request(p, CtlAddress(slot), 1)
  BY DEF ShutterStart
<1> PICK c : c = ShutterCall(CtlAddress(slot), 1)
  OBVIOUS
<1>3. c \in Call /\ Sends(p, c) /\ c.n = 1 /\ c.object = OBJ_SHUTDOWN
  <2>1. c \in Call /\ Sends(p, c)
    BY <1>1, <1>2, ConstantsOK, RequestSends
  <2> QED
    BY <2>1 DEF ShutterCall
<1>4. call'[p] = c /\ pc'[p] = "wait"
  <2>1. call' = [call EXCEPT ![p] = c]
    BY <1>1, <1>3, SendIs
  <2> QED
    BY <1>1, <2>1 DEF Base, TypeInv, StatesOK
<1>5. Flow /\ Grows
  BY ShutterKeeps
<1> PICK O : O = Obeyed(p)'
  OBVIOUS
<1> PICK B : B = Offs(p)'
  OBVIOUS
<1>6. ASSUME NEW g \in O, AnswerOK(g), Numbered(g) PROVE FALSE
  <2>1. g \in Frame /\ g.m.dst = Address[p] /\ g.m.object = OBJ_SHUTDOWN
    BY DEF Obeyed, To
  <2>2. g.req.n \in 1..0
    BY <1>1, <1>6, <2>1, OwnShutdown
  <2> QED
    BY <2>2
<1>7. ValuesOf(sock[p]) \cap O = {} /\ \A s \in Slot : ValuesOf(out[s]) \cap O = {}
  BY <1>1, <1>6 DEF Base, FramesOK, Got, Told
<1>8. Passes(p)'
  <2>1. NoneAfter(sock'[p], O, B) /\ \A s \in Slot : NoneAfter(out'[s], O, B)
    BY <1>1, <1>7, NoneAtAll
  <2>2. ~(call'[p].n >= 2) /\ ValuesOf(sock'[p]) \cap O = {}
    BY <1>1, <1>3, <1>4, <1>7
  <2> QED
    BY <2>1, <2>2, PassesNext
<1>9. Carried(p)'
  BY <1>5, CarriedOn DEF ShutterInv, Obeys, Grows
<1>10. Obeys(p)'
  BY <1>3, <1>4, <1>9 DEF Obeys
<1> QED
  BY <1>4, <1>8, <1>10 DEF ShutterInv, Ends

(* The answer to the first request came after all that was made before it. *)
LEMMA FirstIsPast ==
  ASSUME Base, NEW p \in Process, NEW r, r = sock[p], r # <<>>, Head(r) \in Obeyed(p), Passes(p)
  PROVE  /\ \A z \in Slot : ValuesOf(out[z]) \cap Offs(p) = {}
         /\ ValuesOf(r) \cap Offs(p) = {}
<1> PICK O : O = Obeyed(p)
  OBVIOUS
<1> PICK B : B = Offs(p)
  OBVIOUS
<1>1. /\ NoneAfter(r, O, B)
      /\ ValuesOf(r) \cap O # {} => \A z \in Slot : ValuesOf(out[z]) \cap B = {}
  BY PassesNow
<1>2. r \in Seq(Frame)
  BY AllPlaces
<1>3. Head(r) \in ValuesOf(r)
  BY <1>2, SeqValues
<1>4. r[1] \in O /\ 1 \in 1..Len(r)
  BY <1>2
<1>5. ASSUME NEW g \in ValuesOf(r), g \in B PROVE FALSE
  <2>1. PICK j \in 1..Len(r) : r[j] = g
    BY DEF ValuesOf
  <2>2. j < 1
    BY <1>1, <1>4, <1>5, <2>1 DEF NoneAfter
  <2> QED
    BY <2>2
<1> QED
  BY <1>1, <1>3, <1>5

LEMMA TakeHolds ==
  ASSUME Base, OneEach, NEW p \in Shutter, ShutterTake(p), ShutterInv(p)
  PROVE  ShutterInv(p)'
<1> PICK r : r = sock[p]
  OBVIOUS
<1> PICK f : f = Head(r)
  OBVIOUS
<1> PICK m : m = f.m
  OBVIOUS
<1> PICK n : n = call[p].n
  OBVIOUS
<1> PICK k : k = Then(n, m)
  OBVIOUS
<1> PICK dst : dst = call[p].dst
  OBVIOUS
<1> PICK O : O = Obeyed(p)
  OBVIOUS
<1> PICK B : B = Offs(p)
  OBVIOUS
<1>1. /\ r # <<>> /\ r \in Seq(Frame) /\ Matches(p, m) /\ pc[p] = "wait" /\ p \in Process
      /\ n \in {1, 2, 3} /\ dst \in 16..31 /\ f \in Got(p)
      /\ UNCHANGED <<out, executed>>
      /\ \/ /\ k \in {2, 3} /\ Request(p, dst, k)
            /\ sock' = [sock EXCEPT ![p] = Tail(@)] /\ UNCHANGED pc
         \/ /\ k \in {0, 4} /\ pc' = [pc EXCEPT ![p] = IF k = 4 THEN "done" ELSE "died"]
            /\ sock' = [sock EXCEPT ![p] = <<>>] /\ UNCHANGED <<call, since>>
  BY ShutterTakes, Disjoint
<1>2. Flow /\ Grows
  BY ShutterKeeps DEF ShutterStep
<1>3. f \in Frame /\ AnswerOK(f) /\ Numbered(f) /\ f.m.type = ACK
  <2>1. f \in Frame
    BY <1>1, SeqValues
  <2> QED
    BY <1>1, <2>1 DEF Base, FramesOK, AnswerOK
<1>4. To(p, m) /\ m.object = IF n = 3 THEN OBJ_POWER ELSE OBJ_SHUTDOWN
  BY <1>1 DEF Matches, To, ShutterInv, Obeys
<1>5. First(p) \in executed
  <2>1. CASE n = 1
    <3>1. m.object = OBJ_SHUTDOWN /\ m.dst = Address[p]
      BY <1>4, <2>1 DEF To
    <3>2. f.req.proc = p /\ f.req.n \in 1..1
      BY <1>3, <2>1, <3>1, OwnShutdown
    <3>3. f.req = [proc |-> f.req.proc, n |-> f.req.n]
      BY <1>3 DEF Frame
    <3>4. f.req.n = 1
      BY <3>2
    <3>5. f.req = First(p)
      BY <3>2, <3>3, <3>4 DEF First
    <3> QED
      BY <1>1, <3>5 DEF ShutterInv, Obeys, Carried
  <2>2. CASE n # 1
    BY <1>1, <2>2 DEF ShutterInv, Obeys
  <2> QED
    BY <2>1, <2>2
<1>6. First(p)' = First(p) /\ First(p) \in executed'
  BY <1>1, <1>5 DEF First
<1>7. Carried(p)'
  BY <1>2, CarriedOn DEF ShutterInv, Obeys, Grows
<1>8. p \in Process /\ since[p] \subseteq since'[p]
  <2>1. n # 0
    BY <1>1
  <2> QED
    BY <1>1, <1>2, <2>1 DEF Grows
<1>9. CASE /\ k \in {2, 3} /\ Request(p, dst, k)
           /\ sock' = [sock EXCEPT ![p] = Tail(@)] /\ UNCHANGED pc
  <2> PICK c : c = ShutterCall(dst, k)
    OBVIOUS
  <2>1. c \in Call /\ Sends(p, c)
    BY <1>1, <1>9, RequestSends
  <2>2. c.n = k /\ c.dst = dst /\ c.object = IF k = 3 THEN OBJ_POWER ELSE OBJ_SHUTDOWN
    BY DEF ShutterCall
  <2>3. call' = [call EXCEPT ![p] = c]
    BY <1>1, <2>1, SendIs
  <2>4. call'[p] = c /\ call'[p].dst = call[p].dst /\ pc'[p] = "wait" /\ sock'[p] = Tail(r)
    <3>1. call \in [Process -> Call]
      BY DEF Base, TypeInv, StatesOK
    <3>2. sock'[p] = Tail(r)
      BY <1>1, <1>9, AllPlaces
    <3> QED
      BY <1>1, <1>9, <2>2, <2>3, <3>1, <3>2
  <2>5. Obeys(p)'
    BY <1>6, <1>7, <2>2, <2>4 DEF Obeys
  <2>6. ASSUME "off" \notin since[p] PROVE Passes(p)'
    <3>1. Passes(p)
      BY <1>1, <2>6 DEF ShutterInv
    <3>2. O = Obeyed(p)' /\ B = Offs(p)'
      BY <2>4, SameSets
    <3>3. NoneAfter(r, O, B) /\ \A s \in Slot : NoneAfter(out[s], O, B)
      BY <3>1, PassesNow
    <3>4. NoneAfter(Tail(r), O, B)
      BY <1>1, <3>3, NoneAfterParts
    <3>5. (\A s \in Slot : ValuesOf(out[s]) \cap B = {}) /\ ValuesOf(r) \cap B = {}
      <4>1. CASE n = 1
        <5>1. f \in O
          BY <1>3, <1>4, <4>1 DEF Obeyed
        <5> QED
          BY <1>1, <3>1, <5>1, FirstIsPast
      <4>2. CASE n \in {2, 3}
        <5>1. call[p].n >= 2
          BY <4>2
        <5> QED
          BY <3>1, <5>1, PassesNow
      <4> QED
        BY <1>1, <4>1, <4>2
    <3>6. ValuesOf(Tail(r)) \subseteq ValuesOf(r)
      BY <1>1, SeqValues
    <3>7. /\ NoneAfter(sock'[p], O, B) /\ \A s \in Slot : NoneAfter(out'[s], O, B)
          /\ \A s \in Slot : ValuesOf(out'[s]) \cap B = {}
          /\ ValuesOf(sock'[p]) \cap B = {}
      BY <1>1, <2>4, <3>3, <3>4, <3>5, <3>6
    <3> QED
      BY <3>2, <3>7, PassesNext
  <2> QED
    BY <1>8, <2>4, <2>5, <2>6 DEF ShutterInv, Ends
<1>10. CASE /\ k \in {0, 4} /\ pc' = [pc EXCEPT ![p] = IF k = 4 THEN "done" ELSE "died"]
            /\ sock' = [sock EXCEPT ![p] = <<>>] /\ UNCHANGED <<call, since>>
  <2>1. pc'[p] = IF k = 4 THEN "done" ELSE "died"
    BY <1>1, <1>10 DEF Base, TypeInv, StatesOK
  <2>2. ASSUME k = 4 PROVE "off" \in since[p]
    <3>1. n = 3 /\ Byte(m) # -1 /\ Byte(m) # 1
      BY <1>1, <2>2, ThenIs
    <3>2. f \in B
      BY <1>3, <1>4, <3>1 DEF Offs
    <3>3. "off" \notin since[p] => ValuesOf(r) \cap B = {}
      <4>1. call[p].n >= 2
        BY <3>1
      <4> QED
        BY <1>1, <4>1, PassesNow DEF ShutterInv
    <3> QED
      BY <1>1, <3>2, <3>3 DEF Got
  <2>3. Ends(p)'
    BY <1>6, <1>10, <2>1, <2>2 DEF Ends
  <2>4. pc'[p] # "wait"
    BY <2>1
  <2>5. Obeys(p)'
    BY <1>6, <1>7, <2>4 DEF Obeys
  <2> QED
    BY <2>3, <2>4, <2>5 DEF ShutterInv
<1> QED
  BY <1>1, <1>9, <1>10

LEMMA TimeoutHolds ==
  ASSUME Base, NEW p \in Shutter, ShutterTimeout(p), ShutterInv(p)
  PROVE  ShutterInv(p)'
<1>1. /\ p \in Process /\ pc' = [pc EXCEPT ![p] = "died"] /\ UNCHANGED <<call, executed>>
  BY Disjoint DEF ShutterTimeout, histVars
<1>2. Flow
  BY ShutterKeeps DEF ShutterStep
<1>3. Carried(p)'
  BY <1>1, <1>2, CarriedOn DEF ShutterInv, Obeys
<1>4. pc'[p] = "died" /\ First(p)' = First(p)
  BY <1>1 DEF Base, TypeInv, StatesOK, First
<1> QED
  BY <1>1, <1>3, <1>4 DEF ShutterInv, Obeys, Ends

LEMMA ShutterHolds ==
  ASSUME Base, OneEach, NEW p \in Shutter, ShutterInv(p), Next
  PROVE  ShutterInv(p)'
<1>0. p \in Process
  BY Disjoint
<1>1. CASE \E s \in Slot : SlotStep(s) \/ PiStep(s) \/ LoseReply(s)
  <2>1. PICK s \in Slot : SlotStep(s) \/ PiStep(s) \/ LoseReply(s)
    BY <1>1
  <2>2. Flow /\ Grows
    BY <2>1, SlotKeeps
  <2>3. UNCHANGED <<call[p], pc[p]>>
    BY <2>1, SlotLeaves
  <2>4. "off" \notin since[p] /\ Passes(p) => Passes(p)'
    BY <1>0, <2>1, SlotPasses
  <2> QED
    BY <2>2, <2>3, <2>4, WaitsOn
<1>2. ASSUME NEW q \in Process, ProcessStep(q), q # p
      PROVE  ShutterInv(p)'
  <2>1. UNCHANGED <<sock[p], call[p], pc[p]>>
    BY <1>0, <1>2, OthersStep
  <2>2. UNCHANGED out
    BY <1>2, Alone
  <2>3. Flow /\ Grows
    BY <1>2, HelperKeeps, ShutterKeeps, PingerKeeps
       DEF ProcessStep, HelperSteps, ShutterSteps, PingerSteps
  <2>4. Passes(p) => Passes(p)'
    BY <2>1, <2>2, SamePasses
  <2> QED
    BY <2>1, <2>3, <2>4, WaitsOn
<1>3. CASE ProcessStep(p)
  <2>1. ShutterStart(p) \/ Skip(p) \/ ShutterTake(p) \/ ShutterTimeout(p)
    BY <1>3, Disjoint DEF ProcessStep, ShutterSteps, ShutterStep
  <2>2. CASE Skip(p)
    <3>1. /\ UNCHANGED <<call, pc, out>> /\ sock[p] # <<>>
          /\ sock' = [sock EXCEPT ![p] = Tail(@)]
      BY <2>2 DEF Skip, slotVars
    <3>2. Flow /\ Grows
      BY <2>2, ShutterKeeps DEF ShutterStep
    <3>3. Passes(p) => Passes(p)'
      BY <1>0, <3>1, SkipPasses
    <3> QED
      BY <3>1, <3>2, <3>3, WaitsOn
  <2> QED
    BY <2>1, <2>2, StartHolds, TakeHolds, TimeoutHolds
<1> QED
  BY <1>1, <1>2, <1>3, NextIs

ShuttersInv == \A p \in Shutter : ShutterInv(p)

LEMMA ShuttersInitial == Init => ShuttersInv
<1> SUFFICES ASSUME Init, NEW p \in Shutter PROVE ShutterInv(p)
  BY DEF ShuttersInv
<1>1. /\ \A s \in Slot : out[s] = <<>>
      /\ p \in Process /\ sock[p] = <<>> /\ pc[p] = "new" /\ call[p].n = 0
  BY Disjoint DEF Init
<1>2. (\A s \in Slot : Told(s) = {}) /\ Got(p) = {}
  BY <1>1 DEF Told, Got, ValuesOf
<1> QED
  BY <1>1, <1>2 DEF ShutterInv, Obeys, Carried, Ends

LEMMA ShuttersStep ==
  ASSUME OneEach, Base, ShuttersInv, [Next]_vars
  PROVE  ShuttersInv'
<1>1. CASE Next
  BY <1>1, ShutterHolds DEF ShuttersInv
<1>2. CASE UNCHANGED vars
  <2>1. UNCHANGED <<out, pc, sock, call, executed, since>>
    BY <1>2 DEF vars, slotVars, procVars, histVars
  <2> SUFFICES ASSUME NEW p \in Shutter, ShutterInv(p) PROVE ShutterInv(p)'
    BY DEF ShuttersInv
  <2>2. First(p)' = First(p) /\ Got(p)' = Got(p) /\ \A s \in Slot : Told(s)' = Told(s)
    BY <2>1 DEF First, Got, Told
  <2>3. Obeys(p)' /\ Ends(p)'
    BY <2>1, <2>2 DEF ShutterInv, Obeys, Carried, Ends
  <2>4. Passes(p) => Passes(p)'
    BY <2>1, SamePasses
  <2> QED
    BY <2>1, <2>3, <2>4 DEF ShutterInv
<1> QED
  BY <1>1, <1>2

(* shutdown ends well only when the slot has been told to shut down and the
   power was off later, one command at a time from each address: two would
   take each other's answers (canobj_write, canobj_read). *)
THEOREM ShutdownIsHonest ==
  ASSUME OneEach
  PROVE  Spec => []ShutdownHonest
<1>1. Init => Base /\ ShuttersInv
  BY BaseInit, ShuttersInitial
<1>2. Base /\ ShuttersInv /\ [Next]_vars => (Base /\ ShuttersInv)'
  BY BaseStep, BaseStutter, ShuttersStep
<1>3. ShuttersInv => ShutdownHonest
  BY DEF ShuttersInv, ShutterInv, Ends, ShutdownHonest, First
<1> QED
  BY <1>1, <1>2, <1>3, PTL DEF Spec
=============================================================================
