-------------------------- MODULE ConsoleData_proofs --------------------------
(***************************************************************************)
(* Proofs about what Console carries, for any number of helpers, any sizes *)
(* of the buffers, any faults and any tardiness: no byte of the Pi is      *)
(* shown twice, keys reach the Pi in the order they were typed, and with   *)
(* one process at each address an acknowledged key has reached it, and a   *)
(* process has one request out at most.  Without faults and with one       *)
(* process the console is a pipe.                                          *)
(***************************************************************************)
EXTENDS Console_proofs, FiniteSetTheorems

(***************************************************************************)
(* No byte of the Pi is in two places.  The places are the receive buffer, *)
(* the message cancon works on, the frames queued for the bus, and of each *)
(* helper the frames in its socket, the chunk it assembles and its output. *)
(***************************************************************************)
BytesIn(f) == UNION {ValuesOf(f[i].data) : i \in DOMAIN f}
Apart(f) ==
  \A i \in DOMAIN f :
    /\ NoTwice(f[i].data)
    /\ \A j \in DOMAIN f : i # j => ValuesOf(f[i].data) \cap ValuesOf(f[j].data) = {}

Holds == cpc \in {"pack", "send"}
Held == IF Holds THEN ValuesOf(msg.data) ELSE {}
AtSlot == ValuesOf(serialrxq) \cup Held \cup BytesIn(bus)
AtHelper(h) == BytesIn(sock[h]) \cup BytesIn(chunk[h]) \cup ValuesOf(out[h])

SlotApart ==
  /\ NoTwice(serialrxq) /\ (Holds => NoTwice(msg.data)) /\ Apart(bus)
  /\ ValuesOf(serialrxq) \cap Held = {}
  /\ ValuesOf(serialrxq) \cap BytesIn(bus) = {} /\ Held \cap BytesIn(bus) = {}
HelperApart(h) ==
  /\ Apart(sock[h]) /\ Apart(chunk[h]) /\ NoTwice(out[h])
  /\ BytesIn(sock[h]) \cap BytesIn(chunk[h]) = {}
  /\ BytesIn(sock[h]) \cap ValuesOf(out[h]) = {}
  /\ BytesIn(chunk[h]) \cap ValuesOf(out[h]) = {}
(* A byte in the data register is in no place yet, and what is in one has
   been printed: the next byte taken is new. *)
OnePlace ==
  /\ SlotApart
  /\ \A h \in Helper : HelperApart(h) /\ AtSlot \cap AtHelper(h) = {}
  /\ \A g, h \in Helper : g # h => AtHelper(g) \cap AtHelper(h) = {}
  /\ dr \in 0..printed
  /\ AtSlot \subseteq 1..printed /\ dr \notin AtSlot
  /\ \A h \in Helper : AtHelper(h) \subseteq 1..printed /\ dr \notin AtHelper(h)

LEMMA ApartChosen ==
  ASSUME NEW f, NEW g, NEW p \in [DOMAIN g -> DOMAIN f], Apart(f),
         \A i \in DOMAIN g : g[i].data = f[p[i]].data,
         \A i, j \in DOMAIN g : p[i] = p[j] => i = j
  PROVE  /\ Apart(g) /\ BytesIn(g) \subseteq BytesIn(f)
         /\ \A k \in DOMAIN f : (\A i \in DOMAIN g : p[i] # k) =>
              BytesIn(g) \cap ValuesOf(f[k].data) = {}
<1>1. \A i \in DOMAIN g : p[i] \in DOMAIN f
  OBVIOUS
<1>2. Apart(g)
  BY <1>1 DEF Apart
<1>3. BytesIn(g) \subseteq BytesIn(f)
  BY <1>1 DEF BytesIn
<1>4. ASSUME NEW k \in DOMAIN f, \A i \in DOMAIN g : p[i] # k
      PROVE  BytesIn(g) \cap ValuesOf(f[k].data) = {}
  <2>1. \A i \in DOMAIN g : ValuesOf(g[i].data) \cap ValuesOf(f[k].data) = {}
    BY <1>1, <1>4 DEF Apart
  <2> QED
    BY <2>1 DEF BytesIn
<1> QED
  BY <1>2, <1>3, <1>4

LEMMA ApartRemoved ==
  ASSUME NEW F, NEW s \in Seq(F), NEW i \in 1..Len(s), Apart(s)
  PROVE  LET t == RemoveAt(s, i)
         IN /\ Apart(t) /\ BytesIn(t) \subseteq BytesIn(s)
            /\ BytesIn(t) \cap ValuesOf(s[i].data) = {}
            /\ ValuesOf(s[i].data) \subseteq BytesIn(s) /\ NoTwice(s[i].data)
<1> DEFINE t == RemoveAt(s, i)
           p == [j \in 1..(Len(s) - 1) |-> IF j < i THEN j ELSE j + 1]
<1>1. /\ t \in Seq(F) /\ Len(t) = Len(s) - 1
      /\ \A j \in 1..(Len(s) - 1) : t[j] = IF j < i THEN s[j] ELSE s[j + 1]
  BY RemoveAtValues
<1> HIDE DEF t
<1>2. DOMAIN t = 1..(Len(s) - 1) /\ DOMAIN s = 1..Len(s) /\ Len(s) \in Nat
  BY <1>1
<1>3. p \in [DOMAIN t -> DOMAIN s]
  BY <1>2
<1>4. \A j \in DOMAIN t : t[j].data = s[p[j]].data
  BY <1>1, <1>2
<1>5. \A j, k \in DOMAIN t : p[j] = p[k] => j = k
  BY <1>2
<1>6. \A j \in DOMAIN t : p[j] # i
  BY <1>2
<1> HIDE DEF p
<1>7. Apart(t) /\ BytesIn(t) \subseteq BytesIn(s) /\ BytesIn(t) \cap ValuesOf(s[i].data) = {}
  BY <1>2, <1>3, <1>4, <1>5, <1>6, ApartChosen
<1>8. ValuesOf(s[i].data) \subseteq BytesIn(s) /\ NoTwice(s[i].data)
  BY <1>2 DEF BytesIn, Apart
<1> QED
  BY <1>7, <1>8 DEF t

LEMMA ApartTail ==
  ASSUME NEW F, NEW s \in Seq(F), s # <<>>, Apart(s)
  PROVE  /\ Apart(Tail(s)) /\ BytesIn(Tail(s)) \subseteq BytesIn(s)
         /\ BytesIn(Tail(s)) \cap ValuesOf(Head(s).data) = {}
         /\ ValuesOf(Head(s).data) \subseteq BytesIn(s) /\ NoTwice(Head(s).data)
<1> DEFINE t == Tail(s)
           p == [j \in 1..(Len(s) - 1) |-> j + 1]
<1>1. /\ Len(s) \in Nat /\ Len(s) >= 1 /\ Head(s) = s[1] /\ Len(t) = Len(s) - 1
      /\ DOMAIN s = 1..Len(s) /\ DOMAIN t = 1..(Len(s) - 1)
      /\ \A j \in 1..(Len(s) - 1) : t[j] = s[j + 1]
  OBVIOUS
<1> HIDE DEF t
<1>2. p \in [DOMAIN t -> DOMAIN s]
  BY <1>1
<1>3. \A j \in DOMAIN t : t[j].data = s[p[j]].data
  BY <1>1
<1>4. \A j, k \in DOMAIN t : p[j] = p[k] => j = k
  BY <1>1
<1>5. \A j \in DOMAIN t : p[j] # 1
  BY <1>1
<1>6. 1 \in DOMAIN s
  BY <1>1
<1> HIDE DEF p
<1>7. Apart(t) /\ BytesIn(t) \subseteq BytesIn(s) /\ BytesIn(t) \cap ValuesOf(s[1].data) = {}
  BY <1>2, <1>3, <1>4, <1>5, <1>6, ApartChosen
<1>8. ValuesOf(s[1].data) \subseteq BytesIn(s) /\ NoTwice(s[1].data)
  BY <1>6 DEF BytesIn, Apart
<1> QED
  BY <1>1, <1>7, <1>8 DEF t

LEMMA ApartAppended ==
  ASSUME NEW F, NEW s \in Seq(F), NEW m \in F, Apart(s), NoTwice(m.data),
         ValuesOf(m.data) \cap BytesIn(s) = {}
  PROVE  LET t == Append(s, m)
         IN Apart(t) /\ BytesIn(t) = BytesIn(s) \cup ValuesOf(m.data)
<1> DEFINE t == Append(s, m)
           n == Len(s) + 1
<1>1. /\ DOMAIN s = 1..Len(s) /\ DOMAIN t = 1..n /\ Len(s) \in Nat
      /\ \A i \in 1..Len(s) : t[i] = s[i] /\ i # n /\ i \in 1..n
      /\ t[n] = m /\ n \in 1..n
      /\ \A i \in 1..n : i # n => i \in 1..Len(s)
  OBVIOUS
<1> HIDE DEF t, n
<1>2. \A i \in 1..Len(s) : ValuesOf(s[i].data) \cap ValuesOf(m.data) = {}
  <2>1. \A i \in 1..Len(s) : ValuesOf(s[i].data) \subseteq BytesIn(s)
    BY <1>1 DEF BytesIn
  <2> QED
    BY <2>1
<1>3. Apart(t)
  <2>1. \A i \in 1..n : NoTwice(t[i].data)
    BY <1>1 DEF Apart
  <2>2. \A i, j \in 1..Len(s) : i # j => ValuesOf(t[i].data) \cap ValuesOf(t[j].data) = {}
    BY <1>1 DEF Apart
  <2>3. \A i \in 1..Len(s) : /\ ValuesOf(t[i].data) \cap ValuesOf(t[n].data) = {}
                             /\ ValuesOf(t[n].data) \cap ValuesOf(t[i].data) = {}
    BY <1>1, <1>2
  <2>4. \A i, j \in 1..n : i # j => ValuesOf(t[i].data) \cap ValuesOf(t[j].data) = {}
    BY <1>1, <2>2, <2>3
  <2> QED
    BY <1>1, <2>1, <2>4 DEF Apart
<1>4. BytesIn(t) \subseteq BytesIn(s) \cup ValuesOf(m.data)
  BY <1>1 DEF BytesIn
<1>5. BytesIn(s) \subseteq BytesIn(t) /\ ValuesOf(m.data) \subseteq BytesIn(t)
  BY <1>1 DEF BytesIn
<1> QED
  BY <1>3, <1>4, <1>5 DEF t

LEMMA NothingAtAll ==
  /\ Apart(<<>>) /\ BytesIn(<<>>) = {} /\ Apart(EmptyChunk) /\ BytesIn(EmptyChunk) = {}
  /\ ValuesOf(<<>>) = {} /\ NoTwice(<<>>)
<1>1. ValuesOf(<<>>) = {} /\ NoTwice(<<>>)
  BY DEF ValuesOf, NoTwice
<1>2. Apart(<<>>) /\ BytesIn(<<>>) = {}
  BY DEF Apart, BytesIn
<1>3. \A i \in DOMAIN EmptyChunk : EmptyChunk[i].data = <<>>
  BY DEF EmptyChunk, NoMessage
<1>4. Apart(EmptyChunk)
  BY <1>1, <1>3 DEF Apart
<1>5. BytesIn(EmptyChunk) = {}
  BY <1>1, <1>3 DEF BytesIn
<1> QED
  BY <1>1, <1>2, <1>4, <1>5

LEMMA ApartReplaced ==
  ASSUME NEW c \in Chunk, NEW k, NEW d, NEW e, Apart(c), NoTwice(d),
         ValuesOf(d) \cap BytesIn(c) = {}
  PROVE  LET r == [c EXCEPT ![k] = [data |-> d, eot |-> e]]
         IN Apart(r) /\ BytesIn(r) \subseteq BytesIn(c) \cup ValuesOf(d)
<1> DEFINE x == [data |-> d, eot |-> e]
           r == [c EXCEPT ![k] = x]
<1>1. x.data = d
  OBVIOUS
<1> HIDE DEF x
<1>2. /\ DOMAIN r = DOMAIN c
      /\ \A i \in DOMAIN c : r[i] = IF i = k THEN x ELSE c[i]
  BY DEF Chunk
<1> HIDE DEF r
<1>3. \A i \in DOMAIN c : ValuesOf(c[i].data) \subseteq BytesIn(c)
  BY DEF BytesIn
<1>4. \A i \in DOMAIN c : ValuesOf(c[i].data) \cap ValuesOf(d) = {}
  BY <1>3
<1>5. Apart(r)
  BY <1>1, <1>2, <1>4 DEF Apart
<1>6. BytesIn(r) \subseteq BytesIn(c) \cup ValuesOf(d)
  BY <1>1, <1>2 DEF BytesIn
<1> QED
  BY <1>5, <1>6 DEF r, x

LEMMA WrittenApart ==
  ASSUME NEW c \in Chunk, NEW k \in DOMAIN c, c[k].eot = 1, Apart(c)
  PROVE  NoTwice(Written(c)) /\ ValuesOf(Written(c)) \subseteq BytesIn(c)
<1>1. PICK last \in DOMAIN c :
        Written(c) = FlattenSeq([n \in 1..(last + 1) |-> c[n - 1].data])
  BY WrittenFacts
<1> DEFINE seqs == [n \in 1..(last + 1) |-> c[n - 1].data]
<1>2. DOMAIN c = 0..(ChunkSize - 1) /\ ChunkSize \in 1..16
      /\ \A n \in 0..(ChunkSize - 1) : c[n].data \in Seq(1..MaxByte)
  BY HelperAssumption DEF Chunk
<1>3. last + 1 \in Nat /\ \A n \in 1..(last + 1) : n - 1 \in DOMAIN c
  BY <1>2
<1>4. seqs \in [1..(last + 1) -> Seq(1..MaxByte)]
  BY <1>2, <1>3
<1>5. \A n \in 1..(last + 1) : seqs[n] = c[n - 1].data
  BY <1>3
<1> HIDE DEF seqs
<1>10. seqs \in Seq(Seq(1..MaxByte)) /\ Len(seqs) = last + 1
  BY <1>3, <1>4
<1>6. NoTwiceAmong(seqs, last + 1)
  <2> SUFFICES ASSUME NEW i \in 1..(last + 1), NEW j \in 1..(last + 1),
                      NEW x \in 1..Len(seqs[i]), NEW y \in 1..Len(seqs[j]),
                      seqs[i][x] = seqs[j][y]
               PROVE  i = j /\ x = y
    BY DEF NoTwiceAmong
  <2>1. i - 1 \in DOMAIN c /\ j - 1 \in DOMAIN c /\ seqs[i] = c[i - 1].data
        /\ seqs[j] = c[j - 1].data
    BY <1>3, <1>5
  <2>2. seqs[i][x] \in ValuesOf(c[i - 1].data) /\ seqs[j][y] \in ValuesOf(c[j - 1].data)
    BY <2>1 DEF ValuesOf
  <2>3. i - 1 = j - 1
    BY <2>1, <2>2 DEF Apart
  <2>4. i = j
    BY <1>3, <2>3
  <2>5. NoTwice(seqs[i])
    BY <2>1 DEF Apart
  <2> QED
    BY <2>4, <2>5 DEF NoTwice
<1>7. NoTwice(FlattenSeq(seqs)) /\ Origin(seqs, last + 1, FlattenSeq(seqs))
  BY <1>6, <1>10, FlattenElements
<1>8. ASSUME NEW p \in 1..Len(FlattenSeq(seqs)) PROVE FlattenSeq(seqs)[p] \in BytesIn(c)
  <2>1. PICK i \in 1..(last + 1) : \E x \in 1..Len(seqs[i]) : FlattenSeq(seqs)[p] = seqs[i][x]
    BY <1>7 DEF Origin
  <2>2. i - 1 \in DOMAIN c /\ seqs[i] = c[i - 1].data
    BY <1>3, <1>5
  <2>3. FlattenSeq(seqs)[p] \in ValuesOf(c[i - 1].data)
    BY <2>1, <2>2 DEF ValuesOf
  <2> QED
    BY <2>2, <2>3 DEF BytesIn
<1>9. ValuesOf(FlattenSeq(seqs)) \subseteq BytesIn(c)
  BY <1>8 DEF ValuesOf
<1> QED
  BY <1>1, <1>7, <1>9 DEF seqs

(* A value in no place. *)
Fresh(b) == b \notin AtSlot /\ \A h \in Helper : b \notin AtHelper(h)

LEMMA FreshValues ==
  ASSUME TypeInv, OnePlace
  PROVE  Fresh(0) /\ Fresh(dr) /\ Fresh(printed + 1) /\ printed \in Nat
<1>1. printed \in Nat /\ 0 \notin 1..printed /\ printed + 1 \notin 1..printed
  BY FirmwareAssumption DEF TypeInv, UsartOK
<1> QED
  BY <1>1 DEF OnePlace, Fresh

(* The firmware moves bytes among its places, and may let in those of B. *)
SlotChange(B) ==
  /\ AtSlot' \subseteq AtSlot \cup B /\ SlotApart'
  /\ \A b \in B : Fresh(b) /\ b \in 1..printed'
  /\ printed' \in Nat /\ printed <= printed'
  /\ dr' \in 0..printed' /\ Fresh(dr') /\ dr' \notin B
  /\ UNCHANGED <<sock, chunk, out>>

LEMMA SlotMove ==
  ASSUME TypeInv, OnePlace, NEW B, SlotChange(B)
  PROVE  OnePlace'
<1>1. \A h \in Helper : AtHelper(h)' = AtHelper(h)
  BY DEF AtHelper, SlotChange
<1>2. \A h \in Helper : HelperApart(h)'
  BY DEF OnePlace, HelperApart, SlotChange
<1>3. 1..printed \subseteq 1..printed'
  BY FreshValues DEF SlotChange
<1>4. \A h \in Helper : AtSlot' \cap AtHelper(h)' = {} /\ dr' \notin AtHelper(h)'
                        /\ AtHelper(h)' \subseteq 1..printed'
  BY <1>1, <1>3 DEF OnePlace, Fresh, SlotChange
<1>5. AtSlot' \subseteq 1..printed' /\ dr' \notin AtSlot'
  BY <1>3 DEF OnePlace, Fresh, SlotChange
<1>6. \A g, h \in Helper : g # h => AtHelper(g)' \cap AtHelper(h)' = {}
  BY <1>1 DEF OnePlace
<1> QED
  BY <1>2, <1>4, <1>5, <1>6 DEF OnePlace, SlotChange

(* The helper h moves bytes among its places, or drops some. *)
LEMMA HelperMove ==
  ASSUME OnePlace, NEW h \in Helper, HelperApart(h)', AtHelper(h)' \subseteq AtHelper(h),
         \A g \in Helper : g # h => UNCHANGED <<sock[g], chunk[g], out[g]>>,
         UNCHANGED <<serialrxq, cpc, msg, bus, dr, printed>>
  PROVE  OnePlace'
<1>1. AtSlot' = AtSlot /\ SlotApart'
  BY DEF AtSlot, SlotApart, Held, Holds, OnePlace
<1>2. \A g \in Helper : g # h => AtHelper(g)' = AtHelper(g)
  BY DEF AtHelper
<1>3. \A g \in Helper : HelperApart(g)'
  BY DEF OnePlace, HelperApart
<1>4. \A g \in Helper : AtHelper(g)' \subseteq AtHelper(g)
  BY <1>2
<1> HIDE DEF AtHelper, AtSlot, SlotApart, HelperApart
<1> QED
  BY <1>1, <1>3, <1>4 DEF OnePlace

LEMMA SlotStays ==
  ASSUME TypeInv, OnePlace, AtSlot' \subseteq AtSlot, SlotApart',
         UNCHANGED <<dr, printed, sock, chunk, out>>
  PROVE  OnePlace'
<1>1. SlotChange({})
  BY FreshValues DEF SlotChange, OnePlace
<1> QED
  BY <1>1, SlotMove

(* The receive interrupt puts a new byte in serialrxq or drops it. *)
LEMMA ByteTaken ==
  ASSUME TypeInv, OnePlace, NEW b \in 1..printed', Fresh(b), RxIsr(b), Holds' = Holds,
         msg' = msg, Apart(bus'), BytesIn(bus') \subseteq BytesIn(bus),
         printed' \in Nat, printed <= printed', dr' \in 0..printed', Fresh(dr'), dr' # b,
         UNCHANGED <<sock, chunk, out>>
  PROVE  OnePlace'
<1>1. Held' = Held /\ (Holds => NoTwice(msg.data))
  BY DEF Held, Holds, OnePlace, SlotApart
<1>2. CASE serialrxq' = Append(serialrxq, b)
  <2>1. serialrxq \in Seq(1..MaxByte) /\ NoTwice(serialrxq) /\ b \notin ValuesOf(serialrxq)
    BY DEF TypeInv, UsartOK, OnePlace, SlotApart, Fresh, AtSlot
  <2>2. NoTwice(serialrxq') /\ ValuesOf(serialrxq') = ValuesOf(serialrxq) \cup {b}
    BY <1>2, <2>1, AppendValues
  <2>3. AtSlot' \subseteq AtSlot \cup {b}
    BY <1>1, <2>2 DEF AtSlot
  <2>4. SlotApart'
    BY <1>1, <2>2 DEF SlotApart, OnePlace, Fresh, AtSlot
  <2>5. SlotChange({b})
    BY <2>3, <2>4 DEF SlotChange
  <2> QED
    BY <2>5, SlotMove
<1>3. CASE serialrxq' = serialrxq
  <2>1. AtSlot' \subseteq AtSlot
    BY <1>1, <1>3 DEF AtSlot
  <2>2. SlotApart'
    BY <1>1, <1>3 DEF SlotApart, OnePlace
  <2>3. SlotChange({})
    BY <2>1, <2>2 DEF SlotChange
  <2> QED
    BY <2>3, SlotMove
<1> QED
  BY <1>2, <1>3 DEF RxIsr

LEMMA UartOnePlace ==
  ASSUME TypeInv, OnePlace, UartByte \/ UartTx, UNCHANGED helperVars
  PROVE  OnePlace'
<1>1. UNCHANGED <<sock, chunk, out, bus, msg, cpc>>
  BY DEF UartByte, UartTx, netVars, taskVars, helperVars
<1>2. Apart(bus') /\ BytesIn(bus') \subseteq BytesIn(bus) /\ Held' = Held /\ Holds' = Holds
  BY <1>1 DEF OnePlace, SlotApart, Held, Holds
<1>3. CASE UNCHANGED serialrxq /\ printed' \in {printed, printed + 1}
           /\ (dr' = dr \/ (dr' = printed + 1 /\ printed' = printed + 1))
  <2>1. AtSlot' = AtSlot /\ SlotApart'
    BY <1>1, <1>2, <1>3 DEF AtSlot, SlotApart, OnePlace
  <2>2. /\ printed \in Nat /\ printed' \in Nat /\ printed <= printed' /\ dr' \in 0..printed'
        /\ Fresh(dr')
    BY <1>3, FreshValues DEF OnePlace
  <2>3. SlotChange({})
    BY <1>1, <2>1, <2>2 DEF SlotChange
  <2> QED
    BY <2>3, SlotMove
<1>4. ASSUME RxIsr(printed + 1), dr' = dr, printed' = printed + 1 PROVE OnePlace'
  <2>1. Fresh(printed + 1) /\ Fresh(dr') /\ printed \in Nat /\ dr \in 0..printed
    BY <1>4, FreshValues DEF OnePlace
  <2>2. printed + 1 \in 1..printed' /\ printed' \in Nat /\ printed <= printed'
        /\ dr' \in 0..printed' /\ dr' # printed + 1
    BY <1>4, <2>1
  <2> QED
    BY <1>1, <1>2, <1>4, <2>1, <2>2, ByteTaken
<1>5. CASE UartByte
  BY <1>3, <1>4, <1>5 DEF UartByte
<1>6. CASE UartTx
  BY <1>3, <1>6 DEF UartTx, usartVars
<1> QED
  BY <1>5, <1>6

LEMMA ConTaskOnePlace ==
  ASSUME TypeInv, OnePlace, ConTask \/ ConSendFails, UNCHANGED helperVars
  PROVE  OnePlace'
<1>1. UNCHANGED <<dr, printed, sock, chunk, out>>
  BY DEF ConTask, ConSendFails, ConRecv, ConPack, ConSend, ConTake, ConAcked, ConTimeoutLate,
         ConTimeout, ConWoken, netVars, usartVars, helperVars
<1>2. SlotApart /\ serialrxq \in Seq(1..MaxByte) /\ msg \in FromSlotFrame
      /\ bus \in Seq(FromSlotFrame)
  BY DEF OnePlace, TypeInv, UsartOK, TaskOK, ChannelsOK
<1>3. CASE ConRecv
  <2> DEFINE n == IF Len(serialrxq) < MsgLen THEN Len(serialrxq) ELSE MsgLen
             a == SubSeq(serialrxq, 1, n)
             b == SubSeq(serialrxq, n + 1, Len(serialrxq))
  <2>1. msg' = [msg EXCEPT !.data = a] /\ serialrxq' = b /\ cpc' = "pack" /\ bus' = bus
    BY <1>3 DEF ConRecv, netVars
  <2>2. n \in 0..Len(serialrxq)
    BY <1>2, FirmwareAssumption
  <2> HIDE DEF n
  <2>3. /\ NoTwice(a) /\ NoTwice(b) /\ ValuesOf(a) \cap ValuesOf(b) = {}
        /\ ValuesOf(a) \subseteq ValuesOf(serialrxq)
        /\ ValuesOf(b) \subseteq ValuesOf(serialrxq)
    <3>1. NoTwice(serialrxq)
      BY <1>2 DEF SlotApart
    <3> QED
      BY <1>2, <2>2, <3>1, CutAt, Zenon
  <2> HIDE DEF a, b
  <2>4. msg'.data = a
    BY <1>2, <2>1 DEF FromSlotFrame
  <2>5. Held' = ValuesOf(a) /\ Holds'
    BY <2>1, <2>4 DEF Held, Holds
  <2>6. AtSlot' \subseteq AtSlot
    BY <2>1, <2>3, <2>5 DEF AtSlot
  <2>7. SlotApart'
    BY <1>2, <2>1, <2>3, <2>4, <2>5 DEF SlotApart
  <2> QED
    BY <1>1, <2>6, <2>7, SlotStays
<1>4. CASE ConPack
  <2>1. msg'.data = msg.data /\ UNCHANGED <<serialrxq, bus>> /\ cpc = "pack" /\ cpc' = "send"
    BY <1>4 DEF ConPack, Message, usartVars, netVars
  <2>2. Held' = Held /\ Holds /\ Holds'
    BY <2>1 DEF Held, Holds
  <2>3. AtSlot' = AtSlot /\ SlotApart'
    BY <1>2, <2>1, <2>2 DEF AtSlot, SlotApart
  <2> QED
    BY <1>1, <2>3, SlotStays
<1>5. CASE ConSend
  <2>1. bus' = Append(bus, msg) /\ cpc = "send" /\ cpc' \in {"wait", "recv"}
        /\ serialrxq' = serialrxq
    BY <1>5 DEF ConSend, usartVars
  <2>2. Holds /\ ~Holds' /\ Held = ValuesOf(msg.data) /\ Held' = {}
    BY <2>1 DEF Holds, Held
  <2>3. Apart(bus') /\ BytesIn(bus') = BytesIn(bus) \cup Held
    <3>1. Apart(bus) /\ NoTwice(msg.data) /\ ValuesOf(msg.data) \cap BytesIn(bus) = {}
      BY <1>2, <2>2 DEF SlotApart
    <3>2. LET t == Append(bus, msg)
          IN Apart(t) /\ BytesIn(t) = BytesIn(bus) \cup ValuesOf(msg.data)
      BY <1>2, <3>1, ApartAppended
    <3> QED
      BY <2>1, <2>2, <3>2
  <2>4. AtSlot' \subseteq AtSlot
    BY <2>1, <2>2, <2>3 DEF AtSlot
  <2>5. SlotApart'
    BY <1>2, <2>1, <2>2, <2>3 DEF SlotApart
  <2> QED
    BY <1>1, <2>4, <2>5, SlotStays
<1>6. ASSUME cpc' = "recv", UNCHANGED <<serialrxq, bus>> PROVE OnePlace'
  <2>1. Held' = {} /\ ~Holds'
    BY <1>6 DEF Held, Holds
  <2>2. AtSlot' \subseteq AtSlot /\ SlotApart'
    BY <1>2, <1>6, <2>1 DEF AtSlot, SlotApart
  <2> QED
    BY <1>1, <2>2, SlotStays
<1>7. CASE ConSendFails
  BY <1>6, <1>7 DEF ConSendFails, usartVars
<1>8. ASSUME NEW from, ConTake(from) PROVE OnePlace'
  BY <1>6, <1>8 DEF ConTake, usartVars, netVars
<1> QED
  BY <1>3, <1>4, <1>5, <1>7, <1>8
     DEF ConTask, ConAcked, ConTimeoutLate, ConTimeout, ConWoken
(* An answer of the canrx task carries no byte of the Pi. *)
LEMMA AnswerOnePlace ==
  ASSUME TypeInv, OnePlace, canrxq # <<>>,
         \/ bus' = bus
         \/ \E type \in {ACK, NAK} :
              \/ bus' = Append(bus, Reply(Head(canrxq), type))
              \/ bus' = Append(bus, [Reply(Head(canrxq), type) EXCEPT !.eot = 0, !.seq = 0])
  PROVE  /\ Apart(bus') /\ BytesIn(bus') \subseteq BytesIn(bus)
         /\ /\ Holds' = Holds
            /\ UNCHANGED <<serialrxq, msg, dr, printed, sock, chunk, out>>
            => OnePlace'
<1>1. Apart(bus) /\ SlotApart /\ bus \in Seq(FromSlotFrame)
  BY DEF OnePlace, SlotApart, TypeInv, ChannelsOK
<1>2. ASSUME NEW m \in FromSlotFrame, m.data = <<>>, bus' = Append(bus, m)
      PROVE  Apart(bus') /\ BytesIn(bus') \subseteq BytesIn(bus)
  <2>1. NoTwice(m.data) /\ ValuesOf(m.data) = {}
    BY <1>2, NothingAtAll
  <2>2. LET t == Append(bus, m)
        IN Apart(t) /\ BytesIn(t) = BytesIn(bus) \cup ValuesOf(m.data)
    BY <1>1, <2>1, ApartAppended
  <2> QED
    BY <1>2, <2>1, <2>2
<1>3. Apart(bus') /\ BytesIn(bus') \subseteq BytesIn(bus)
  <2>1. CASE bus' = bus
    BY <1>1, <2>1
  <2>2. ASSUME NEW type \in {ACK, NAK}, bus' = Append(bus, Reply(Head(canrxq), type))
        PROVE  Apart(bus') /\ BytesIn(bus') \subseteq BytesIn(bus)
    <3> DEFINE m == Reply(Head(canrxq), type)
    <3>1. m \in FromSlotFrame /\ m.data = <<>> /\ bus' = Append(bus, m)
      BY <2>2, ReceivedType, ReplyIsFrame
    <3> HIDE DEF m
    <3> QED
      BY <3>1, <1>2
  <2>3. ASSUME NEW type \in {ACK, NAK},
               bus' = Append(bus, [Reply(Head(canrxq), type) EXCEPT !.eot = 0, !.seq = 0])
        PROVE  Apart(bus') /\ BytesIn(bus') \subseteq BytesIn(bus)
    <3> DEFINE m == [Reply(Head(canrxq), type) EXCEPT !.eot = 0, !.seq = 0]
    <3>1. m \in FromSlotFrame /\ m.data = <<>> /\ bus' = Append(bus, m)
      BY <2>3, ReceivedType, ReplyIsFrame
    <3> HIDE DEF m
    <3> QED
      BY <3>1, <1>2
  <2> QED
    BY <2>1, <2>2, <2>3
<1>4. ASSUME Holds' = Holds, UNCHANGED <<serialrxq, msg, dr, printed, sock, chunk, out>>
      PROVE  OnePlace'
  <2>1. Held' = Held
    BY <1>4 DEF Held
  <2>2. AtSlot' \subseteq AtSlot /\ SlotApart'
    BY <1>1, <1>3, <1>4, <2>1 DEF AtSlot, SlotApart
  <2> QED
    BY <1>4, <2>2, SlotStays
<1> QED
  BY <1>3, <1>4

LEMMA RxTaskOnePlace ==
  ASSUME TypeInv, OnePlace, RxTask, UNCHANGED helperVars
  PROVE  OnePlace'
<1>1. canrxq # <<>> /\ UNCHANGED <<msg, printed, sock, chunk, out>> /\ Holds' = Holds
  <2>1. canrxq # <<>> /\ UNCHANGED <<msg, printed, sock, chunk, out>>
    BY DEF RxTask, RxConsoleConn, RxConsoleDisc, RxConsoleRecv, RxAck, Received,
           SerialRxEnable, taskVars, usartVars, helperVars
  <2>2. cpc' = cpc \/ (cpc = "wait" /\ cpc' = "woken")
    BY DEF RxTask, RxConsoleConn, RxConsoleDisc, RxConsoleRecv, RxAck, vTaskResume, taskVars
  <2> QED
    BY <2>1, <2>2 DEF Holds
<1>2. \/ bus' = bus
      \/ \E type \in {ACK, NAK} :
           \/ bus' = Append(bus, Reply(Head(canrxq), type))
           \/ bus' = Append(bus, [Reply(Head(canrxq), type) EXCEPT !.eot = 0, !.seq = 0])
  BY DEF RxTask, RxConsoleConn, RxConsoleDisc, RxConsoleRecv, RxAck, Respond
<1>3. CASE RxConsoleConn /\ dr # 0
  <2>1. RxIsr(dr) /\ dr' = 0
    BY <1>3 DEF RxConsoleConn, SerialRxEnable
  <2>2. dr \in 1..printed' /\ printed' \in Nat /\ printed <= printed' /\ dr' \in 0..printed'
        /\ dr' # dr /\ Fresh(dr) /\ Fresh(dr')
    BY <1>1, <1>3, <2>1, FreshValues DEF OnePlace
  <2>3. Apart(bus') /\ BytesIn(bus') \subseteq BytesIn(bus)
    BY <1>1, <1>2, AnswerOnePlace
  <2> QED
    BY <1>1, <2>1, <2>2, <2>3, ByteTaken
<1>4. CASE RxConsoleConn /\ dr = 0
  <2>1. UNCHANGED <<serialrxq, dr>>
    BY <1>4 DEF RxConsoleConn, SerialRxEnable
  <2> QED
    BY <1>1, <1>2, <2>1, AnswerOnePlace
<1>5. CASE RxConsoleDisc \/ RxConsoleRecv \/ RxAck
  <2>1. UNCHANGED <<serialrxq, dr>>
    BY <1>5 DEF RxConsoleDisc, RxConsoleRecv, RxAck, usartVars
  <2> QED
    BY <1>1, <1>2, <2>1, AnswerOnePlace
<1> QED
  BY <1>3, <1>4, <1>5 DEF RxTask

LEMMA BusOnePlace ==
  ASSUME TypeInv, OnePlace, Deliver \/ LoseToFirmware \/ LoseToHelper,
         UNCHANGED <<firmwareVars, helperVars>>
  PROVE  OnePlace'
<1>1. /\ UNCHANGED <<serialrxq, msg, cpc, dr, printed, chunk, out>>
      /\ Held' = Held /\ Holds' = Holds
  BY DEF firmwareVars, taskVars, usartVars, helperVars, Held, Holds
<1>2. /\ bus \in Seq(FromSlotFrame) /\ sock \in [Helper -> Seq(FromSlotFrame)]
      /\ SlotApart /\ Apart(bus)
  BY DEF TypeInv, ChannelsOK, OnePlace, SlotApart
<1>3. ASSUME NEW i \in 1..Len(bus), bus' = RemoveAt(bus, i)
      PROVE  /\ Apart(bus') /\ BytesIn(bus') \subseteq BytesIn(bus)
             /\ BytesIn(bus') \cap ValuesOf(bus[i].data) = {}
             /\ ValuesOf(bus[i].data) \subseteq BytesIn(bus) /\ NoTwice(bus[i].data)
             /\ AtSlot' \subseteq AtSlot /\ SlotApart'
  <2>1. /\ Apart(bus') /\ BytesIn(bus') \subseteq BytesIn(bus)
        /\ BytesIn(bus') \cap ValuesOf(bus[i].data) = {}
        /\ ValuesOf(bus[i].data) \subseteq BytesIn(bus) /\ NoTwice(bus[i].data)
    BY <1>2, <1>3, ApartRemoved
  <2>2. AtSlot' \subseteq AtSlot /\ SlotApart'
    BY <1>1, <1>2, <2>1 DEF AtSlot, SlotApart
  <2> QED
    BY <2>1, <2>2
<1>4. CASE LoseToFirmware
  <2>1. bus' = bus /\ sock' = sock
    BY <1>4 DEF LoseToFirmware
  <2>2. AtSlot' = AtSlot /\ SlotApart'
    BY <1>1, <1>2, <2>1 DEF AtSlot, SlotApart
  <2> QED
    BY <1>1, <2>1, <2>2, SlotStays
<1>5. CASE LoseToHelper
  <2>1. sock' = sock /\ \E i \in 1..Len(bus) : bus' = RemoveAt(bus, i)
    BY <1>5 DEF LoseToHelper
  <2>2. AtSlot' \subseteq AtSlot /\ SlotApart'
    BY <1>3, <2>1
  <2> QED
    BY <1>1, <2>1, <2>2, SlotStays
<1>6. CASE Deliver
  <2>1. PICK i \in 1..Len(bus) :
          /\ bus' = RemoveAt(bus, i)
          /\ sock' = [h \in Helper |->
                        IF h = bus[i].dst /\ h \in listening
                          THEN Append(sock[h], OverTheWire(bus[i])) ELSE sock[h]]
    BY <1>6 DEF Deliver
  <2> DEFINE m == bus[i]
             moved == ValuesOf(m.data)
  <2>2. m \in FromSlotFrame /\ OverTheWire(m) = m
    BY <1>2, SlotFrameArrives
  <2>3. \A h \in Helper : \/ sock'[h] = sock[h]
                          \/ h = m.dst /\ sock'[h] = Append(sock[h], m)
    BY <2>1, <2>2
  <2>4. /\ BytesIn(bus') \cap moved = {} /\ moved \subseteq AtSlot /\ NoTwice(m.data)
        /\ AtSlot' \subseteq AtSlot /\ AtSlot' \cap moved = {} /\ SlotApart'
    <3>1. /\ BytesIn(bus') \cap moved = {} /\ moved \subseteq BytesIn(bus) /\ NoTwice(m.data)
          /\ AtSlot' \subseteq AtSlot /\ SlotApart'
      BY <1>3, <2>1
    <3> HIDE DEF m, moved
    <3>2. moved \subseteq AtSlot
      BY <3>1 DEF AtSlot
    <3>3. AtSlot' \cap moved = {}
      BY <1>1, <1>2, <3>1 DEF AtSlot, SlotApart
    <3> QED
      BY <3>1, <3>2, <3>3
  <2>5. ASSUME NEW h \in Helper
        PROVE  /\ HelperApart(h)' /\ AtHelper(h)' \subseteq AtHelper(h) \cup moved
               /\ h # m.dst => AtHelper(h)' = AtHelper(h)
    <3>1. HelperApart(h) /\ AtSlot \cap AtHelper(h) = {}
      BY DEF OnePlace
    <3>2. CASE sock'[h] = sock[h]
      <4>1. AtHelper(h)' = AtHelper(h) /\ HelperApart(h)'
        BY <1>1, <3>1, <3>2 DEF AtHelper, HelperApart
      <4> QED
        BY <4>1
    <3>3. CASE h = m.dst /\ sock'[h] = Append(sock[h], m)
      <4> HIDE DEF m
      <4>1. moved \cap AtHelper(h) = {} /\ moved \cap BytesIn(sock[h]) = {}
        BY <2>4, <3>1 DEF AtHelper
      <4>2. Apart(sock[h]) /\ sock[h] \in Seq(FromSlotFrame)
        BY <1>2, <3>1 DEF HelperApart
      <4>3. LET t == Append(sock[h], m)
            IN Apart(t) /\ BytesIn(t) = BytesIn(sock[h]) \cup ValuesOf(m.data)
        BY <2>2, <2>4, <4>1, <4>2, ApartAppended
      <4>4. Apart(sock'[h]) /\ BytesIn(sock'[h]) = BytesIn(sock[h]) \cup moved
        BY <3>3, <4>3
      <4> HIDE DEF moved
      <4>5. AtHelper(h)' \subseteq AtHelper(h) \cup moved
        BY <1>1, <4>4 DEF AtHelper
      <4>6. HelperApart(h)'
        BY <1>1, <3>1, <4>1, <4>4 DEF HelperApart, AtHelper
      <4> QED
        BY <3>3, <4>5, <4>6
    <3> QED
      BY <2>3, <3>2, <3>3
  <2> HIDE DEF m, moved
  <2>6. \A h \in Helper : AtSlot' \cap AtHelper(h)' = {}
    <3>1. \A h \in Helper : AtSlot \cap AtHelper(h) = {}
      BY DEF OnePlace
    <3> QED
      BY <2>4, <2>5, <3>1
  <2>7. ASSUME NEW g \in Helper, NEW h \in Helper, g # h
        PROVE  AtHelper(g)' \cap AtHelper(h)' = {}
    <3>1. AtHelper(g) \cap AtHelper(h) = {} /\ AtSlot \cap AtHelper(g) = {}
          /\ AtSlot \cap AtHelper(h) = {}
      BY <2>7 DEF OnePlace
    <3> QED
      BY <2>4, <2>5, <2>7, <3>1
  <2>8. dr' \notin AtSlot' /\ AtSlot' \subseteq 1..printed' /\ dr' \in 0..printed'
    BY <1>1, <2>4 DEF OnePlace
  <2>9. \A h \in Helper : AtHelper(h)' \subseteq 1..printed' /\ dr' \notin AtHelper(h)'
    BY <1>1, <2>4, <2>5 DEF OnePlace
  <2> QED
    BY <2>4, <2>5, <2>6, <2>7, <2>8, <2>9 DEF OnePlace
<1> QED
  BY <1>4, <1>5, <1>6
(* A step after which everything in the places of h was there before. *)
LEMMA HelperStays ==
  ASSUME TypeInv, OnePlace, NEW h \in Helper, UNCHANGED <<firmwareVars, bus>>,
         \/ sock' = sock
         \/ sock[h] # <<>> /\ sock' = [sock EXCEPT ![h] = Tail(@)]
         \/ sock' = [sock EXCEPT ![h] = <<>>],
         chunk' = chunk \/ chunk' = [chunk EXCEPT ![h] = EmptyChunk], out' = out
  PROVE  OnePlace'
<1>1. UNCHANGED <<serialrxq, cpc, msg, bus, dr, printed>>
  BY DEF firmwareVars, taskVars, usartVars
<1>2. /\ sock \in [Helper -> Seq(FromSlotFrame)] /\ chunk \in [Helper -> Chunk]
      /\ HelperApart(h)
  BY DEF TypeInv, ChannelsOK, HelpersOK, OnePlace
<1>3. Apart(sock'[h]) /\ BytesIn(sock'[h]) \subseteq BytesIn(sock[h])
  <2>1. Apart(sock[h]) /\ sock[h] \in Seq(FromSlotFrame)
    BY <1>2 DEF HelperApart
  <2>2. CASE sock[h] # <<>> /\ sock' = [sock EXCEPT ![h] = Tail(@)]
    <3>1. Apart(Tail(sock[h])) /\ BytesIn(Tail(sock[h])) \subseteq BytesIn(sock[h])
      BY <2>1, <2>2, ApartTail
    <3> QED
      BY <1>2, <2>2, <3>1
  <2>3. CASE sock' = [sock EXCEPT ![h] = <<>>]
    BY <1>2, <2>3, NothingAtAll
  <2> QED
    BY <2>1, <2>2, <2>3
<1>4. Apart(chunk'[h]) /\ BytesIn(chunk'[h]) \subseteq BytesIn(chunk[h])
  BY <1>2, NothingAtAll DEF HelperApart
<1>5. HelperApart(h)' /\ AtHelper(h)' \subseteq AtHelper(h)
  BY <1>2, <1>3, <1>4 DEF HelperApart, AtHelper
<1>6. \A g \in Helper : g # h => UNCHANGED <<sock[g], chunk[g], out[g]>>
  BY <1>2
<1> QED
  BY <1>1, <1>5, <1>6, HelperMove

(* What write_chunk_to_stdout writes leaves the chunk for the output. *)
LEMMA FinishApart ==
  ASSUME TypeInv, NEW h \in Helper, NEW c \in Chunk, NEW k \in DOMAIN c, c[k].eot = 1,
         Apart(c), NoTwice(out[h]), ValuesOf(out[h]) \cap BytesIn(c) = {}, Finish(h, c)
  PROVE  /\ NoTwice(out'[h]) /\ ValuesOf(out'[h]) \subseteq ValuesOf(out[h]) \cup BytesIn(c)
         /\ Apart(chunk'[h]) /\ BytesIn(chunk'[h]) = {}
         /\ \A g \in Helper : g # h => UNCHANGED <<chunk[g], out[g]>>
<1> DEFINE w == Written(c)
<1>1. NoTwice(w) /\ ValuesOf(w) \subseteq BytesIn(c) /\ w \in Seq(1..MaxByte)
  BY WrittenApart, WrittenType
<1>2. /\ out \in [Helper -> Seq(1..MaxByte)] /\ chunk \in [Helper -> Chunk]
      /\ out' = [out EXCEPT ![h] = @ \o w] /\ chunk' = [chunk EXCEPT ![h] = EmptyChunk]
  BY DEF TypeInv, HelpersOK, Finish
<1> HIDE DEF w
<1>3. out'[h] = out[h] \o w /\ chunk'[h] = EmptyChunk
      /\ \A g \in Helper : g # h => UNCHANGED <<chunk[g], out[g]>>
  BY <1>2
<1>4. /\ ValuesOf(out[h] \o w) = ValuesOf(out[h]) \cup ValuesOf(w)
      /\ NoTwice(out[h] \o w)
  <2>1. out[h] \in Seq(1..MaxByte) /\ ValuesOf(out[h]) \cap ValuesOf(w) = {}
    BY <1>1, <1>2
  <2> QED
    BY <1>1, <2>1, ConcatValues
<1> QED
  BY <1>1, <1>3, <1>4, NothingAtAll

LEMMA RecvDatOnePlace ==
  ASSUME TypeInv, OnePlace, NEW h \in Helper, RecvDat(h), UNCHANGED firmwareVars
  PROVE  OnePlace'
<1> DEFINE m == Head(sock[h])
           c == [chunk[h] EXCEPT ![m.seq] = [data |-> m.data, eot |-> m.eot]]
<1>1. /\ sock[h] # <<>> /\ sock' = [sock EXCEPT ![h] = Tail(@)]
      /\ \/ Complete(c, FALSE) /\ Finish(h, c)
         \/ chunk' = [chunk EXCEPT ![h] = c] /\ out' = out
      /\ bus' = bus
  BY DEF RecvDat, ReadCan
<1>2. /\ sock \in [Helper -> Seq(FromSlotFrame)] /\ chunk[h] \in Chunk
      /\ chunk \in [Helper -> Chunk] /\ HelperApart(h) /\ m \in FromSlotFrame
  BY <1>1, SocketType DEF TypeInv, ChannelsOK, HelpersOK, OnePlace
<1>3. /\ Apart(sock'[h]) /\ BytesIn(sock'[h]) \subseteq BytesIn(sock[h])
      /\ BytesIn(sock'[h]) \cap ValuesOf(m.data) = {}
      /\ ValuesOf(m.data) \subseteq BytesIn(sock[h]) /\ NoTwice(m.data)
  <2>1. Apart(sock[h]) /\ sock[h] \in Seq(FromSlotFrame) /\ sock'[h] = Tail(sock[h])
    BY <1>1, <1>2 DEF HelperApart
  <2> QED
    BY <1>1, <2>1, ApartTail
<1>4. c \in Chunk
  BY <1>2, ReplacedIsChunk
<1> HIDE DEF m
<1>5. Apart(c) /\ BytesIn(c) \subseteq BytesIn(chunk[h]) \cup ValuesOf(m.data)
  <2>1. Apart(chunk[h]) /\ ValuesOf(m.data) \cap BytesIn(chunk[h]) = {}
    BY <1>2, <1>3 DEF HelperApart
  <2> QED
    BY <1>2, <1>3, <2>1, ApartReplaced
<1> HIDE DEF c
<1>6. /\ BytesIn(c) \subseteq BytesIn(chunk[h]) \cup BytesIn(sock[h])
      /\ BytesIn(c) \cap BytesIn(sock'[h]) = {}
      /\ ValuesOf(out[h]) \cap BytesIn(c) = {} /\ NoTwice(out[h])
      /\ BytesIn(sock'[h]) \cap ValuesOf(out[h]) = {}
  BY <1>2, <1>3, <1>5 DEF HelperApart
<1>7. UNCHANGED <<serialrxq, cpc, msg, bus, dr, printed>>
  BY <1>1 DEF firmwareVars, taskVars, usartVars
<1>8. CASE chunk' = [chunk EXCEPT ![h] = c] /\ out' = out
  <2>1. chunk'[h] = c /\ out'[h] = out[h]
        /\ \A g \in Helper : g # h => UNCHANGED <<sock[g], chunk[g], out[g]>>
    BY <1>1, <1>2, <1>8
  <2>2. HelperApart(h)'
    BY <1>3, <1>5, <1>6, <2>1 DEF HelperApart
  <2>3. AtHelper(h)' \subseteq AtHelper(h)
    BY <1>3, <1>6, <2>1 DEF AtHelper
  <2> QED
    BY <1>7, <2>1, <2>2, <2>3, HelperMove
<1>9. CASE Complete(c, FALSE) /\ Finish(h, c)
  <2>1. PICK k \in DOMAIN c : c[k].eot = 1
    BY <1>9 DEF Complete
  <2>2. /\ NoTwice(out'[h]) /\ ValuesOf(out'[h]) \subseteq ValuesOf(out[h]) \cup BytesIn(c)
        /\ Apart(chunk'[h]) /\ BytesIn(chunk'[h]) = {}
        /\ \A g \in Helper : g # h => UNCHANGED <<chunk[g], out[g]>>
    BY <1>4, <1>5, <1>6, <1>9, <2>1, FinishApart
  <2>3. \A g \in Helper : g # h => UNCHANGED <<sock[g], chunk[g], out[g]>>
    BY <1>1, <1>2, <2>2
  <2>4. HelperApart(h)'
    BY <1>3, <1>6, <2>2 DEF HelperApart
  <2>5. AtHelper(h)' \subseteq AtHelper(h)
    BY <1>3, <1>6, <2>2 DEF AtHelper
  <2> QED
    BY <1>7, <2>3, <2>4, <2>5, HelperMove
<1> QED
  BY <1>1, <1>8, <1>9

LEMMA RecvTimeoutOnePlace ==
  ASSUME TypeInv, OnePlace, NEW h \in Helper, RecvTimeout(h), UNCHANGED firmwareVars
  PROVE  OnePlace'
<1>1. CASE Disconnect(h)
  BY <1>1, HelperStays DEF Disconnect
<1>2. CASE Complete(chunk[h], TRUE) /\ Finish(h, chunk[h]) /\ UNCHANGED <<sock, bus>>
  <2>1. chunk[h] \in Chunk /\ HelperApart(h)
    BY DEF TypeInv, HelpersOK, OnePlace
  <2>2. PICK k \in DOMAIN chunk[h] : chunk[h][k].eot = 1
    BY <1>2 DEF Complete
  <2>3. /\ Apart(chunk[h]) /\ NoTwice(out[h]) /\ ValuesOf(out[h]) \cap BytesIn(chunk[h]) = {}
    BY <2>1 DEF HelperApart
  <2>4. /\ NoTwice(out'[h])
        /\ ValuesOf(out'[h]) \subseteq ValuesOf(out[h]) \cup BytesIn(chunk[h])
        /\ Apart(chunk'[h]) /\ BytesIn(chunk'[h]) = {}
        /\ \A g \in Helper : g # h => UNCHANGED <<chunk[g], out[g]>>
    BY <1>2, <2>1, <2>2, <2>3, FinishApart
  <2>5. HelperApart(h)'
    BY <1>2, <2>1, <2>4 DEF HelperApart
  <2>6. AtHelper(h)' \subseteq AtHelper(h)
    BY <1>2, <2>4 DEF AtHelper
  <2>7. UNCHANGED <<serialrxq, cpc, msg, bus, dr, printed>>
    BY <1>2 DEF firmwareVars, taskVars, usartVars
  <2> QED
    BY <1>2, <2>4, <2>5, <2>6, <2>7, HelperMove
<1> QED
  BY <1>1, <1>2 DEF RecvTimeout

LEMMA HelperOnePlace ==
  ASSUME TypeInv, OnePlace, NEW h \in Helper,
         \/ HelperStep(h)
         \/ UNCHANGED firmwareVars
            /\ (Start(h) \/ CanError(h) \/ StdinRead(h) \/ StdinEof(h))
  PROVE  OnePlace'
<1>1. ASSUME Die(h), UNCHANGED <<firmwareVars, bus>> PROVE OnePlace'
  BY <1>1, HelperStays DEF Die
<1>2. ASSUME UNCHANGED <<firmwareVars, bus, sock, chunk, out>> PROVE OnePlace'
  BY <1>2, HelperStays
<1>3. ASSUME NEW object, RecvReply(h, object), UNCHANGED firmwareVars PROVE OnePlace'
  <2>1. CASE Die(h)
    BY <1>1, <1>3, <2>1 DEF RecvReply
  <2>2. CASE ~Die(h)
    <3>1. sock[h] # <<>> /\ sock' = [sock EXCEPT ![h] = Tail(@)]
          /\ UNCHANGED <<chunk, out, bus>>
      BY <1>3, <2>2 DEF RecvReply, ReadCan
    <3> QED
      BY <1>3, <3>1, HelperStays
  <2> QED
    BY <2>1, <2>2
<1>4. CASE Skip(h) /\ UNCHANGED firmwareVars
  BY <1>4, HelperStays DEF Skip, ReadCan, helperVars
<1>5. CASE (DiscReply(h) \/ DiscTimeout(h) \/ AckTimeout(h)) /\ UNCHANGED firmwareVars
  BY <1>1, <1>5 DEF DiscReply, DiscTimeout, AckTimeout
<1>6. CASE (Start(h) \/ StdinRead(h) \/ StdinEof(h)) /\ UNCHANGED firmwareVars
  BY <1>2, <1>6 DEF Start, StdinRead, StdinEof, Disconnect
<1>7. CASE CanError(h) /\ UNCHANGED firmwareVars
  BY <1>1, <1>7 DEF CanError
<1> QED
  BY <1>3, <1>4, <1>5, <1>6, <1>7, RecvDatOnePlace, RecvTimeoutOnePlace DEF HelperStep

LEMMA OnePlaceInit == Init => OnePlace
<1> SUFFICES ASSUME Init PROVE OnePlace
  OBVIOUS
<1>1. /\ serialrxq = <<>> /\ bus = <<>> /\ cpc = "recv" /\ dr = 0 /\ printed = 0
      /\ \A h \in Helper : sock[h] = <<>> /\ chunk[h] = EmptyChunk /\ out[h] = <<>>
  BY DEF Init, NetInit, FirmwareInit, HelperInit
<1>2. AtSlot = {} /\ SlotApart
  BY <1>1, NothingAtAll DEF AtSlot, SlotApart, Held, Holds
<1>3. \A h \in Helper : AtHelper(h) = {} /\ HelperApart(h)
  BY <1>1, NothingAtAll DEF AtHelper, HelperApart
<1> QED
  BY <1>1, <1>2, <1>3 DEF OnePlace

LEMMA OnePlaceStep == TypeInv /\ OnePlace /\ [Next]_vars => OnePlace'
<1> SUFFICES ASSUME TypeInv, OnePlace, [Next]_vars PROVE OnePlace'
  OBVIOUS
<1>1. CASE (UartByte \/ UartTx) /\ UNCHANGED helperVars
  BY <1>1, UartOnePlace
<1>2. CASE (ConTask \/ ConSendFails) /\ UNCHANGED helperVars
  BY <1>2, ConTaskOnePlace
<1>3. CASE RxTask /\ UNCHANGED helperVars
  BY <1>3, RxTaskOnePlace
<1>4. CASE (Deliver \/ LoseToFirmware \/ LoseToHelper)
           /\ UNCHANGED <<firmwareVars, helperVars>>
  BY <1>4, BusOnePlace
<1>5. ASSUME NEW h \in Helper,
             \/ HelperStep(h)
             \/ UNCHANGED firmwareVars
                /\ (Start(h) \/ CanError(h) \/ StdinRead(h) \/ StdinEof(h))
      PROVE  OnePlace'
  BY <1>5, HelperOnePlace
<1>6. CASE UNCHANGED vars
  <2>1. UNCHANGED <<serialrxq, cpc, msg, bus, dr, printed, sock, chunk, out>>
    BY <1>6 DEF vars, netVars, firmwareVars, taskVars, usartVars, helperVars
  <2>2. AtSlot' = AtSlot /\ SlotApart'
    BY <2>1 DEF AtSlot, SlotApart, Held, Holds, OnePlace
  <2> QED
    BY <2>1, <2>2, SlotStays
<1> QED
  BY <1>1, <1>2, <1>3, <1>4, <1>5, <1>6 DEF Next

(* No byte the Pi printed is shown twice, by one helper or by two, whatever
   is lost, late, dropped or taken over (usart1_isr, serial_recv,
   canservices_console_task, handle_recv_dat, write_chunk_to_stdout). *)
THEOREM NoByteTwice == Spec => []NoDuplicate
<1>1. OnePlace /\ TypeInv => NoDuplicate
  <2> SUFFICES ASSUME OnePlace, TypeInv, NEW g \in Helper, NEW h \in Helper,
                      NEW i \in DOMAIN out[g], NEW j \in DOMAIN out[h],
                      out[g][i] = out[h][j]
               PROVE  g = h /\ i = j
    BY DEF NoDuplicate
  <2>1. DOMAIN out[g] = 1..Len(out[g]) /\ DOMAIN out[h] = 1..Len(out[h])
    BY DEF TypeInv, HelpersOK
  <2>2. out[g][i] \in AtHelper(g) /\ out[h][j] \in AtHelper(h)
    BY <2>1 DEF AtHelper, ValuesOf
  <2>3. g = h
    BY <2>2 DEF OnePlace
  <2>4. NoTwice(out[g])
    BY DEF OnePlace, HelperApart
  <2> QED
    BY <2>1, <2>3, <2>4 DEF NoTwice
<1>2. Init => TypeInv /\ OnePlace
  BY InitType, OnePlaceInit
<1>3. TypeInv /\ OnePlace /\ [Next]_vars => (TypeInv /\ OnePlace)'
  BY TypeStep, OnePlaceStep
<1> QED
  BY <1>1, <1>2, <1>3, PTL DEF Spec

(***************************************************************************)
(* Keys stay in the order they were typed in: those a helper's frames      *)
(* carry towards the firmware ascend, from the head of the queue to its    *)
(* end, and are greater than what the Pi has already got from it.          *)
(***************************************************************************)
KeysOf(h) == {Key(h, n) : n \in 1..typed[h]}
Ascending(s) == \A p, q \in 1..Len(s) : p < q => s[p] < s[q]
(* Key x of a typist comes before key y, if y is of the same typist. *)
Before(x, y) == Typist(x) = Typist(y) => x < y
Carried(f) == IF f.type = DAT THEN ValuesOf(f.data) ELSE {}

KeysTyped ==
  /\ \A k \in 1..Len(canrxq) : \E h \in Helper : Carried(canrxq[k]) \subseteq KeysOf(h)
  /\ \A x \in ValuesOf(toPi) : \E h \in Helper : x \in KeysOf(h)
KeysQueued ==
  /\ \A k \in 1..Len(canrxq) : canrxq[k].type = DAT => Ascending(canrxq[k].data)
  /\ \A k, l \in 1..Len(canrxq) : k < l =>
       \A x \in Carried(canrxq[k]), y \in Carried(canrxq[l]) : Before(x, y)
KeysSent ==
  /\ \A x \in ValuesOf(toPi) : \A k \in 1..Len(canrxq) :
       \A y \in Carried(canrxq[k]) : Before(x, y)
  /\ \A i, j \in 1..Len(toPi) : i < j => Before(toPi[i], toPi[j])
KeyOrder == KeysTyped /\ KeysQueued /\ KeysSent

LEMMA KeyFacts ==
  ASSUME TypeInv, NEW h \in Helper, NEW n \in 1..MaxKey
  PROVE  Key(h, n) \in Nat /\ Typist(Key(h, n)) = h
<1>1. h \in Nat /\ MaxKey \in Nat
  BY NetAssumption, HelperAssumption
<1>2. MaxKey + 1 \in Nat \ {0} /\ n \in 0..((MaxKey + 1) - 1)
  BY <1>1
<1>3. (h * (MaxKey + 1) + n) \div (MaxKey + 1) = h
  BY <1>1, <1>2, Quotient
<1>4. h * (MaxKey + 1) + n \in Nat
  BY <1>1
<1> QED
  BY <1>3, <1>4 DEF Key, Typist

(* Where the keys are after a step that queues no key and types none. *)
LEMMA KeysStay ==
  ASSUME TypeInv, KeyOrder, UNCHANGED <<toPi, typed>>,
         \/ canrxq' = canrxq
         \/ canrxq # <<>> /\ canrxq' = Tail(canrxq)
         \/ \E m \in ToSlotFrame : m.type # DAT /\ canrxq' = Append(canrxq, m)
  PROVE  KeyOrder'
<1>1. canrxq \in Seq(ToSlotFrame)
  BY DEF TypeInv, ChannelsOK
<1>2. \A h : KeysOf(h)' = KeysOf(h)
  BY DEF KeysOf
<1>3. CASE canrxq' = canrxq
  BY <1>2, <1>3 DEF KeyOrder, KeysTyped, KeysQueued, KeysSent
<1>4. CASE canrxq # <<>> /\ canrxq' = Tail(canrxq)
  <2>1. /\ Len(canrxq) \in Nat /\ Len(canrxq') = Len(canrxq) - 1
        /\ \A k \in 1..Len(canrxq') : canrxq'[k] = canrxq[k + 1] /\ k + 1 \in 1..Len(canrxq)
        /\ \A k, l \in 1..Len(canrxq') : k < l => k + 1 < l + 1
    BY <1>1, <1>4
  <2>2. KeysTyped'
    BY <1>2, <2>1 DEF KeyOrder, KeysTyped
  <2>3. KeysQueued'
    BY <2>1 DEF KeyOrder, KeysQueued
  <2>4. KeysSent'
    BY <2>1 DEF KeyOrder, KeysSent
  <2> QED
    BY <2>2, <2>3, <2>4 DEF KeyOrder
<1>5. ASSUME NEW m \in ToSlotFrame, m.type # DAT, canrxq' = Append(canrxq, m)
      PROVE  KeyOrder'
  <2> DEFINE n == Len(canrxq) + 1
  <2>1. /\ Len(canrxq) \in Nat /\ Len(canrxq') = n
        /\ \A k \in 1..Len(canrxq) : canrxq'[k] = canrxq[k]
        /\ canrxq'[n] = m /\ \A k \in 1..n : k # n => k \in 1..Len(canrxq)
        /\ \A k \in 1..n : ~(n < k)
    BY <1>1, <1>5
  <2> HIDE DEF n
  <2>2. Carried(m) = {}
    BY <1>5 DEF Carried
  <2>3. \A k \in 1..n : canrxq'[k].type = DAT =>
          k \in 1..Len(canrxq) /\ canrxq'[k] = canrxq[k]
    BY <1>5, <2>1
  <2>4. \A k \in 1..n : \A x \in Carried(canrxq'[k]) :
          k \in 1..Len(canrxq) /\ canrxq'[k] = canrxq[k]
    BY <2>1, <2>2
  <2>5. KeysTyped'
    <3>1. \A k \in 1..Len(canrxq) : \E h \in Helper : Carried(canrxq'[k]) \subseteq KeysOf(h)'
      BY <1>2, <2>1 DEF KeyOrder, KeysTyped
    <3>2. (\E h \in Helper : TRUE) /\ \A h : Carried(canrxq'[n]) \subseteq KeysOf(h)'
      BY <1>5, <2>1, <2>2 DEF ToSlotFrame
    <3> QED
      BY <1>2, <2>1, <3>1, <3>2 DEF KeyOrder, KeysTyped
  <2>6. KeysQueued'
    BY <2>1, <2>3, <2>4 DEF KeyOrder, KeysQueued
  <2>7. KeysSent'
    BY <2>1, <2>4 DEF KeyOrder, KeysSent
  <2> QED
    BY <2>5, <2>6, <2>7 DEF KeyOrder
<1> QED
  BY <1>3, <1>4, <1>5

(* stdin_cb: the keys of the frame it sends were not typed before. *)
LEMMA KeysRead ==
  ASSUME TypeInv, KeyOrder, NEW h \in Helper, StdinRead(h), UNCHANGED firmwareVars
  PROVE  KeyOrder'
<1>1. PICK n \in 1..ReadLen :
        /\ typed[h] + n <= MaxKey
        /\ typed' = [typed EXCEPT ![h] = @ + n]
        /\ console_send_dat(h, [i \in 1..n |-> Key(h, typed[h] + i)])
  BY DEF StdinRead
<1>2. typed \in [Helper -> 0..MaxKey] /\ MaxKey \in Nat /\ ReadLen \in Nat /\ h \in Nat
      /\ canrxq \in Seq(ToSlotFrame) /\ toPi' = toPi
  BY HelperAssumption, NetAssumption DEF TypeInv, HelpersOK, ChannelsOK, firmwareVars, txVars
<1> DEFINE d == [i \in 1..n |-> Key(h, typed[h] + i)]
           m == Request(h, DAT, OBJ_CONSOLERECV, 1, d)
<1>3. \A i \in 1..n : typed[h] + i \in 1..MaxKey /\ typed[h] + i \in 1..typed'[h]
  BY <1>1, <1>2
<1>4. d \in Seq(Nat) /\ Len(d) = n /\ \A i \in 1..n : d[i] = Key(h, typed[h] + i)
  <2>1. \A i \in 1..n : Key(h, typed[h] + i) \in Nat
    BY <1>3, KeyFacts
  <2>2. n \in Nat
    OBVIOUS
  <2> QED
    BY <2>1, <2>2
<1> HIDE DEF d
<1>5. m \in ToSlotFrame /\ OverTheWire(m) = m /\ m.type = DAT /\ m.data = d
  <2>1. DAT \in {WO, DAT, ACK} /\ OBJ_CONSOLERECV \in 0..255 /\ DAT # WO
    BY DEF DAT, WO, ACK, OBJ_CONSOLERECV
  <2> QED
    BY <1>4, <2>1, RequestArrives DEF Request, Message
<1>6. canrxq' = Append(canrxq, m)
  BY <1>1, <1>5 DEF console_send_dat, SendToSlot, d
<1> HIDE DEF m
<1>7. Ascending(d) /\ ValuesOf(d) \subseteq KeysOf(h)'
  <2>1. Ascending(d)
    <3> SUFFICES ASSUME NEW p \in 1..n, NEW q \in 1..n, p < q PROVE d[p] < d[q]
      BY <1>4 DEF Ascending
    <3> DEFINE y == h * (MaxKey + 1)
    <3>1. y \in Nat
      BY <1>2
    <3>2. d[p] = y + (typed[h] + p) /\ d[q] = y + (typed[h] + q)
      BY <1>4 DEF Key
    <3> HIDE DEF y
    <3> QED
      BY <1>2, <3>1, <3>2
  <2>2. \A i \in 1..n : d[i] \in KeysOf(h)'
    BY <1>3, <1>4 DEF KeysOf
  <2> QED
    BY <1>4, <2>1, <2>2 DEF ValuesOf
<1>8. \A g \in Helper : KeysOf(g) \subseteq KeysOf(g)'
  <2>1. \A g \in Helper : 1..typed[g] \subseteq 1..typed'[g]
    BY <1>1, <1>2
  <2> QED
    BY <2>1 DEF KeysOf
<1>9. ASSUME NEW g \in Helper, NEW x \in KeysOf(g), NEW y \in ValuesOf(d) PROVE Before(x, y)
  <2>1. PICK a \in 1..typed[g] : x = Key(g, a)
    BY DEF KeysOf
  <2>2. PICK i \in 1..n : y = Key(h, typed[h] + i)
    BY <1>4 DEF ValuesOf
  <2>3. a \in 1..MaxKey /\ typed[g] \in 0..MaxKey
    BY <1>2
  <2>4. Typist(x) = g /\ Typist(y) = h
    BY <1>3, <2>1, <2>2, <2>3, KeyFacts
  <2>5. ASSUME g = h PROVE x < y
    <3> DEFINE z == h * (MaxKey + 1)
    <3>1. z \in Nat /\ typed[h] \in Nat
      BY <1>2
    <3>2. x = z + a /\ y = z + (typed[h] + i)
      BY <2>1, <2>2, <2>5 DEF Key
    <3> HIDE DEF z
    <3> QED
      BY <2>5, <3>1, <3>2
  <2> QED
    BY <2>4, <2>5 DEF Before
<1> DEFINE l == Len(canrxq) + 1
<1>10. /\ Len(canrxq) \in Nat /\ Len(canrxq') = l
       /\ \A k \in 1..Len(canrxq) : canrxq'[k] = canrxq[k]
       /\ canrxq'[l] = m /\ \A k \in 1..l : k # l => k \in 1..Len(canrxq)
       /\ \A k \in 1..l : ~(l < k)
  BY <1>2, <1>5, <1>6
<1> HIDE DEF l
<1>11. Carried(m) = ValuesOf(d)
  BY <1>5 DEF Carried
<1>12. \A k \in 1..Len(canrxq) : \A x \in Carried(canrxq[k]), y \in Carried(m) : Before(x, y)
  BY <1>9, <1>11 DEF KeyOrder, KeysTyped
<1>13. \A x \in ValuesOf(toPi) : \A y \in Carried(m) : Before(x, y)
  BY <1>9, <1>11 DEF KeyOrder, KeysTyped
<1>14. KeysTyped'
  <2>1. \A k \in 1..Len(canrxq) : \E g \in Helper : Carried(canrxq'[k]) \subseteq KeysOf(g)'
    BY <1>8, <1>10 DEF KeyOrder, KeysTyped
  <2>2. Carried(canrxq'[l]) \subseteq KeysOf(h)'
    BY <1>7, <1>10, <1>11
  <2>3. \A x \in ValuesOf(toPi') : \E g \in Helper : x \in KeysOf(g)'
    BY <1>2, <1>8 DEF KeyOrder, KeysTyped
  <2> QED
    BY <1>10, <2>1, <2>2, <2>3 DEF KeysTyped
<1>15. KeysQueued'
  BY <1>5, <1>7, <1>10, <1>12 DEF KeyOrder, KeysQueued
<1>16. KeysSent'
  BY <1>2, <1>10, <1>13 DEF KeyOrder, KeysSent
<1> QED
  BY <1>14, <1>15, <1>16 DEF KeyOrder

(* canservices_consolerecv: what fits of the data goes to the Pi. *)
LEMMA KeysTaken ==
  ASSUME TypeInv, KeyOrder, RxConsoleRecv, UNCHANGED helperVars
  PROVE  KeyOrder'
<1> DEFINE f == Head(canrxq)
           room == TxLen - serialtxq
           n == IF ~console.connected THEN 0
                ELSE IF room < Len(f.data) THEN room ELSE Len(f.data)
           d == SubSeq(f.data, 1, n)
<1>1. canrxq # <<>> /\ f.type = DAT /\ canrxq' = Tail(canrxq) /\ toPi' = toPi \o d
      /\ typed' = typed
  BY DEF RxConsoleRecv, Received, helperVars
<1>2. /\ canrxq \in Seq(ToSlotFrame) /\ toPi \in Seq(Nat) /\ f.data \in Seq(Nat)
      /\ f = canrxq[1] /\ 1 \in 1..Len(canrxq)
  BY <1>1, ReceivedType DEF TypeInv, ChannelsOK, TxOK
<1>3. n \in 0..Len(f.data)
  <2>1. Len(f.data) \in Nat /\ room \in Nat
    BY <1>2, FirmwareAssumption DEF TypeInv, TxOK
  <2> HIDE DEF room, f
  <2> QED
    BY <2>1
<1> HIDE DEF n
<1>4. d \in Seq(Nat) /\ Len(d) = n /\ \A p \in 1..n : d[p] = f.data[p]
  BY <1>2, <1>3, Slices, SMTT(40)
<1> HIDE DEF f, d
<1>5. Carried(f) = ValuesOf(f.data) /\ Ascending(f.data)
  BY <1>1, <1>2 DEF Carried, KeyOrder, KeysQueued
<1>6. n \in Nat /\ \A p \in 1..n : p \in 1..Len(f.data)
  BY <1>2, <1>3
<1>7. ValuesOf(d) \subseteq Carried(f)
  BY <1>4, <1>5, <1>6 DEF ValuesOf
<1>8. \A p, q \in 1..Len(d) : p < q => d[p] < d[q]
  BY <1>4, <1>5, <1>6 DEF Ascending
<1>9. /\ Len(canrxq) \in Nat /\ Len(canrxq') = Len(canrxq) - 1
      /\ \A k \in 1..Len(canrxq') : /\ canrxq'[k] = canrxq[k + 1] /\ k + 1 \in 1..Len(canrxq)
                                    /\ 1 < k + 1
      /\ \A k, l \in 1..Len(canrxq') : k < l => k + 1 < l + 1
  BY <1>1, <1>2
<1>10. ValuesOf(toPi') = ValuesOf(toPi) \cup ValuesOf(d)
  BY <1>1, <1>2, <1>4, ConcatValues
<1>11. \A h : KeysOf(h)' = KeysOf(h)
  BY <1>1 DEF KeysOf
<1>12. KeysTyped'
  <2>1. \E h \in Helper : Carried(f) \subseteq KeysOf(h)
    BY <1>2 DEF KeyOrder, KeysTyped
  <2>2. \A x \in ValuesOf(toPi') : \E h \in Helper : x \in KeysOf(h)
    BY <1>7, <1>10, <2>1 DEF KeyOrder, KeysTyped
  <2>3. \A k \in 1..Len(canrxq') : \E h \in Helper : Carried(canrxq'[k]) \subseteq KeysOf(h)
    BY <1>9 DEF KeyOrder, KeysTyped
  <2> QED
    BY <1>11, <2>2, <2>3 DEF KeysTyped
<1>13. KeysQueued'
  BY <1>9 DEF KeyOrder, KeysQueued
<1>14. KeysSent'
  <2>1. \A x \in Carried(f) : \A k \in 1..Len(canrxq') : \A y \in Carried(canrxq'[k]) :
          Before(x, y)
    BY <1>2, <1>9 DEF KeyOrder, KeysQueued
  <2>2. \A x \in ValuesOf(toPi) : \A k \in 1..Len(canrxq') : \A y \in Carried(canrxq'[k]) :
          Before(x, y)
    BY <1>9 DEF KeyOrder, KeysSent
  <2>3. \A x \in ValuesOf(toPi) : \A y \in ValuesOf(d) : Before(x, y)
    BY <1>2, <1>7 DEF KeyOrder, KeysSent
  <2>4. \A i, j \in 1..Len(toPi) : i < j => Before(toPi[i], toPi[j])
    BY DEF KeyOrder, KeysSent
  <2>5. ASSUME NEW i \in 1..Len(toPi'), NEW j \in 1..Len(toPi'), i < j
        PROVE  Before(toPi'[i], toPi'[j])
    <3>1. /\ Len(toPi) \in Nat /\ Len(d) \in Nat /\ Len(toPi') = Len(toPi) + Len(d)
          /\ \A k \in 1..Len(toPi') :
               toPi'[k] = IF k <= Len(toPi) THEN toPi[k] ELSE d[k - Len(toPi)]
      <4>1. toPi \in Seq(Nat) /\ d \in Seq(Nat) /\ toPi' = toPi \o d
        BY <1>1, <1>2, <1>4
      <4>2. /\ Len(toPi) \in Nat /\ Len(d) \in Nat
            /\ Len(toPi \o d) = Len(toPi) + Len(d)
            /\ \A k \in 1..(Len(toPi) + Len(d)) :
                 (toPi \o d)[k] = IF k <= Len(toPi) THEN toPi[k] ELSE d[k - Len(toPi)]
        BY <4>1, ConcatProperties
      <4> QED
        BY <4>1, <4>2
    <3>2. CASE j <= Len(toPi)
      BY <2>4, <2>5, <3>1, <3>2
    <3>3. CASE i <= Len(toPi) /\ ~(j <= Len(toPi))
      <4>1. toPi'[i] = toPi[i] /\ i \in 1..Len(toPi) /\ toPi'[j] = d[j - Len(toPi)]
            /\ j - Len(toPi) \in 1..Len(d)
        BY <2>5, <3>1, <3>3
      <4>2. toPi[i] \in ValuesOf(toPi) /\ d[j - Len(toPi)] \in ValuesOf(d)
        BY <4>1 DEF ValuesOf
      <4> QED
        BY <2>3, <4>1, <4>2
    <3>4. CASE ~(i <= Len(toPi))
      <4>1. toPi'[i] = d[i - Len(toPi)] /\ toPi'[j] = d[j - Len(toPi)]
            /\ i - Len(toPi) \in 1..Len(d) /\ j - Len(toPi) \in 1..Len(d)
            /\ i - Len(toPi) < j - Len(toPi)
        BY <2>5, <3>1, <3>4
      <4> QED
        BY <1>8, <4>1 DEF Before
    <3> QED
      BY <3>2, <3>3, <3>4
  <2> QED
    BY <1>7, <1>10, <2>1, <2>2, <2>5 DEF KeysSent
<1> QED
  BY <1>12, <1>13, <1>14 DEF KeyOrder

LEMMA KeyOrderInit == Init => KeyOrder
BY DEF Init, NetInit, FirmwareInit, KeyOrder, KeysTyped, KeysQueued, KeysSent, ValuesOf

LEMMA KeyOrderStep == TypeInv /\ KeyOrder /\ [Next]_vars => KeyOrder'
<1> SUFFICES ASSUME TypeInv, KeyOrder, [Next]_vars PROVE KeyOrder'
  OBVIOUS
<1>1. ASSUME UNCHANGED <<toPi, typed>>,
             \/ canrxq' = canrxq
             \/ canrxq # <<>> /\ canrxq' = Tail(canrxq)
      PROVE  KeyOrder'
  BY <1>1, KeysStay
<1>2. ASSUME NEW h \in Helper, NEW type \in {WO, ACK}, NEW object \in 0..255,
             NEW data \in Seq(Nat), type = WO => data = <<OBJ_CONSOLESEND>>,
             SendToSlot(Request(h, type, object, 0, data)), UNCHANGED <<toPi, typed>>
      PROVE  KeyOrder'
  <2> DEFINE m == Request(h, type, object, 0, data)
  <2>1. m.type # DAT
    BY <1>2 DEF Request, Message, WO, ACK, DAT
  <2>2. m \in ToSlotFrame /\ OverTheWire(m) = m
    BY <1>2, RequestArrives, ZenonT(60)
  <2> HIDE DEF m
  <2>3. canrxq' = Append(canrxq, m)
    BY <1>2, <2>2 DEF SendToSlot, m
  <2> QED
    BY <1>2, <2>1, <2>2, <2>3, KeysStay
<1>3. ASSUME NEW h \in Helper, Disconnect(h), UNCHANGED firmwareVars PROVE KeyOrder'
  <2>1. OBJ_CONSOLEDISC \in 0..255 /\ <<OBJ_CONSOLESEND>> \in Seq(Nat)
        /\ UNCHANGED <<toPi, typed>>
    BY <1>3 DEF OBJ_CONSOLEDISC, OBJ_CONSOLESEND, Disconnect, firmwareVars, txVars
  <2>2. SendToSlot(Request(h, WO, OBJ_CONSOLEDISC, 0, <<OBJ_CONSOLESEND>>))
    BY <1>3 DEF Disconnect
  <2> QED
    BY <1>2, <2>1, <2>2
<1>4. ASSUME NEW h \in Helper, NEW c, Finish(h, c), UNCHANGED <<firmwareVars, typed>>
      PROVE  KeyOrder'
  <2>1. OBJ_CONSOLESEND \in 0..255 /\ <<>> \in Seq(Nat) /\ ACK # WO
        /\ UNCHANGED <<toPi, typed>>
    BY <1>4 DEF OBJ_CONSOLESEND, ACK, WO, firmwareVars, txVars
  <2>2. SendToSlot(Request(h, ACK, OBJ_CONSOLESEND, 0, <<>>))
    BY <1>4 DEF Finish, console_send_ack
  <2> QED
    BY <1>2, <2>1, <2>2
<1>5. CASE (UartByte \/ UartTx \/ ConTask \/ ConSendFails) /\ UNCHANGED helperVars
  <2>1. UNCHANGED <<toPi, typed, canrxq>>
    BY <1>5 DEF UartByte, UartTx, ConTask, ConSendFails, ConRecv, ConPack, ConSend, ConTake,
                ConAcked, ConTimeoutLate, ConTimeout, ConWoken, netVars, txVars, helperVars
  <2> QED
    BY <1>1, <2>1
<1>6. CASE RxTask /\ UNCHANGED helperVars
  <2>1. CASE RxConsoleRecv
    BY <1>6, <2>1, KeysTaken
  <2>2. CASE RxConsoleConn \/ RxConsoleDisc \/ RxAck
    <3>1. UNCHANGED <<toPi, typed>> /\ canrxq # <<>> /\ canrxq' = Tail(canrxq)
      BY <1>6, <2>2 DEF RxConsoleConn, RxConsoleDisc, RxAck, Received, txVars, helperVars
    <3> QED
      BY <1>1, <3>1
  <2> QED
    BY <1>6, <2>1, <2>2 DEF RxTask
<1>7. CASE (Deliver \/ LoseToFirmware \/ LoseToHelper)
           /\ UNCHANGED <<firmwareVars, helperVars>>
  BY <1>1, <1>7 DEF Deliver, LoseToFirmware, LoseToHelper, firmwareVars, txVars, helperVars
<1>8. ASSUME NEW h \in Helper, HelperStep(h) PROVE KeyOrder'
  <2>1. CASE RecvDat(h) /\ UNCHANGED firmwareVars
    <3>1. typed' = typed /\ toPi' = toPi
          /\ (canrxq' = canrxq \/ \E c : Finish(h, c))
      BY <2>1 DEF RecvDat, firmwareVars, txVars
    <3> QED
      BY <1>1, <1>4, <2>1, <3>1
  <2>2. ASSUME NEW object, RecvReply(h, object), UNCHANGED firmwareVars PROVE KeyOrder'
    BY <1>1, <2>2 DEF RecvReply, Die, firmwareVars, txVars
  <2>3. CASE (Skip(h) \/ DiscReply(h) \/ DiscTimeout(h) \/ AckTimeout(h))
             /\ UNCHANGED firmwareVars
    BY <1>1, <2>3 DEF Skip, DiscReply, DiscTimeout, AckTimeout, Die, helperVars, firmwareVars,
                      txVars
  <2>4. CASE RecvTimeout(h) /\ UNCHANGED firmwareVars
    BY <1>3, <1>4, <2>4 DEF RecvTimeout
  <2> QED
    BY <1>8, <2>1, <2>2, <2>3, <2>4 DEF HelperStep
<1>9. ASSUME NEW h \in Helper, UNCHANGED firmwareVars,
             Start(h) \/ CanError(h) \/ StdinRead(h) \/ StdinEof(h)
      PROVE  KeyOrder'
  <2>1. CASE Start(h)
    <3>1. OBJ_CONSOLECONN \in 0..255 /\ <<OBJ_CONSOLESEND>> \in Seq(Nat)
          /\ UNCHANGED <<toPi, typed>>
      BY <1>9, <2>1 DEF OBJ_CONSOLECONN, OBJ_CONSOLESEND, Start, firmwareVars, txVars
    <3>2. SendToSlot(Request(h, WO, OBJ_CONSOLECONN, 0, <<OBJ_CONSOLESEND>>))
      BY <2>1 DEF Start, console_connect
    <3> QED
      BY <1>2, <3>1, <3>2
  <2>2. CASE CanError(h)
    BY <1>1, <1>9, <2>2 DEF CanError, Die, firmwareVars, txVars
  <2>3. CASE StdinRead(h)
    BY <1>9, <2>3, KeysRead
  <2>4. CASE StdinEof(h)
    BY <1>3, <1>9, <2>4 DEF StdinEof
  <2> QED
    BY <1>9, <2>1, <2>2, <2>3, <2>4
<1>10. CASE UNCHANGED vars
  BY <1>1, <1>10 DEF vars, netVars, firmwareVars, txVars, helperVars
<1> QED
  BY <1>5, <1>6, <1>7, <1>8, <1>9, <1>10 DEF Next

(* Each client's keys reach the Pi in the order they were typed, whoever else
   types and whatever is lost (stdin_cb, canservices_consolerecv). *)
THEOREM KeysStayInOrder == Spec => []KeysInOrder
<1>1. TypeInv /\ KeyOrder => KeysInOrder
  <2> SUFFICES ASSUME TypeInv, KeyOrder PROVE KeysInOrder
    OBVIOUS
  <2>1. DOMAIN toPi = 1..Len(toPi)
    BY DEF TypeInv, TxOK
  <2> QED
    BY <2>1 DEF KeyOrder, KeysSent, KeysInOrder, Before
<1>2. Init => TypeInv /\ KeyOrder
  BY InitType, KeyOrderInit
<1>3. TypeInv /\ KeyOrder /\ [Next]_vars => (TypeInv /\ KeyOrder)'
  BY TypeStep, KeyOrderStep
<1> QED
  BY <1>1, <1>2, <1>3, PTL DEF Spec

-----------------------------------------------------------------------------
(***************************************************************************)
(* A process has at most one request on its way, and the answer to it.  A  *)
(* connect request is on its way before a key is typed; a frame of keys    *)
(* carries all of them that the Pi does not have; an ACK of keys means     *)
(* that the Pi has them all.  It takes one process at each address: the    *)
(* answer to an earlier one at the same address is taken for its own.      *)
(***************************************************************************)
Requests(h) ==
  {f \in ToSlotFrame : f.src = h /\ (f.type = DAT \/ f.object = OBJ_CONSOLECONN)}
Answers ==
  {f \in FromSlotFrame :
     f.type \in {ACK, NAK} /\ f.object \in {OBJ_CONSOLECONN, OBJ_CONSOLERECV}}
AnswersTo(h) == {f \in Answers : f.dst = h}

Asked(h) == Among(canrxq, Requests(h))
Answered(h) == Among(bus, AnswersTo(h))
Heard(h) == Among(sock[h], Answers)
NothingOnTheWay(h) == Asked(h) = {} /\ Answered(h) = {} /\ Heard(h) = {}

OneOnTheWay(h) ==
  /\ Single(canrxq, Requests(h)) /\ Single(bus, AnswersTo(h)) /\ Single(sock[h], Answers)
  /\ Asked(h) # {} => Answered(h) = {} /\ Heard(h) = {}
  /\ Answered(h) # {} => Heard(h) = {}

PiHas(h, S) == \A n \in 1..typed[h] : Key(h, n) \in ValuesOf(toPi) \cup S
Awaits(h, object) == unanswered[h] \subseteq {object}

RequestOK(h, f) ==
  /\ f.type # DAT => typed[h] = 0 /\ Awaits(h, OBJ_CONSOLECONN)
  /\ f.type = DAT => Awaits(h, OBJ_CONSOLERECV) /\ PiHas(h, ValuesOf(f.data))
AnswerOK(h, f) ==
  /\ Awaits(h, f.object)
  /\ f.object = OBJ_CONSOLECONN => typed[h] = 0
  /\ f.object = OBJ_CONSOLERECV /\ f.type = ACK => PiHas(h, {})

TokenInv(h) ==
  /\ OneOnTheWay(h)
  /\ \A f \in Asked(h) : RequestOK(h, f)
  /\ \A f \in Answered(h) \cup Heard(h) : AnswerOK(h, f)
  /\ stdinOn[h] => NothingOnTheWay(h) /\ unanswered[h] = {} /\ PiHas(h, {})
  /\ starts[h] = 0 => NothingOnTheWay(h) /\ typed[h] = 0 /\ ~stdinOn[h] /\ hpc[h] = "off"
  /\ Awaits(h, OBJ_CONSOLECONN) \/ Awaits(h, OBJ_CONSOLERECV)
TokensOK == msg.type = DAT /\ \A h \in Helper : TokenInv(h)

LEMMA ReplyFields ==
  ASSUME NEW f \in ToSlotFrame, NEW type \in {ACK, NAK}
  PROVE  /\ Reply(f, type).type = type /\ Reply(f, type).dst = f.src
         /\ Reply(f, type).object = f.object
         /\ [Reply(f, type) EXCEPT !.eot = 0, !.seq = 0].type = type
         /\ [Reply(f, type) EXCEPT !.eot = 0, !.seq = 0].dst = f.src
         /\ [Reply(f, type) EXCEPT !.eot = 0, !.seq = 0].object = f.object
<1> DEFINE Fields8 == {"pri", "dst", "src", "type", "object", "eot", "seq", "data"}
           r == Reply(f, type)
<1>1. DOMAIN f = Fields8
  BY DEF ToSlotFrame
<1>2. r = [f EXCEPT !.type = type, !.dst = f.src, !.src = f.dst, !.data = <<>>]
  BY DEF Reply
<1>3. DOMAIN r = Fields8 /\ r.type = type /\ r.dst = f.src /\ r.object = f.object
  BY <1>1, <1>2
<1> HIDE DEF r
<1>4. /\ [r EXCEPT !.eot = 0, !.seq = 0].type = type
      /\ [r EXCEPT !.eot = 0, !.seq = 0].dst = f.src
      /\ [r EXCEPT !.eot = 0, !.seq = 0].object = f.object
  BY <1>3
<1> QED
  BY <1>3, <1>4 DEF r

(* What a step does to the process at h that adds nothing to be answered. *)
Keeps(h) ==
  /\ typed'[h] = typed[h] /\ starts'[h] = starts[h] /\ unanswered'[h] \subseteq unanswered[h]
  /\ (stdinOn'[h] => stdinOn[h]) /\ (hpc[h] = "off" => hpc'[h] = "off")
  /\ ValuesOf(toPi) \subseteq ValuesOf(toPi')

LEMMA FewerTokens ==
  ASSUME NEW h \in Helper, TokenInv(h), Keeps(h), Fewer(canrxq', canrxq, Requests(h)),
         Fewer(bus', bus, AnswersTo(h)), Fewer(sock'[h], sock[h], Answers)
  PROVE  TokenInv(h)'
<1>1. /\ Asked(h)' \subseteq Asked(h) /\ Answered(h)' \subseteq Answered(h)
      /\ Heard(h)' \subseteq Heard(h)
  BY DEF Fewer, Asked, Answered, Heard
<1>2. OneOnTheWay(h)'
  <2>1. Single(canrxq', Requests(h)) /\ Single(bus', AnswersTo(h)) /\ Single(sock'[h], Answers)
    BY DEF TokenInv, OneOnTheWay, Fewer
  <2> QED
    BY <1>1, <2>1 DEF TokenInv, OneOnTheWay
<1>3. \A S : PiHas(h, S) => PiHas(h, S)'
  BY DEF Keeps, PiHas
<1>4. \A o : Awaits(h, o) => Awaits(h, o)'
  BY DEF Keeps, Awaits
<1>5. \A f \in Asked(h)' : RequestOK(h, f)'
  <2> SUFFICES ASSUME NEW f \in Asked(h)' PROVE RequestOK(h, f)'
    OBVIOUS
  <2>1. RequestOK(h, f)
    BY <1>1 DEF TokenInv
  <2>2. typed'[h] = typed[h]
    BY DEF Keeps
  <2> QED
    BY <1>3, <1>4, <2>1, <2>2 DEF RequestOK
<1>6. \A f \in Answered(h)' \cup Heard(h)' : AnswerOK(h, f)'
  <2> SUFFICES ASSUME NEW f \in Answered(h)' \cup Heard(h)' PROVE AnswerOK(h, f)'
    OBVIOUS
  <2>1. AnswerOK(h, f)
    BY <1>1 DEF TokenInv
  <2>2. typed'[h] = typed[h]
    BY DEF Keeps
  <2> QED
    BY <1>3, <1>4, <2>1, <2>2 DEF AnswerOK
<1>7. NothingOnTheWay(h) => NothingOnTheWay(h)'
  BY <1>1 DEF NothingOnTheWay
<1>8. stdinOn'[h] => NothingOnTheWay(h)' /\ unanswered'[h] = {} /\ PiHas(h, {})'
  BY <1>3, <1>7 DEF TokenInv, Keeps
<1>9. starts'[h] = 0 => NothingOnTheWay(h)' /\ typed'[h] = 0 /\ ~stdinOn'[h] /\ hpc'[h] = "off"
  BY <1>7 DEF TokenInv, Keeps
<1>10. Awaits(h, OBJ_CONSOLECONN)' \/ Awaits(h, OBJ_CONSOLERECV)'
  BY <1>4 DEF TokenInv
<1> QED
  BY <1>2, <1>5, <1>6, <1>8, <1>9, <1>10 DEF TokenInv

(* A request of h is the only thing on the way. *)
LEMMA OneRequest ==
  ASSUME NEW h \in Helper, NEW f, Asked(h)' \subseteq {f}, RequestOK(h, f)',
         Single(canrxq', Requests(h)), Answered(h)' = {}, Heard(h)' = {},
         Single(bus', AnswersTo(h)), Single(sock'[h], Answers),
         ~stdinOn'[h], starts'[h] # 0,
         Awaits(h, OBJ_CONSOLECONN)' \/ Awaits(h, OBJ_CONSOLERECV)'
  PROVE  TokenInv(h)'
<1>1. OneOnTheWay(h)'
  BY DEF OneOnTheWay
<1>2. \A g \in Asked(h)' : RequestOK(h, g)'
  OBVIOUS
<1> QED
  BY <1>1, <1>2 DEF TokenInv

(* An answer to h is the only thing on the way. *)
LEMMA OneAnswer ==
  ASSUME NEW h \in Helper, NEW f, Asked(h)' = {}, AnswerOK(h, f)',
         Single(canrxq', Requests(h)), Single(bus', AnswersTo(h)), Single(sock'[h], Answers),
         \/ Answered(h)' \subseteq {f} /\ Heard(h)' = {}
         \/ Heard(h)' \subseteq {f} /\ Answered(h)' = {},
         ~stdinOn'[h], starts'[h] # 0,
         Awaits(h, OBJ_CONSOLECONN)' \/ Awaits(h, OBJ_CONSOLERECV)'
  PROVE  TokenInv(h)'
<1>1. OneOnTheWay(h)'
  BY DEF OneOnTheWay
<1>2. \A g \in Answered(h)' \cup Heard(h)' : AnswerOK(h, g)'
  OBVIOUS
<1> QED
  BY <1>1, <1>2 DEF TokenInv

(* The canrx task answers a request of h, or drops it. *)
LEMMA RequestTaken ==
  ASSUME TypeInv, NEW h \in Helper, TokenInv(h), Keeps(h), canrxq # <<>>,
         Head(canrxq) \in Requests(h), canrxq' = Tail(canrxq), UNCHANGED sock,
         NEW m \in AnswersTo(h), AnswerOK(h, m)', bus' = bus \/ bus' = Append(bus, m)
  PROVE  TokenInv(h)'
<1>1. /\ canrxq \in Seq(ToSlotFrame) /\ bus \in Seq(FromSlotFrame) /\ m \in FromSlotFrame
      /\ OneOnTheWay(h)
  BY DEF TypeInv, ChannelsOK, TokenInv, AnswersTo, Answers
<1>2. Fewer(canrxq', canrxq, Requests(h)) /\ Asked(h)' = {} /\ Single(canrxq', Requests(h))
  BY <1>1, FewerTail DEF Asked, OneOnTheWay, Fewer
<1>3. CASE bus' = bus
  BY <1>2, <1>3, FewerSame, FewerTokens
<1>4. CASE bus' = Append(bus, m)
  <2>1. Head(canrxq) \in Asked(h)
    BY <1>1, HeadAmong DEF Asked
  <2>2. Answered(h) = {} /\ Heard(h) = {} /\ ~stdinOn[h] /\ starts[h] # 0
    BY <1>1, <2>1 DEF TokenInv, NothingOnTheWay, OneOnTheWay
  <2>3. Answered(h)' \subseteq {m} /\ Single(bus', AnswersTo(h))
    BY <1>1, <1>4, <2>2, FewerAppended DEF Answered
  <2>4. Heard(h)' = {} /\ Single(sock'[h], Answers)
    BY <1>1, <2>2 DEF Heard, OneOnTheWay
  <2>5. Awaits(h, OBJ_CONSOLECONN)' \/ Awaits(h, OBJ_CONSOLERECV)'
    BY DEF TokenInv, Awaits, Keeps
  <2>6. ~stdinOn'[h] /\ starts'[h] # 0
    BY <2>2 DEF Keeps
  <2> QED
    BY <1>2, <2>3, <2>4, <2>5, <2>6, OneAnswer
<1> QED
  BY <1>3, <1>4

LEMMA SameKeeps ==
  ASSUME UNCHANGED helperVars, ValuesOf(toPi) \subseteq ValuesOf(toPi'), NEW h
  PROVE  Keeps(h)
BY DEF helperVars, Keeps

LEMMA FirmwareTokens ==
  ASSUME TypeInv, TokensOK, UNCHANGED helperVars,
         UartByte \/ UartTx \/ ConTask \/ ConSendFails
  PROVE  TokensOK'
<1>1. UNCHANGED <<canrxq, sock, toPi>> /\ (bus' = bus \/ bus' = Append(bus, msg))
  BY DEF UartByte, UartTx, ConTask, ConSendFails, ConRecv, ConPack, ConSend, ConTake,
         ConAcked, ConTimeoutLate, ConTimeout, ConWoken, netVars, txVars
<1>2. bus \in Seq(FromSlotFrame) /\ msg \in FromSlotFrame /\ msg.type = DAT
  BY DEF TypeInv, ChannelsOK, TaskOK, TokensOK
<1>3. msg'.type = DAT
  <2>1. msg' = msg \/ msg'.type = DAT \/ \E d : msg' = [msg EXCEPT !.data = d]
    BY DEF UartByte, UartTx, ConTask, ConSendFails, ConRecv, ConPack, ConSend, ConTake,
           ConAcked, ConTimeoutLate, ConTimeout, ConWoken, Message, taskVars
  <2>2. \A d : [msg EXCEPT !.data = d].type = DAT
    BY <1>2 DEF FromSlotFrame
  <2> QED
    BY <1>2, <2>1, <2>2
<1>4. ASSUME NEW h \in Helper PROVE TokenInv(h)'
  <2>1. TokenInv(h) /\ Keeps(h)
    BY <1>1, SameKeeps DEF TokensOK
  <2>2. msg \notin AnswersTo(h)
    BY <1>2 DEF AnswersTo, Answers, DAT, ACK, NAK
  <2>3. Fewer(bus', bus, AnswersTo(h))
    <3>1. CASE bus' = bus
      BY <3>1, FewerSame
    <3>2. CASE bus' = Append(bus, msg)
      BY <1>2, <2>2, <3>2, FewerAppended
    <3> QED
      BY <1>1, <3>1, <3>2
  <2> QED
    BY <1>1, <2>1, <2>3, FewerSame, FewerTokens
<1> QED
  BY <1>3, <1>4 DEF TokensOK

LEMMA ConsoleConnTokens ==
  ASSUME TypeInv, TokensOK, UNCHANGED helperVars, RxConsoleConn
  PROVE  TokensOK'
<1> PICK f : f = Head(canrxq)
  OBVIOUS
<1> PICK m : m = Reply(f, ACK)
  OBVIOUS
<1>1. /\ canrxq # <<>> /\ f.type = WO /\ f.object = OBJ_CONSOLECONN
      /\ canrxq' = Tail(canrxq) /\ bus' = Append(bus, m) /\ UNCHANGED <<sock, toPi, msg>>
  BY DEF RxConsoleConn, Received, Respond, txVars
<1>2. /\ f \in ToSlotFrame /\ canrxq \in Seq(ToSlotFrame) /\ bus \in Seq(FromSlotFrame)
      /\ f.src \in Helper
  BY <1>1, ReceivedType DEF TypeInv, ChannelsOK
<1>3. /\ m \in AnswersTo(f.src) /\ m.object = OBJ_CONSOLECONN /\ m \in FromSlotFrame
      /\ m.dst = f.src
  BY <1>1, <1>2, ReplyIsFrame, ReplyFields DEF AnswersTo, Answers
<1>4. f \in Requests(f.src)
  BY <1>1, <1>2 DEF Requests
<1>5. ASSUME NEW h \in Helper PROVE TokenInv(h)'
  <2>1. TokenInv(h) /\ Keeps(h) /\ Fewer(canrxq', canrxq, Requests(h))
    BY <1>1, <1>2, SameKeeps, FewerTail DEF TokensOK
  <2>2. CASE h = f.src
    <3>1. RequestOK(h, f)
      BY <1>1, <1>2, <1>4, <2>1, <2>2, HeadAmong DEF TokenInv, Asked
    <3>2. AnswerOK(h, m)'
      <4>1. typed[h] = 0 /\ Awaits(h, OBJ_CONSOLECONN)
        BY <1>1, <3>1 DEF RequestOK, WO, DAT
      <4>2. OBJ_CONSOLECONN # OBJ_CONSOLERECV
        BY DEF OBJ_CONSOLECONN, OBJ_CONSOLERECV
      <4>3. typed'[h] = 0 /\ Awaits(h, OBJ_CONSOLECONN)'
        BY <2>1, <4>1 DEF Keeps, Awaits
      <4> QED
        BY <1>3, <4>2, <4>3 DEF AnswerOK
    <3> QED
      BY <1>1, <1>3, <1>4, <2>1, <2>2, <3>2, RequestTaken
  <2>3. CASE h # f.src
    <3>1. m \notin AnswersTo(h)
      BY <1>3, <2>3 DEF AnswersTo
    <3> QED
      BY <1>1, <1>2, <1>3, <2>1, <3>1, FewerSame, FewerAppended, FewerTokens
  <2> QED
    BY <2>2, <2>3
<1> QED
  BY <1>1, <1>5 DEF TokensOK

LEMMA ConsoleRecvTokens ==
  ASSUME TypeInv, TokensOK, UNCHANGED helperVars, RxConsoleRecv
  PROVE  TokensOK'
<1> PICK f : f = Head(canrxq)
  OBVIOUS
<1> DEFINE room == TxLen - serialtxq
           n == IF ~console.connected THEN 0
                ELSE IF room < Len(f.data) THEN room ELSE Len(f.data)
           d == SubSeq(f.data, 1, n)
<1>1. /\ canrxq # <<>> /\ f.type = DAT /\ f.object = OBJ_CONSOLERECV
      /\ canrxq' = Tail(canrxq) /\ toPi' = toPi \o d /\ UNCHANGED <<sock, msg>>
      /\ \/ bus' = bus
         \/ bus' = Append(bus, Reply(f, NAK))
         \/ /\ bus' = Append(bus, [Reply(f, ACK) EXCEPT !.eot = 0, !.seq = 0])
            /\ n = Len(f.data)
  BY DEF RxConsoleRecv, Received, taskVars, AllSent
<1>2. /\ f \in ToSlotFrame /\ canrxq \in Seq(ToSlotFrame) /\ bus \in Seq(FromSlotFrame)
      /\ f.src \in Helper /\ f.data \in Seq(Nat) /\ toPi \in Seq(Nat)
  BY <1>1, ReceivedType DEF TypeInv, ChannelsOK, TxOK
<1>3. n \in 0..Len(f.data)
  <2>1. Len(f.data) \in Nat /\ room \in Nat
    BY <1>2, FirmwareAssumption DEF TypeInv, TxOK
  <2> HIDE DEF room
  <2> QED
    BY <2>1
<1> HIDE DEF n
<1>4. d \in Seq(Nat) /\ Len(d) = n /\ \A p \in 1..n : d[p] = f.data[p]
  BY <1>2, <1>3, Slices, SMTT(40)
<1> PICK nak : nak = Reply(f, NAK)
  OBVIOUS
<1> PICK ack : ack = [Reply(f, ACK) EXCEPT !.eot = 0, !.seq = 0]
  OBVIOUS
<1>5. \A m \in {nak, ack} : /\ m \in AnswersTo(f.src) /\ m.object = OBJ_CONSOLERECV
                            /\ m \in FromSlotFrame /\ m.dst = f.src
  BY <1>1, <1>2, ReplyIsFrame, ReplyFields DEF AnswersTo, Answers
<1>6. nak.type = NAK
  BY <1>2, ReplyFields
<1>7. f \in Requests(f.src)
  BY <1>1, <1>2 DEF Requests
<1> HIDE DEF d
<1>8. ValuesOf(toPi') = ValuesOf(toPi) \cup ValuesOf(d)
  BY <1>1, <1>2, <1>4, ConcatValues
<1>9. n = Len(f.data) => ValuesOf(d) = ValuesOf(f.data)
  BY <1>4 DEF ValuesOf
<1>10. \/ bus' = bus \/ bus' = Append(bus, nak)
       \/ bus' = Append(bus, ack) /\ n = Len(f.data)
  BY <1>1
<1>11. ASSUME NEW h \in Helper PROVE TokenInv(h)'
  <2>1. TokenInv(h) /\ Keeps(h) /\ Fewer(canrxq', canrxq, Requests(h))
    BY <1>1, <1>2, <1>8, SameKeeps, FewerTail DEF TokensOK
  <2>2. CASE h = f.src
    <3>1. RequestOK(h, f)
      BY <1>1, <1>2, <1>7, <2>1, <2>2, HeadAmong DEF TokenInv, Asked
    <3>2. Awaits(h, OBJ_CONSOLERECV)' /\ PiHas(h, ValuesOf(f.data))
      BY <1>1, <2>1, <3>1 DEF RequestOK, Keeps, Awaits
    <3>3. OBJ_CONSOLECONN # OBJ_CONSOLERECV /\ NAK # ACK
      BY DEF OBJ_CONSOLECONN, OBJ_CONSOLERECV, NAK, ACK
    <3>4. AnswerOK(h, nak)'
      BY <1>5, <1>6, <3>2, <3>3 DEF AnswerOK
    <3>5. n = Len(f.data) => AnswerOK(h, ack)'
      <4>1. n = Len(f.data) => PiHas(h, {})'
        BY <1>8, <1>9, <2>1, <3>2 DEF PiHas, Keeps
      <4> QED
        BY <1>5, <3>2, <3>3, <4>1 DEF AnswerOK
    <3>6. nak \in AnswersTo(h) /\ ack \in AnswersTo(h) /\ Head(canrxq) \in Requests(h)
      BY <1>5, <1>7, <2>2
    <3>7. CASE bus' = bus \/ bus' = Append(bus, nak)
      BY <1>1, <2>1, <3>4, <3>6, <3>7, RequestTaken
    <3>8. CASE bus' = Append(bus, ack) /\ n = Len(f.data)
      BY <1>1, <2>1, <3>5, <3>6, <3>8, RequestTaken
    <3> QED
      BY <1>10, <3>7, <3>8
  <2>3. CASE h # f.src
    <3>1. nak \notin AnswersTo(h) /\ ack \notin AnswersTo(h)
      BY <1>5, <2>3 DEF AnswersTo
    <3>2. Fewer(bus', bus, AnswersTo(h))
      <4>1. CASE bus' = bus
        BY <4>1, FewerSame
      <4>2. CASE bus' = Append(bus, nak)
        BY <1>2, <1>5, <3>1, <4>2, FewerAppended
      <4>3. CASE bus' = Append(bus, ack)
        BY <1>2, <1>5, <3>1, <4>3, FewerAppended
      <4> QED
        BY <1>10, <4>1, <4>2, <4>3
    <3> QED
      BY <1>1, <2>1, <3>2, FewerSame, FewerTokens
  <2> QED
    BY <2>2, <2>3
<1> QED
  BY <1>1, <1>11 DEF TokensOK

LEMMA DropTokens ==
  ASSUME TypeInv, TokensOK, UNCHANGED helperVars, RxConsoleDisc \/ RxAck
  PROVE  TokensOK'
<1> PICK f : f = Head(canrxq)
  OBVIOUS
<1> PICK ack : ack = Reply(f, ACK)
  OBVIOUS
<1> PICK nak : nak = Reply(f, NAK)
  OBVIOUS
<1>1. /\ canrxq # <<>> /\ canrxq' = Tail(canrxq) /\ UNCHANGED <<sock, toPi, msg>>
      /\ \/ bus' = bus
         \/ f.object = OBJ_CONSOLEDISC /\ (bus' = Append(bus, ack) \/ bus' = Append(bus, nak))
  BY DEF RxConsoleDisc, RxAck, Received, Respond, txVars, taskVars
<1>2. f \in ToSlotFrame /\ canrxq \in Seq(ToSlotFrame) /\ bus \in Seq(FromSlotFrame)
  BY <1>1, ReceivedType DEF TypeInv, ChannelsOK
<1>3. ack \in FromSlotFrame /\ nak \in FromSlotFrame
  BY <1>2, ReplyIsFrame
<1>4. ack.object = f.object /\ nak.object = f.object
  BY <1>2, ReplyFields
<1>5. ASSUME NEW h \in Helper PROVE TokenInv(h)'
  <2>1. TokenInv(h) /\ Keeps(h) /\ Fewer(canrxq', canrxq, Requests(h))
    BY <1>1, <1>2, SameKeeps, FewerTail DEF TokensOK
  <2>2. f.object = OBJ_CONSOLEDISC => ack \notin AnswersTo(h) /\ nak \notin AnswersTo(h)
    BY <1>4 DEF AnswersTo, Answers, OBJ_CONSOLEDISC, OBJ_CONSOLECONN, OBJ_CONSOLERECV
  <2>3. Fewer(bus', bus, AnswersTo(h))
    <3>1. CASE bus' = bus
      BY <3>1, FewerSame
    <3>2. CASE f.object = OBJ_CONSOLEDISC /\ bus' = Append(bus, ack)
      BY <1>2, <1>3, <2>2, <3>2, FewerAppended
    <3>3. CASE f.object = OBJ_CONSOLEDISC /\ bus' = Append(bus, nak)
      BY <1>2, <1>3, <2>2, <3>3, FewerAppended
    <3> QED
      BY <1>1, <3>1, <3>2, <3>3
  <2> QED
    BY <1>1, <2>1, <2>3, FewerSame, FewerTokens
<1> QED
  BY <1>1, <1>5 DEF TokensOK

(* A frame crosses the bus: the answer it may be is heard, or gone. *)
LEMMA BusTokens ==
  ASSUME TypeInv, TokensOK, UNCHANGED <<firmwareVars, helperVars>>,
         Deliver \/ LoseToFirmware \/ LoseToHelper
  PROVE  TokensOK'
<1>0. UNCHANGED <<toPi, msg>>
  BY DEF firmwareVars, txVars, taskVars
<1>1. /\ canrxq \in Seq(ToSlotFrame) /\ bus \in Seq(FromSlotFrame)
      /\ sock \in [Helper -> Seq(FromSlotFrame)]
  BY DEF TypeInv, ChannelsOK
<1>2. \A h \in Helper : TokenInv(h) /\ Keeps(h)
  BY <1>0, SameKeeps DEF TokensOK
<1>3. CASE LoseToFirmware
  <2>1. canrxq # <<>> /\ canrxq' = Tail(canrxq) /\ UNCHANGED <<bus, sock>>
    BY <1>3 DEF LoseToFirmware
  <2>2. ASSUME NEW h \in Helper PROVE TokenInv(h)'
    BY <1>1, <1>2, <2>1, FewerTail, FewerSame, FewerTokens
  <2> QED
    BY <1>0, <2>2 DEF TokensOK
<1>4. CASE LoseToHelper
  <2>1. PICK i \in 1..Len(bus) : bus' = RemoveAt(bus, i)
    BY <1>4 DEF LoseToHelper
  <2>2. UNCHANGED <<canrxq, sock>>
    BY <1>4 DEF LoseToHelper
  <2>3. ASSUME NEW h \in Helper PROVE TokenInv(h)'
    <3>1. Fewer(bus', bus, AnswersTo(h))
      BY <1>1, <2>1, FewerRemoved
    <3> QED
      BY <1>2, <2>2, <3>1, FewerSame, FewerTokens
  <2> QED
    BY <1>0, <2>3 DEF TokensOK
<1>5. CASE Deliver
  <2>1. PICK i \in 1..Len(bus) :
          /\ bus' = RemoveAt(bus, i)
          /\ sock' = [h \in Helper |->
                        IF h = bus[i].dst /\ h \in listening
                          THEN Append(sock[h], OverTheWire(bus[i])) ELSE sock[h]]
    BY <1>5 DEF Deliver
  <2>2. UNCHANGED canrxq
    BY <1>5 DEF Deliver
  <2>3. PICK m \in FromSlotFrame : m = bus[i]
    BY <1>1
  <2>4. OverTheWire(bus[i]) = m
    BY <2>3, SlotFrameArrives
  <2>5. ASSUME NEW h \in Helper PROVE TokenInv(h)'
    <3>1. Fewer(bus', bus, AnswersTo(h))
      BY <1>1, <2>1, FewerRemoved
    <3>2. sock'[h] = sock[h] \/ (m.dst = h /\ sock'[h] = Append(sock[h], m))
      BY <2>1, <2>3, <2>4
    <3>3. sock[h] \in Seq(FromSlotFrame)
      BY <1>1
    <3>4. CASE sock'[h] = sock[h]
      BY <1>2, <2>2, <3>1, <3>4, FewerSame, FewerTokens
    <3>5. CASE m.dst = h /\ sock'[h] = Append(sock[h], m)
      <4>1. CASE m \notin Answers
        <5>1. Fewer(sock'[h], sock[h], Answers)
          BY <3>3, <3>5, <4>1, FewerAppended
        <5> QED
          BY <1>2, <2>2, <3>1, <5>1, FewerSame, FewerTokens
      <4>2. CASE m \in Answers
        <5>1. m \in AnswersTo(h) /\ OneOnTheWay(h) /\ TokenInv(h)
          BY <1>2, <3>5, <4>2 DEF AnswersTo, TokenInv
        <5>2. m \in Answered(h)
          BY <2>3, <5>1 DEF Answered, Among, ValuesOf
        <5>3. AnswerOK(h, m) /\ Asked(h) = {} /\ Heard(h) = {} /\ ~stdinOn[h] /\ starts[h] # 0
          BY <5>1, <5>2 DEF TokenInv, OneOnTheWay, NothingOnTheWay
        <5>4. Single(bus', AnswersTo(h)) /\ Answered(h)' = {}
          <6>1. Single(bus, AnswersTo(h)) /\ bus[i] \in AnswersTo(h)
            BY <2>3, <5>1 DEF OneOnTheWay
          <6>2. Among(RemoveAt(bus, i), AnswersTo(h)) = {}
            BY <1>1, <6>1, FewerRemoved
          <6> QED
            BY <2>1, <3>1, <6>1, <6>2 DEF Fewer, Answered
        <5>5. Single(sock'[h], Answers) /\ Heard(h)' \subseteq {m}
          <6>1. Among(sock[h], Answers) = {}
            BY <5>3 DEF Heard
          <6>2. /\ Single(Append(sock[h], m), Answers)
                /\ Among(Append(sock[h], m), Answers) \subseteq {m}
            BY <3>3, <6>1, FewerAppended
          <6> QED
            BY <3>5, <6>2 DEF Heard
        <5>6. Asked(h)' = {} /\ Single(canrxq', Requests(h))
          BY <2>2, <5>1, <5>3 DEF Asked, OneOnTheWay
        <5>7. typed'[h] = typed[h] /\ unanswered'[h] = unanswered[h]
              /\ ~stdinOn'[h] /\ starts'[h] # 0
          BY <5>3 DEF helperVars
        <5>8. AnswerOK(h, m)'
          BY <1>0, <5>3, <5>7 DEF AnswerOK, Awaits, PiHas
        <5>9. Awaits(h, OBJ_CONSOLECONN)' \/ Awaits(h, OBJ_CONSOLERECV)'
          BY <5>1, <5>7 DEF TokenInv, Awaits
        <5> QED
          BY <5>4, <5>5, <5>6, <5>7, <5>8, <5>9, OneAnswer
      <4> QED
        BY <4>1, <4>2
    <3> QED
      BY <3>2, <3>4, <3>5
  <2> QED
    BY <1>0, <2>5 DEF TokensOK
<1> QED
  BY <1>3, <1>4, <1>5

(* A helper's frame in canrxq. *)
Sends(h, m) == m \in ToSlotFrame /\ m.src = h /\ canrxq' = Append(canrxq, m)

(* A step of the process at h leaves the others alone. *)
OthersStay(h) ==
  \A g \in Helper : g # h =>
    /\ sock'[g] = sock[g] /\ typed'[g] = typed[g] /\ starts'[g] = starts[g]
    /\ unanswered'[g] = unanswered[g] /\ stdinOn'[g] = stdinOn[g] /\ hpc'[g] = hpc[g]

LEMMA OthersTokens ==
  ASSUME TypeInv, TokensOK, NEW h \in Helper, NEW g \in Helper, g # h, OthersStay(h),
         UNCHANGED <<bus, toPi>>, canrxq' = canrxq \/ \E m : Sends(h, m)
  PROVE  TokenInv(g)'
<1>1. TokenInv(g) /\ Keeps(g) /\ sock'[g] = sock[g]
  BY DEF TokensOK, OthersStay, Keeps
<1>2. Fewer(canrxq', canrxq, Requests(g))
  <2>1. CASE canrxq' = canrxq
    BY <2>1, FewerSame
  <2>2. CASE \E m : Sends(h, m)
    <3>1. PICK m : Sends(h, m)
      BY <2>2
    <3>2. m \in ToSlotFrame /\ m \notin Requests(g) /\ canrxq' = Append(canrxq, m)
      BY <3>1 DEF Sends, Requests
    <3>3. canrxq \in Seq(ToSlotFrame)
      BY DEF TypeInv, ChannelsOK
    <3> QED
      BY <3>2, <3>3, FewerAppended
  <2> QED
    BY <2>1, <2>2
<1> QED
  BY <1>1, <1>2, FewerSame, FewerTokens

(* The process at h asks for nothing: it hears a frame, or closes its socket. *)
Quiet(h) ==
  /\ UNCHANGED <<bus, toPi, msg>> /\ OthersStay(h) /\ Keeps(h)
  /\ canrxq' = canrxq \/ \E m : Sends(h, m) /\ m \notin Requests(h)
  /\ \/ sock'[h] = sock[h] \/ sock'[h] = <<>>
     \/ sock[h] # <<>> /\ sock'[h] = Tail(sock[h])

LEMMA QuietTokens ==
  ASSUME TypeInv, TokensOK, NEW h \in Helper, Quiet(h)
  PROVE  TokensOK'
<1>1. canrxq \in Seq(ToSlotFrame) /\ sock[h] \in Seq(FromSlotFrame)
  BY DEF TypeInv, ChannelsOK
<1>2. Fewer(canrxq', canrxq, Requests(h))
  <2>1. CASE canrxq' = canrxq
    BY <2>1, FewerSame
  <2>2. CASE \E m : Sends(h, m) /\ m \notin Requests(h)
    <3>1. PICK m : Sends(h, m) /\ m \notin Requests(h)
      BY <2>2
    <3>2. m \in ToSlotFrame /\ canrxq' = Append(canrxq, m)
      BY <3>1 DEF Sends
    <3> QED
      BY <1>1, <3>1, <3>2, FewerAppended
  <2> QED
    BY <2>1, <2>2 DEF Quiet
<1>3. Fewer(sock'[h], sock[h], Answers)
  <2>1. CASE sock'[h] = sock[h]
    BY <2>1, FewerSame
  <2>2. CASE sock'[h] = <<>>
    <3>1. Len(sock'[h]) = 0 /\ 1..0 = {}
      BY <2>2
    <3> QED
      BY <3>1 DEF Fewer, Single, Among, ValuesOf
  <2>3. CASE sock[h] # <<>> /\ sock'[h] = Tail(sock[h])
    BY <1>1, <2>3, FewerTail
  <2> QED
    BY <2>1, <2>2, <2>3 DEF Quiet
<1>4. TokenInv(h)'
  <2>1. TokenInv(h) /\ Keeps(h) /\ UNCHANGED bus
    BY DEF TokensOK, Quiet
  <2> QED
    BY <1>2, <1>3, <2>1, FewerSame, FewerTokens
<1>5. ASSUME NEW g \in Helper, g # h PROVE TokenInv(g)'
  BY <1>5, OthersTokens DEF Quiet
<1> QED
  BY <1>4, <1>5 DEF TokensOK, Quiet

LEMMA DieQuiet ==
  ASSUME TypeInv, NEW h \in Helper, Die(h), UNCHANGED <<canrxq, bus, toPi, msg>>
  PROVE  Quiet(h)
<1>1. OthersStay(h) /\ Keeps(h) /\ sock'[h] = <<>>
  BY DEF TypeInv, ChannelsOK, HelpersOK, Die, OthersStay, Keeps
<1> QED
  BY <1>1 DEF Quiet

LEMMA DisconnectQuiet ==
  ASSUME TypeInv, NEW h \in Helper, Disconnect(h), hpc[h] = "run", UNCHANGED firmwareVars
  PROVE  Quiet(h)
<1> PICK m : m = Request(h, WO, OBJ_CONSOLEDISC, 0, <<OBJ_CONSOLESEND>>)
  OBVIOUS
<1>1. m \in ToSlotFrame /\ OverTheWire(m) = m
  <2>1. /\ OBJ_CONSOLEDISC \in 0..255 /\ <<OBJ_CONSOLESEND>> \in Seq(Nat)
        /\ WO \in {WO, DAT, ACK} /\ 0 \in {0, 1}
    BY DEF OBJ_CONSOLEDISC, OBJ_CONSOLESEND
  <2> QED
    BY <2>1, RequestArrives
<1>2. canrxq' = Append(canrxq, m)
  BY <1>1 DEF Disconnect, SendToSlot
<1>3. m.src = h /\ m.type = WO /\ m.object = OBJ_CONSOLEDISC
  BY DEF Request, Message
<1>4. Sends(h, m) /\ m \notin Requests(h)
  BY <1>1, <1>2, <1>3 DEF Sends, Requests, WO, DAT, OBJ_CONSOLEDISC, OBJ_CONSOLECONN
<1>5. OthersStay(h) /\ Keeps(h)
  BY DEF TypeInv, HelpersOK, Disconnect, OthersStay, Keeps, firmwareVars, txVars
<1> QED
  BY <1>4, <1>5 DEF Quiet, Disconnect, firmwareVars, txVars, taskVars

LEMMA FinishQuiet ==
  ASSUME TypeInv, NEW h \in Helper, NEW c, Finish(h, c)
  PROVE  \E m : Sends(h, m) /\ m \notin Requests(h)
<1> PICK m : m = Request(h, ACK, OBJ_CONSOLESEND, 0, <<>>)
  OBVIOUS
<1>1. m \in ToSlotFrame /\ OverTheWire(m) = m
  <2>1. /\ OBJ_CONSOLESEND \in 0..255 /\ <<>> \in Seq(Nat)
        /\ ACK \in {WO, DAT, ACK} /\ ACK # WO /\ 0 \in {0, 1}
    BY DEF OBJ_CONSOLESEND, ACK, WO
  <2> QED
    BY <2>1, RequestArrives
<1>2. canrxq' = Append(canrxq, m)
  BY <1>1 DEF Finish, console_send_ack, SendToSlot
<1>3. m.src = h /\ m.type = ACK /\ m.object = OBJ_CONSOLESEND
  BY DEF Request, Message
<1> QED
  BY <1>1, <1>2, <1>3 DEF Sends, Requests, ACK, DAT, OBJ_CONSOLESEND, OBJ_CONSOLECONN

(* The answer that process h waits for: an ACK lets stdin be read again. *)
LEMMA AckHeard ==
  ASSUME TypeInv, TokensOK, NEW h \in Helper, NEW object \in {OBJ_CONSOLECONN, OBJ_CONSOLERECV},
         RecvReply(h, object), Head(sock[h]).type # NAK, UNCHANGED firmwareVars
  PROVE  TokensOK'
<1> PICK m : m = Head(sock[h])
  OBVIOUS
<1>1. /\ sock[h] # <<>> /\ m.object = object /\ m.type = ACK
      /\ sock' = [sock EXCEPT ![h] = Tail(@)] /\ stdinOn' = [stdinOn EXCEPT ![h] = TRUE]
      /\ unanswered' = [unanswered EXCEPT ![h] = @ \ {object}]
      /\ UNCHANGED <<hpc, typed, starts, canrxq, bus, toPi, msg>>
  BY DEF RecvReply, ReadCan, firmwareVars, txVars, taskVars
<1>2. /\ sock \in [Helper -> Seq(FromSlotFrame)] /\ sock[h] \in Seq(FromSlotFrame)
      /\ stdinOn \in [Helper -> BOOLEAN]
      /\ unanswered \in [Helper -> SUBSET {OBJ_CONSOLECONN, OBJ_CONSOLERECV}]
      /\ OBJ_CONSOLECONN # OBJ_CONSOLERECV
  BY DEF TypeInv, ChannelsOK, HelpersOK, OBJ_CONSOLECONN, OBJ_CONSOLERECV
<1>3. m \in FromSlotFrame
  BY <1>1, SocketType
<1>4. m \in Answers /\ Head(sock[h]) \in Answers
  BY <1>1, <1>3 DEF Answers
<1>5. m \in Heard(h) /\ TokenInv(h)
  BY <1>1, <1>2, <1>4, HeadAmong DEF Heard, TokensOK
<1>6. OneOnTheWay(h) /\ AnswerOK(h, m)
  BY <1>5 DEF TokenInv
<1>7. Asked(h) = {} /\ Answered(h) = {}
  BY <1>5, <1>6 DEF OneOnTheWay
<1>8. Single(sock'[h], Answers) /\ Heard(h)' = {}
  <2>1. Single(sock[h], Answers) /\ sock'[h] = Tail(sock[h])
    BY <1>1, <1>2, <1>6 DEF OneOnTheWay
  <2>2. Fewer(Tail(sock[h]), sock[h], Answers) /\ Among(Tail(sock[h]), Answers) = {}
    BY <1>1, <1>2, <1>4, <2>1, FewerTail
  <2> QED
    BY <2>1, <2>2 DEF Fewer, Heard
<1>9. PiHas(h, {})
  BY <1>1, <1>6 DEF AnswerOK, PiHas
<1>10. TokenInv(h)'
  <2>1. Asked(h)' = {} /\ Answered(h)' = {} /\ PiHas(h, {})'
    BY <1>1, <1>7, <1>9 DEF Asked, Answered, PiHas
  <2>2. Single(canrxq', Requests(h)) /\ Single(bus', AnswersTo(h))
    BY <1>1, <1>6 DEF OneOnTheWay
  <2>3. unanswered'[h] = {}
    BY <1>1, <1>2, <1>6 DEF AnswerOK, Awaits
  <2>4. starts'[h] # 0
    BY <1>1, <1>5 DEF TokenInv, NothingOnTheWay
  <2>5. OneOnTheWay(h)' /\ NothingOnTheWay(h)'
    BY <1>8, <2>1, <2>2 DEF OneOnTheWay, NothingOnTheWay
  <2>6. Awaits(h, OBJ_CONSOLECONN)'
    BY <2>3 DEF Awaits
  <2> QED
    BY <1>8, <2>1, <2>3, <2>4, <2>5, <2>6 DEF TokenInv
<1>11. ASSUME NEW g \in Helper, g # h PROVE TokenInv(g)'
  <2>1. OthersStay(h)
    BY <1>1, <1>2 DEF OthersStay
  <2> QED
    BY <1>1, <1>11, <2>1, OthersTokens
<1> QED
  BY <1>1, <1>10, <1>11 DEF TokensOK

LEMMA HelperTokens ==
  ASSUME TypeInv, TokensOK, NEW h \in Helper, HelperStep(h)
  PROVE  TokensOK'
<1>0. UNCHANGED firmwareVars
  BY DEF HelperStep
<1>1. UNCHANGED <<toPi, msg>>
  BY <1>0 DEF firmwareVars, txVars, taskVars
<1>2. CASE RecvDat(h)
  <2>1. /\ UNCHANGED <<bus, hpc, stdinOn, typed, unanswered, starts>> /\ sock[h] # <<>>
        /\ sock' = [sock EXCEPT ![h] = Tail(@)]
        /\ canrxq' = canrxq \/ \E c : Finish(h, c)
    BY <1>2 DEF RecvDat, ReadCan
  <2>2. canrxq' = canrxq \/ \E m : Sends(h, m) /\ m \notin Requests(h)
    BY <2>1, FinishQuiet
  <2>3. OthersStay(h) /\ Keeps(h) /\ sock'[h] = Tail(sock[h])
    BY <1>1, <2>1 DEF OthersStay, Keeps, TypeInv, ChannelsOK
  <2>4. Quiet(h)
    BY <1>1, <2>1, <2>2, <2>3 DEF Quiet
  <2> QED
    BY <2>4, QuietTokens
<1>3. ASSUME NEW object \in {OBJ_CONSOLECONN, OBJ_CONSOLERECV}, RecvReply(h, object)
      PROVE  TokensOK'
  <2>1. CASE Head(sock[h]).type = NAK
    <3>1. Die(h) /\ UNCHANGED <<canrxq, bus>>
      BY <1>3, <2>1 DEF RecvReply
    <3> QED
      BY <1>1, <3>1, DieQuiet, QuietTokens
  <2>2. CASE Head(sock[h]).type # NAK
    BY <1>0, <1>3, <2>2, AckHeard
  <2> QED
    BY <2>1, <2>2
<1>4. CASE Skip(h)
  <2>1. UNCHANGED <<bus, canrxq, hpc, stdinOn, typed, unanswered, starts>> /\ sock[h] # <<>>
        /\ sock' = [sock EXCEPT ![h] = Tail(@)]
    BY <1>4 DEF Skip, ReadCan, helperVars
  <2>2. OthersStay(h) /\ Keeps(h) /\ sock'[h] = Tail(sock[h])
    BY <1>1, <2>1 DEF OthersStay, Keeps, TypeInv, ChannelsOK
  <2>3. Quiet(h)
    BY <1>1, <2>1, <2>2 DEF Quiet
  <2> QED
    BY <2>3, QuietTokens
<1>5. CASE DiscReply(h) \/ DiscTimeout(h) \/ AckTimeout(h)
  <2>1. Die(h) /\ UNCHANGED <<canrxq, bus>>
    BY <1>5 DEF DiscReply, DiscTimeout, AckTimeout
  <2> QED
    BY <1>1, <2>1, DieQuiet, QuietTokens
<1>6. CASE RecvTimeout(h)
  <2>1. CASE Disconnect(h)
    <3>1. hpc[h] = "run"
      BY <1>6 DEF RecvTimeout
    <3> QED
      BY <1>0, <2>1, <3>1, DisconnectQuiet, QuietTokens
  <2>2. CASE Finish(h, chunk[h]) /\ UNCHANGED <<hpc, stdinOn, typed, unanswered, starts, bus, sock>>
    <3>1. \E m : Sends(h, m) /\ m \notin Requests(h)
      BY <2>2, FinishQuiet
    <3>2. OthersStay(h) /\ Keeps(h)
      BY <1>1, <2>2 DEF OthersStay, Keeps
    <3>3. Quiet(h)
      BY <1>1, <2>2, <3>1, <3>2 DEF Quiet
    <3> QED
      BY <3>3, QuietTokens
  <2> QED
    BY <1>6, <2>1, <2>2 DEF RecvTimeout
<1> QED
  BY <1>2, <1>3, <1>4, <1>5, <1>6 DEF HelperStep

(* One process at each address: nothing of an earlier one is on its way. *)
LEMMA StartTokens ==
  ASSUME MaxStart = 1, TypeInv, TokensOK, NEW h \in Helper, Start(h), UNCHANGED firmwareVars
  PROVE  TokensOK'
<1> PICK m : m = Request(h, WO, OBJ_CONSOLECONN, 0, <<OBJ_CONSOLESEND>>)
  OBVIOUS
<1>1. m \in ToSlotFrame /\ OverTheWire(m) = m
  <2>1. /\ OBJ_CONSOLECONN \in 0..255 /\ <<OBJ_CONSOLESEND>> \in Seq(Nat)
        /\ WO \in {WO, DAT, ACK} /\ 0 \in {0, 1}
    BY DEF OBJ_CONSOLECONN, OBJ_CONSOLESEND
  <2> QED
    BY <2>1, RequestArrives
<1>2. /\ canrxq' = Append(canrxq, m) /\ UNCHANGED <<bus, sock, typed, stdinOn, toPi, msg>>
      /\ starts' = [starts EXCEPT ![h] = @ + 1] /\ starts[h] < MaxStart
      /\ unanswered' = [unanswered EXCEPT ![h] = {OBJ_CONSOLECONN}]
      /\ hpc' = [hpc EXCEPT ![h] = "run"]
  BY <1>1 DEF Start, MayStart, console_connect, SendToSlot, firmwareVars, txVars, taskVars
<1>3. m.src = h /\ m.type = WO
  BY DEF Request, Message
<1>4. /\ starts \in [Helper -> 0..MaxStart] /\ canrxq \in Seq(ToSlotFrame)
      /\ unanswered \in [Helper -> SUBSET {OBJ_CONSOLECONN, OBJ_CONSOLERECV}]
      /\ hpc \in [Helper -> {"off", "run", "disc"}]
  BY DEF TypeInv, HelpersOK, ChannelsOK
<1>5. starts[h] = 0 /\ TokenInv(h)
  BY <1>2, <1>4 DEF TokensOK
<1>6. NothingOnTheWay(h) /\ typed[h] = 0 /\ ~stdinOn[h] /\ OneOnTheWay(h)
  BY <1>5 DEF TokenInv
<1>7. TokenInv(h)'
  <2>1. Among(canrxq, Requests(h)) = {}
    BY <1>6 DEF NothingOnTheWay, Asked
  <2>2. /\ Single(Append(canrxq, m), Requests(h))
        /\ Among(Append(canrxq, m), Requests(h)) \subseteq {m}
    BY <1>1, <1>4, <2>1, FewerAppended
  <2>3. Single(canrxq', Requests(h)) /\ Asked(h)' \subseteq {m}
    BY <1>2, <2>2 DEF Asked
  <2>4. /\ Answered(h)' = {} /\ Heard(h)' = {}
        /\ Single(bus', AnswersTo(h)) /\ Single(sock'[h], Answers)
    BY <1>2, <1>6 DEF NothingOnTheWay, OneOnTheWay, Answered, Heard
  <2>5. Awaits(h, OBJ_CONSOLECONN)' /\ starts'[h] # 0 /\ ~stdinOn'[h] /\ typed'[h] = 0
    BY <1>2, <1>4, <1>5, <1>6 DEF Awaits
  <2>6. RequestOK(h, m)'
    BY <1>3, <2>5 DEF RequestOK, WO, DAT
  <2> QED
    BY <2>3, <2>4, <2>5, <2>6, OneRequest
<1>8. ASSUME NEW g \in Helper, g # h PROVE TokenInv(g)'
  <2>1. OthersStay(h) /\ Sends(h, m)
    BY <1>1, <1>2, <1>3, <1>4 DEF OthersStay, Sends
  <2> QED
    BY <1>2, <1>8, <2>1, OthersTokens
<1> QED
  BY <1>2, <1>7, <1>8 DEF TokensOK

(* stdin_cb sends what it read; nothing else of h is on the way. *)
LEMMA StdinTokens ==
  ASSUME TypeInv, TokensOK, NEW h \in Helper, StdinRead(h), UNCHANGED firmwareVars
  PROVE  TokensOK'
<1>1. PICK n \in 1..ReadLen :
        /\ typed[h] + n <= MaxKey
        /\ typed' = [typed EXCEPT ![h] = @ + n]
        /\ console_send_dat(h, [i \in 1..n |-> Key(h, typed[h] + i)])
  BY DEF StdinRead
<1>2. /\ typed \in [Helper -> 0..MaxKey] /\ MaxKey \in Nat /\ ReadLen \in Nat
      /\ stdinOn \in [Helper -> BOOLEAN] /\ canrxq \in Seq(ToSlotFrame)
      /\ unanswered \in [Helper -> SUBSET {OBJ_CONSOLECONN, OBJ_CONSOLERECV}]
  BY HelperAssumption DEF TypeInv, HelpersOK, ChannelsOK
<1> PICK k : k = typed[h]
  OBVIOUS
<1>3. k \in 0..MaxKey /\ n \in Nat /\ typed'[h] = k + n
  BY <1>1, <1>2
<1> PICK d : d = [i \in 1..n |-> Key(h, k + i)]
  OBVIOUS
<1>4. d \in Seq(Nat) /\ Len(d) = n /\ \A i \in 1..n : d[i] = Key(h, k + i)
  <2>1. \A i \in 1..n : k + i \in 1..MaxKey
    BY <1>1, <1>2, <1>3
  <2>2. \A i \in 1..n : Key(h, k + i) \in Nat
    BY <2>1, KeyFacts
  <2> QED
    BY <1>3, <2>2
<1> PICK m : m = Request(h, DAT, OBJ_CONSOLERECV, 1, d)
  OBVIOUS
<1>5. m \in ToSlotFrame /\ OverTheWire(m) = m
  <2>1. /\ DAT \in {WO, DAT, ACK} /\ OBJ_CONSOLERECV \in 0..255 /\ DAT # WO
        /\ 1 \in {0, 1}
    BY DEF DAT, WO, ACK, OBJ_CONSOLERECV
  <2> QED
    BY <1>4, <2>1, RequestArrives
<1>6. canrxq' = Append(canrxq, m)
  <2>1. SendToSlot(Request(h, DAT, OBJ_CONSOLERECV, 1, [i \in 1..n |-> Key(h, typed[h] + i)]))
    BY <1>1 DEF console_send_dat
  <2> QED
    BY <1>5, <2>1 DEF SendToSlot
<1>7. /\ stdinOn[h] /\ stdinOn' = [stdinOn EXCEPT ![h] = FALSE]
      /\ unanswered' = [unanswered EXCEPT ![h] = @ \cup {OBJ_CONSOLERECV}]
      /\ UNCHANGED <<hpc, starts, bus, sock, toPi, msg>>
  BY DEF StdinRead, firmwareVars, txVars, taskVars
<1>8. m.src = h /\ m.type = DAT /\ m.data = d
  BY DEF Request, Message
<1>9. TokenInv(h)
  BY DEF TokensOK
<1>10. NothingOnTheWay(h) /\ unanswered[h] = {} /\ PiHas(h, {}) /\ starts[h] # 0 /\ OneOnTheWay(h)
  BY <1>7, <1>9 DEF TokenInv
<1>11. TokenInv(h)'
  <2>1. Among(canrxq, Requests(h)) = {}
    BY <1>10 DEF NothingOnTheWay, Asked
  <2>2. /\ Single(Append(canrxq, m), Requests(h))
        /\ Among(Append(canrxq, m), Requests(h)) \subseteq {m}
    BY <1>2, <1>5, <2>1, FewerAppended
  <2>3. Single(canrxq', Requests(h)) /\ Asked(h)' \subseteq {m}
    BY <1>6, <2>2 DEF Asked
  <2>4. /\ Answered(h)' = {} /\ Heard(h)' = {}
        /\ Single(bus', AnswersTo(h)) /\ Single(sock'[h], Answers)
    BY <1>7, <1>10 DEF NothingOnTheWay, OneOnTheWay, Answered, Heard
  <2>5. Awaits(h, OBJ_CONSOLERECV)' /\ starts'[h] # 0 /\ ~stdinOn'[h]
    BY <1>2, <1>7, <1>10 DEF Awaits
  <2>6. PiHas(h, ValuesOf(m.data))'
    <3>1. \A j \in 1..k : Key(h, j) \in ValuesOf(toPi)
      BY <1>10 DEF PiHas
    <3>2. \A j \in 1..(k + n) : j \in 1..k \/ (j - k \in 1..n /\ j = k + (j - k))
      BY <1>3
    <3>3. \A i \in 1..n : Key(h, k + i) \in ValuesOf(d)
      BY <1>4 DEF ValuesOf
    <3>4. \A j \in 1..(k + n) : Key(h, j) \in ValuesOf(toPi) \cup ValuesOf(d)
      BY <3>1, <3>2, <3>3
    <3> QED
      BY <1>3, <1>7, <1>8, <3>4 DEF PiHas
  <2>7. RequestOK(h, m)'
    BY <1>8, <2>5, <2>6 DEF RequestOK
  <2> QED
    BY <2>3, <2>4, <2>5, <2>7, OneRequest
<1>12. ASSUME NEW g \in Helper, g # h PROVE TokenInv(g)'
  <2>1. OthersStay(h) /\ Sends(h, m)
    BY <1>1, <1>2, <1>5, <1>6, <1>7, <1>8 DEF OthersStay, Sends
  <2> QED
    BY <1>7, <1>12, <2>1, OthersTokens
<1> QED
  BY <1>7, <1>11, <1>12 DEF TokensOK

LEMMA TokensInit == Init => TokensOK
<1> SUFFICES ASSUME Init PROVE TokensOK
  OBVIOUS
<1>1. msg.type = DAT
  BY DEF Init, FirmwareInit, Message
<1>2. ASSUME NEW h \in Helper PROVE TokenInv(h)
  <2>1. /\ canrxq = <<>> /\ bus = <<>> /\ sock[h] = <<>> /\ unanswered[h] = {}
        /\ typed[h] = 0 /\ ~stdinOn[h] /\ hpc[h] = "off"
    BY DEF Init, NetInit, HelperInit
  <2>2. Len(<<>>) = 0 /\ 1..0 = {}
    OBVIOUS
  <2>3. \A T : Among(<<>>, T) = {} /\ Single(<<>>, T)
    BY <2>2 DEF Among, ValuesOf, Single
  <2>4. NothingOnTheWay(h) /\ OneOnTheWay(h)
    BY <2>1, <2>3 DEF NothingOnTheWay, OneOnTheWay, Asked, Answered, Heard
  <2>5. Awaits(h, OBJ_CONSOLECONN)
    BY <2>1 DEF Awaits
  <2> QED
    BY <2>1, <2>4, <2>5 DEF TokenInv, NothingOnTheWay
<1> QED
  BY <1>1, <1>2 DEF TokensOK

LEMMA TokensStep ==
  ASSUME MaxStart = 1
  PROVE  TypeInv /\ TokensOK /\ [Next]_vars => TokensOK'
<1> SUFFICES ASSUME TypeInv, TokensOK, [Next]_vars PROVE TokensOK'
  OBVIOUS
<1>1. CASE (UartByte \/ UartTx \/ ConTask \/ ConSendFails) /\ UNCHANGED helperVars
  BY <1>1, FirmwareTokens
<1>2. CASE RxTask /\ UNCHANGED helperVars
  BY <1>2, ConsoleConnTokens, ConsoleRecvTokens, DropTokens DEF RxTask
<1>3. CASE (Deliver \/ LoseToFirmware \/ LoseToHelper) /\ UNCHANGED <<firmwareVars, helperVars>>
  BY <1>3, BusTokens
<1>4. ASSUME NEW h \in Helper, HelperStep(h) PROVE TokensOK'
  BY <1>4, HelperTokens
<1>5. ASSUME NEW h \in Helper, UNCHANGED firmwareVars,
             Start(h) \/ CanError(h) \/ StdinRead(h) \/ StdinEof(h)
      PROVE  TokensOK'
  <2>1. CASE CanError(h)
    <3>1. Die(h) /\ UNCHANGED <<canrxq, bus, toPi, msg>>
      BY <1>5, <2>1 DEF CanError, firmwareVars, txVars, taskVars
    <3> QED
      BY <3>1, DieQuiet, QuietTokens
  <2>2. CASE StdinEof(h)
    <3>1. Disconnect(h) /\ hpc[h] = "run"
      BY <2>2 DEF StdinEof
    <3> QED
      BY <1>5, <3>1, DisconnectQuiet, QuietTokens
  <2> QED
    BY <1>5, <2>1, <2>2, StartTokens, StdinTokens
<1>6. CASE UNCHANGED vars
  <2>1. UNCHANGED <<canrxq, bus, sock, toPi, msg>> /\ UNCHANGED helperVars
    BY <1>6 DEF vars, netVars, firmwareVars, txVars, taskVars
  <2>2. ASSUME NEW h \in Helper PROVE TokenInv(h)'
    BY <2>1, SameKeeps, FewerSame, FewerTokens DEF TokensOK
  <2> QED
    BY <2>1, <2>2 DEF TokensOK
<1> QED
  BY <1>1, <1>2, <1>3, <1>4, <1>5, <1>6 DEF Next

LEMMA TokensAlways ==
  ASSUME MaxStart = 1
  PROVE  Spec => [](TypeInv /\ TokensOK)
<1>1. Init => TypeInv /\ TokensOK
  BY InitType, TokensInit
<1>2. TypeInv /\ TokensOK /\ [Next]_vars => (TypeInv /\ TokensOK)'
  BY TypeStep, TokensStep
<1> QED
  BY <1>1, <1>2, PTL DEF Spec

(* As long as no address has had an earlier process: a helper that reads stdin
   knows that every key it read before is in the Pi's transmit buffer
   (console_send_dat, handle_send_ack, canservices_consolerecv). *)
THEOREM AckMeansKeysReached ==
  ASSUME MaxStart = 1
  PROVE  Spec => []KeysReachPi
<1>1. TypeInv /\ TokensOK => KeysReachPi
  <2> SUFFICES ASSUME TypeInv, TokensOK, NEW h \in Helper, stdinOn[h],
                      NEW n \in (firstKey[h] + 1)..typed[h]
               PROVE  \E i \in DOMAIN toPi : toPi[i] = Key(h, n)
    BY DEF KeysReachPi
  <2>1. PiHas(h, {})
    BY DEF TokensOK, TokenInv
  <2>2. n \in 1..typed[h] /\ toPi \in Seq(Nat)
    BY DEF TypeInv, HelpersOK, TxOK
  <2>3. Key(h, n) \in ValuesOf(toPi)
    BY <2>1, <2>2 DEF PiHas
  <2>4. DOMAIN toPi = 1..Len(toPi)
    BY <2>2
  <2> QED
    BY <2>3, <2>4 DEF ValuesOf
<1> QED
  BY <1>1, TokensAlways, PTL

(* console.c, at timeout_cb, with one process at each address. *)
THEOREM OneTimerIsEnough ==
  ASSUME MaxStart = 1
  PROVE  Spec => []OneAckAwaited
<1>1. TypeInv /\ TokensOK => OneAckAwaited
  <2> SUFFICES ASSUME TokensOK, NEW h \in Helper PROVE Cardinality(unanswered[h]) <= 1
    BY DEF OneAckAwaited
  <2>1. PICK o : unanswered[h] \subseteq {o}
    BY DEF TokensOK, TokenInv, Awaits
  <2>2. unanswered[h] = {} \/ unanswered[h] = {o}
    BY <2>1
  <2>3. Cardinality({}) = 0 /\ Cardinality({o}) = 1
    BY FS_EmptySet, FS_Singleton
  <2> QED
    BY <2>2, <2>3
<1> QED
  BY <1>1, TokensAlways, PTL

(***************************************************************************)
(* The console as a pipe.  Without faults, with every party in time and    *)
(* with one process at one address, the bytes that have entered are at     *)
(* every moment, in this order: the process's output, the text of the      *)
(* pieces of the present chunk, what cancon holds, and what is left in     *)
(* serialrxq.  The pieces of the chunk are a sequence C of which those     *)
(* numbered in A are on the way, and the others in the process's chunk[].  *)
(***************************************************************************)
FaultFree == MaxFault = 0 /\ Slow = {} /\ MaxStart = 1 /\ \E h : Helper = {h}

Byte == 1..MaxByte
Piece == [data : Seq(1..MaxByte), eot : {0, 1}]
Text(C) == FlattenSeq([i \in 1..Len(C) |-> C[i].data])
(* The frame that carries piece i, and what travels in either direction. *)
DatOf(C, i) == Message(Slot, Client, DAT, OBJ_CONSOLESEND, C[i].eot, i - 1, C[i].data)
DatFrame == {f \in FromSlotFrame : f.type = DAT}
AckFrame == {f \in ToSlotFrame : f.type = ACK}
OnTheWay == Among(bus, DatFrame) \cup Among(sock[Client], DatFrame)
Acks == Among(canrxq, AckFrame)

PiecesSent(C) ==
  /\ Len(C) <= ChunkLen
  /\ \A i \in 1..Len(C) : C[i].data # <<>> /\ (C[i].eot = 1 => i = Len(C))
PiecesFound(C, A) ==
  /\ OnTheWay = {DatOf(C, i) : i \in A}
  /\ \A i \in 1..ChunkSize :
       chunk[Client][i - 1] = IF i \in 1..Len(C) /\ i \notin A THEN C[i] ELSE NoMessage
(* cancon adds to the chunk; or the chunk is sent and not complete at the
   process; or it has been written and its ACK is on the way or noticed. *)
Assembling(C) ==
  /\ cpc \in {"recv", "pack", "send"} /\ ~notified /\ Acks = {}
  /\ Len(C) < ChunkLen /\ \A i \in 1..Len(C) : C[i].eot = 0
  /\ cpc # "recv" => msg.data # <<>>
  /\ seq = IF cpc = "send" THEN Len(C) + 1 ELSE Len(C)
  /\ cpc = "send" =>
       /\ msg = Message(Slot, Client, DAT, OBJ_CONSOLESEND, msg.eot, Len(C), msg.data)
       /\ msg.eot = 0 => Len(C) + 1 < ChunkLen
Awaited(C, A) ==
  /\ cpc = "wait" /\ ~notified /\ Acks = {}
  /\ C # <<>> /\ C[Len(C)].eot = 1 /\ A # {}
Done(C) ==
  /\ cpc = "wait" /\ C = <<>> /\ Single(canrxq, AckFrame)
  /\ notified <=> Acks = {}

InOrder(a, b, c, d) == a \o (b \o (c \o d))
HeldText == IF cpc \in {"pack", "send"} THEN msg.data ELSE <<>>
Flow(C, A) ==
  /\ PiecesSent(C) /\ PiecesFound(C, A)
  /\ Assembling(C) \/ Awaited(C, A) \/ Done(C)
  /\ accepted = InOrder(out[Client], Text(C), HeldText, serialrxq)

(* The states a connection goes through. *)
Connected ==
  /\ hpc[Client] = "run" /\ Client \in listening /\ ~suspended
  /\ console = [dstaddr |-> Client, object |-> OBJ_CONSOLESEND, connected |-> TRUE]
  /\ \A f \in ValuesOf(canrxq) : f.type # WO /\ (f.type = ACK => f.object = OBJ_CONSOLESEND)
Streaming ==
  Connected /\ \E C \in Seq(Piece) : \E A \in SUBSET (1..Len(C)) : Flow(C, A)
Silent ==
  /\ bus = <<>> /\ sock[Client] = <<>> /\ suspended /\ ~rxEnabled
  /\ cpc = "recv" /\ seq = 0 /\ ~notified
  /\ serialrxq = <<>> /\ accepted = <<>> /\ out[Client] = <<>>
  /\ chunk[Client] = EmptyChunk /\ ~stdinOn[Client]
Unused == Silent /\ hpc[Client] = "off" /\ canrxq = <<>> /\ starts[Client] = 0
Calling ==
  /\ Silent /\ hpc[Client] = "run" /\ Client \in listening
  /\ canrxq = <<Request(Client, WO, OBJ_CONSOLECONN, 0, <<OBJ_CONSOLESEND>>)>>
Gone == hpc[Client] # "run"
PipeInv == Unused \/ (starts[Client] = 1 /\ (Calling \/ Streaming \/ Gone))

(* There is one client, and nothing is lost. *)
LEMMA OneClient ==
  ASSUME FaultFree
  PROVE  Client \in Helper /\ \A h \in Helper : h = Client
BY DEF FaultFree, Client

LEMMA NoFaults ==
  ASSUME FaultFree, TypeInv
  PROVE  ~(faults < MaxFault)
<1>1. faults \in 0..0 /\ MaxFault = 0
  BY DEF FaultFree, TypeInv, ChannelsOK
<1> QED
  BY <1>1

Texts(a, b, c, d) == a \in Seq(Byte) /\ b \in Seq(Byte) /\ c \in Seq(Byte) /\ d \in Seq(Byte)

(* A byte comes in behind the others. *)
LEMMA InOrderAppended ==
  ASSUME NEW a, NEW b, NEW c, NEW d, Texts(a, b, c, d), NEW x \in Byte
  PROVE  Append(InOrder(a, b, c, d), x) = InOrder(a, b, c, Append(d, x))
<1> DEFINE u == c \o d
           v == b \o u
<1>1. a \in Seq(Byte) /\ b \in Seq(Byte) /\ c \in Seq(Byte) /\ d \in Seq(Byte)
  BY DEF Texts
<1>2. u \in Seq(Byte) /\ v \in Seq(Byte)
  BY <1>1
<1>3. Append(u, x) = c \o Append(d, x)
  BY <1>1, AppendedToConcat
<1> HIDE DEF u
<1>4. Append(v, x) = b \o Append(u, x)
  BY AppendedToConcat, <1>1, <1>2
<1> HIDE DEF v
<1>5. Append(a \o v, x) = a \o Append(v, x)
  BY AppendedToConcat, <1>1, <1>2
<1> QED
  BY <1>3, <1>4, <1>5 DEF InOrder, u, v

(* What changes hands stays where it is in the order. *)
LEMMA InOrderMoved ==
  ASSUME NEW a, NEW b, NEW c, NEW d, Texts(a, b, c, d)
  PROVE  /\ InOrder(a, b, <<>>, c \o d) = InOrder(a, b, c, d)
         /\ InOrder(a, b \o c, <<>>, d) = InOrder(a, b, c, d)
         /\ InOrder(a \o b, <<>>, c, d) = InOrder(a, b, c, d)
<1> DEFINE u == c \o d
<1>1. a \in Seq(Byte) /\ b \in Seq(Byte) /\ c \in Seq(Byte) /\ d \in Seq(Byte)
  BY DEF Texts
<1>2. u \in Seq(Byte) /\ <<>> \o u = u /\ <<>> \o d = d
  BY <1>1
<1>3. (b \o c) \o d = b \o u
  BY <1>1, ConcatThrice, SMTT(40)
<1> HIDE DEF u
<1>4. (a \o b) \o u = a \o (b \o u)
  <2>1. a \in Seq(Byte) /\ b \in Seq(Byte)
    BY <1>1
  <2> QED
    BY <1>2, <2>1, ConcatThrice
<1> QED
  BY <1>2, <1>3, <1>4, ZenonT(60) DEF InOrder, u

LEMMA InOrderPrefixes ==
  ASSUME NEW a, NEW b, NEW c, NEW d, Texts(a, b, c, d)
  PROVE  /\ InOrder(a, b, c, d) \in Seq(Byte)
         /\ IsPrefix(a, InOrder(a, b, c, d)) /\ IsPrefix(a, a \o b)
         /\ IsPrefix(a \o b, InOrder(a, b, c, d))
<1> DEFINE u == c \o d
           v == b \o u
<1>1. a \in Seq(Byte) /\ b \in Seq(Byte) /\ c \in Seq(Byte) /\ d \in Seq(Byte)
  BY DEF Texts
<1>2. u \in Seq(Byte) /\ v \in Seq(Byte) /\ a \o b \in Seq(Byte)
  BY <1>1, ConcatProperties
<1> HIDE DEF u
<1>3. (a \o b) \o u = a \o v
  <2>1. a \in Seq(Byte) /\ b \in Seq(Byte)
    BY <1>1
  <2> QED
    BY <1>2, <2>1, ConcatThrice, SMTT(40)
<1> HIDE DEF v
<1>4. a \o v \in Seq(Byte) /\ IsPrefix(a, a \o v) /\ IsPrefix(a, a \o b)
  BY <1>1, <1>2, ConcatProperties, IsPrefixOfMore
<1>5. IsPrefix(a \o b, (a \o b) \o u)
  BY <1>2, IsPrefixOfMore
<1> QED
  BY <1>3, <1>4, <1>5 DEF InOrder, u, v

LEMMA TextFacts ==
  ASSUME NEW C \in Seq(Piece)
  PROVE  /\ Text(C) \in Seq(Byte) /\ (C = <<>> => Text(C) = <<>>)
         /\ \A p \in Piece : Text(Append(C, p)) = Text(C) \o p.data
<1> DEFINE B == Seq(Byte)
           texts(D) == [i \in 1..Len(D) |-> D[i].data]
<1>1. ASSUME NEW D \in Seq(Piece) PROVE texts(D) \in Seq(B)
  <2>1. Len(D) \in Nat /\ \A i \in 1..Len(D) : D[i] \in Piece
    OBVIOUS
  <2>2. \A i \in 1..Len(D) : D[i].data \in B
    BY <2>1 DEF Piece, Byte
  <2> HIDE DEF B
  <2>3. texts(D) \in [1..Len(D) -> B]
    BY <2>2
  <2> QED
    BY <2>1, <2>3
<1>2. Text(C) \in B
  BY <1>1, FlattenElements DEF Text
<1>3. C = <<>> => Text(C) = <<>>
  <2>1. C = <<>> => Len(C) = 0 /\ texts(C) = <<>>
    OBVIOUS
  <2> QED
    BY <2>1 DEF Text, FlattenSeq
<1>4. ASSUME NEW p \in Piece PROVE Text(Append(C, p)) = Text(C) \o p.data
  <2> DEFINE D == Append(C, p)
             s == texts(C)
             t == Append(s, p.data)
             u == texts(D)
  <2>1. /\ Len(C) \in Nat /\ Len(D) = Len(C) + 1 /\ D[Len(C) + 1] = p
        /\ D \in Seq(Piece) /\ \A i \in 1..Len(C) : D[i] = C[i]
    OBVIOUS
  <2>2. s \in Seq(B) /\ Len(s) = Len(C) /\ \A i \in 1..Len(C) : s[i] = C[i].data
    BY <1>1, <2>1
  <2>3. u \in Seq(B) /\ Len(u) = Len(C) + 1
        /\ \A i \in 1..(Len(C) + 1) : u[i] = D[i].data
    <3>1. u \in Seq(B)
      BY <1>1, <2>1
    <3> HIDE DEF D
    <3> QED
      BY <2>1, <3>1
  <2>4. p.data \in B
    BY DEF Piece, Byte
  <2> HIDE DEF s, u, D, B
  <2>5. t \in Seq(B) /\ Len(t) = Len(C) + 1 /\ t[Len(C) + 1] = p.data
        /\ \A i \in 1..Len(C) : t[i] = s[i]
    BY <2>1, <2>2, <2>4
  <2>6. \A i \in 1..(Len(C) + 1) : i = Len(C) + 1 \/ i \in 1..Len(C)
    BY <2>1
  <2> HIDE DEF t
  <2>7. \A i \in 1..(Len(C) + 1) : u[i] = t[i]
    BY <2>1, <2>2, <2>3, <2>5, <2>6
  <2>8. u = t
    BY <2>3, <2>5, <2>7, SeqEqual
  <2>9. FlattenSeq(t) = FlattenSeq(s) \o p.data
    BY <2>2, <2>4, FlattenAppended DEF t, B
  <2> QED
    BY <2>8, <2>9 DEF Text, u, s, D
<1> QED
  BY <1>2, <1>3, <1>4

LEMMA StreamTypes ==
  ASSUME FaultFree, TypeInv
  PROVE  /\ out[Client] \in Seq(Byte) /\ msg.data \in Seq(Byte) /\ HeldText \in Seq(Byte)
         /\ serialrxq \in Seq(Byte) /\ accepted \in Seq(Byte) /\ chunk[Client] \in Chunk
         /\ canrxq \in Seq(ToSlotFrame) /\ bus \in Seq(FromSlotFrame)
         /\ sock[Client] \in Seq(FromSlotFrame) /\ msg \in FromSlotFrame
<1>1. Client \in Helper
  BY OneClient
<1>2. out[Client] \in Seq(Byte) /\ chunk[Client] \in Chunk
  BY <1>1 DEF TypeInv, HelpersOK, Byte
<1>3. serialrxq \in Seq(Byte) /\ accepted \in Seq(Byte)
  BY DEF TypeInv, UsartOK, Byte
<1>4. /\ canrxq \in Seq(ToSlotFrame) /\ bus \in Seq(FromSlotFrame)
      /\ sock[Client] \in Seq(FromSlotFrame)
  BY <1>1 DEF TypeInv, ChannelsOK
<1>5. msg \in FromSlotFrame
  BY DEF TypeInv, TaskOK
<1>6. msg.data \in Seq(Byte)
  BY <1>5 DEF FromSlotFrame, Byte
<1> QED
  BY <1>2, <1>3, <1>4, <1>5, <1>6 DEF HeldText

(* What the state consists of besides the bytes: nothing here depends on them. *)
linkVars == <<bus, sock, chunk, canrxq, cpc, notified, msg, seq>>
connectedVars == <<hpc, listening, suspended, console, canrxq>>

LEMMA FlowKept ==
  ASSUME NEW C, NEW A, Flow(C, A), UNCHANGED linkVars,
         accepted' = InOrder(out'[Client], Text(C), HeldText, serialrxq')
  PROVE  Flow(C, A)'
<1> USE DEF linkVars
<1>1. HeldText' = HeldText /\ Acks' = Acks /\ OnTheWay' = OnTheWay
  BY DEF HeldText, Acks, OnTheWay
<1>2. PiecesFound(C, A)'
  BY <1>1 DEF Flow, PiecesFound
<1>3. (Assembling(C) \/ Awaited(C, A) \/ Done(C))'
  <2>1. CASE Assembling(C)
    BY <1>1, <2>1 DEF Assembling
  <2>2. CASE Awaited(C, A)
    BY <1>1, <2>2 DEF Awaited
  <2>3. CASE Done(C)
    BY <1>1, <2>3 DEF Done
  <2> QED
    BY <2>1, <2>2, <2>3 DEF Flow
<1> QED
  BY <1>1, <1>2, <1>3 DEF Flow

LEMMA ConnectedKept ==
  ASSUME Connected, UNCHANGED connectedVars
  PROVE  Connected'
BY DEF Connected, connectedVars

(* The receive interrupt adds a byte behind the others. *)
LEMMA ByteEnters ==
  ASSUME FaultFree, TypeInv, NEW C \in Seq(Piece), NEW A, Flow(C, A), NEW b \in Byte,
         accepted' = Append(accepted, b), serialrxq' = Append(serialrxq, b),
         UNCHANGED <<linkVars, out>>
  PROVE  Flow(C, A)'
<1>1. accepted = InOrder(out[Client], Text(C), HeldText, serialrxq)
  BY DEF Flow
<1>2. Texts(out[Client], Text(C), HeldText, serialrxq)
  BY StreamTypes, TextFacts DEF Texts
<1>3. accepted' = InOrder(out'[Client], Text(C), HeldText, serialrxq')
  BY <1>1, <1>2, InOrderAppended
<1> QED
  BY <1>3, FlowKept

(* The Pi prints, or the UART sends. *)
LEMMA StreamUart ==
  ASSUME FaultFree, TypeInv, NEW C \in Seq(Piece), NEW A, Connected, Flow(C, A),
         UartByte \/ UartTx, UNCHANGED helperVars
  PROVE  Connected' /\ Flow(C, A)'
<1>1. Connected' /\ UNCHANGED <<linkVars, out>>
  BY ConnectedKept DEF UartByte, UartTx, netVars, taskVars, helperVars, connectedVars, linkVars
<1>2. CASE UNCHANGED <<accepted, serialrxq>>
  <2>1. accepted' = InOrder(out'[Client], Text(C), HeldText, serialrxq')
    BY <1>1, <1>2 DEF Flow
  <2> QED
    BY <1>1, <2>1, FlowKept
<1>3. CASE accepted' = Append(accepted, printed + 1) /\ serialrxq' = Append(serialrxq, printed + 1)
           /\ printed < MaxByte
  <2>1. printed + 1 \in Byte
    BY <1>3, FirmwareAssumption DEF TypeInv, UsartOK, Byte
  <2> QED
    BY <1>1, <1>3, <2>1, ByteEnters
<1> QED
  BY <1>2, <1>3 DEF UartByte, UartTx, RxIsr, usartVars

(* cancon takes bytes from the buffer. *)
LEMMA StreamRecv ==
  ASSUME FaultFree, TypeInv, NEW C \in Seq(Piece), NEW A, Connected, Flow(C, A),
         ConRecv, UNCHANGED helperVars
  PROVE  Connected' /\ Flow(C, A)'
<1> DEFINE n == IF Len(serialrxq) < MsgLen THEN Len(serialrxq) ELSE MsgLen
           a == SubSeq(serialrxq, 1, n)
           b == SubSeq(serialrxq, n + 1, Len(serialrxq))
<1>1. /\ cpc = "recv" /\ serialrxq # <<>> /\ cpc' = "pack"
      /\ msg' = [msg EXCEPT !.data = a] /\ serialrxq' = b
      /\ UNCHANGED <<console, suspended, notified, seq, accepted, netVars>>
  BY DEF ConRecv
<1>2. /\ UNCHANGED <<canrxq, bus, sock, listening, out, chunk, hpc>>
  BY <1>1 DEF netVars, helperVars
<1>3. Connected'
  BY <1>1, <1>2, ConnectedKept DEF connectedVars
<1>4. serialrxq \in Seq(Byte) /\ n \in 1..Len(serialrxq) /\ n \in 0..Len(serialrxq)
  <2>1. serialrxq \in Seq(Byte)
    BY StreamTypes
  <2>2. Len(serialrxq) \in Nat /\ Len(serialrxq) >= 1
    BY <1>1, <2>1
  <2> QED
    BY <2>1, <2>2, FirmwareAssumption
<1> HIDE DEF n
<1>5. /\ a \in Seq(Byte) /\ Len(a) = n /\ \A p \in 1..n : a[p] = serialrxq[p]
      /\ b \in Seq(Byte) /\ Len(b) = Len(serialrxq) - n
      /\ \A p \in 1..(Len(serialrxq) - n) : b[p] = serialrxq[n + p]
  BY <1>4, Slices, ZenonT(30)
<1> HIDE DEF a, b
<1>6. serialrxq = a \o b
  <2>1. /\ a \o b \in Seq(Byte) /\ Len(a \o b) = Len(a) + Len(b)
        /\ \A p \in 1..(Len(a) + Len(b)) :
             (a \o b)[p] = IF p <= Len(a) THEN a[p] ELSE b[p - Len(a)]
    BY <1>5, ConcatProperties
  <2> DEFINE u == a \o b
  <2> HIDE DEF u
  <2>2. Len(u) = Len(serialrxq) /\ u \in Seq(Byte)
    BY <1>4, <1>5, <2>1 DEF u
  <2>3. ASSUME NEW p \in 1..Len(serialrxq) PROVE u[p] = serialrxq[p]
    <3>1. p \in 1..(Len(a) + Len(b)) /\ u[p] = IF p <= Len(a) THEN a[p] ELSE b[p - Len(a)]
      BY <1>4, <1>5, <2>1 DEF u
    <3>2. CASE p <= n
      BY <1>4, <1>5, <3>1, <3>2
    <3>3. CASE ~(p <= n)
      <4>1. p - n \in 1..(Len(serialrxq) - n) /\ n + (p - n) = p
        BY <1>4, <3>3
      <4> QED
        BY <1>5, <3>1, <3>3, <4>1
    <3> QED
      BY <3>2, <3>3
  <2>4. u = serialrxq
    BY <1>4, <2>2, <2>3, SeqEqual
  <2> QED
    BY <2>4 DEF u
<1>7. msg'.data = a /\ a # <<>>
  BY <1>1, <1>4, <1>5, StreamTypes DEF FromSlotFrame
<1>8. Assembling(C)
  BY <1>1 DEF Flow, Awaited, Done
<1>9. Assembling(C)'
  <2>1. Acks' = Acks
    BY <1>2 DEF Acks
  <2> QED
    BY <1>1, <1>7, <1>8, <2>1 DEF Assembling
<1>10. accepted' = InOrder(out[Client], Text(C), a, b)
  <2>1. accepted = InOrder(out[Client], Text(C), <<>>, a \o b)
    BY <1>1, <1>6 DEF Flow, HeldText
  <2>2. Texts(out[Client], Text(C), a, b)
    BY <1>5, StreamTypes, TextFacts DEF Texts
  <2> QED
    BY <1>1, <2>1, <2>2, InOrderMoved
<1>11. HeldText' = a
  BY <1>1, <1>7 DEF HeldText
<1>12. PiecesFound(C, A)'
  BY <1>2 DEF Flow, PiecesFound, OnTheWay
<1> QED
  BY <1>1, <1>2, <1>3, <1>9, <1>10, <1>11, <1>12 DEF Flow

(* cancon writes the header. *)
LEMMA StreamPack ==
  ASSUME FaultFree, TypeInv, NEW C \in Seq(Piece), NEW A, Connected, Flow(C, A),
         ConPack, UNCHANGED helperVars
  PROVE  Connected' /\ Flow(C, A)'
<1> DEFINE eot == IF EndsChunk THEN 1 ELSE 0
<1>1. /\ cpc = "pack" /\ cpc' = "send" /\ seq' = seq + 1
      /\ msg' = Message(Slot, console.dstaddr, DAT, console.object, eot, seq % ChunkLen,
                        msg.data)
      /\ UNCHANGED <<console, suspended, notified, usartVars, netVars>>
  BY DEF ConPack
<1>2. /\ UNCHANGED <<canrxq, bus, sock, listening, out, chunk, hpc, accepted, serialrxq>>
  BY <1>1 DEF netVars, helperVars, usartVars
<1>3. Connected'
  BY <1>1, <1>2, ConnectedKept DEF connectedVars
<1>4. Assembling(C)
  BY <1>1 DEF Flow, Awaited, Done
<1>5. seq = Len(C) /\ Len(C) < ChunkLen /\ Len(C) \in Nat /\ msg.data # <<>>
  BY <1>1, <1>4 DEF Assembling
<1>6. seq % ChunkLen = Len(C)
  BY <1>5, FirmwareAssumption
<1>7. console.dstaddr = Client /\ console.object = OBJ_CONSOLESEND
  BY DEF Connected
<1>8. msg' = Message(Slot, Client, DAT, OBJ_CONSOLESEND, eot, Len(C), msg.data)
  BY <1>1, <1>6, <1>7
<1>9. msg'.eot = eot /\ msg'.data = msg.data
  BY <1>8 DEF Message
<1>10. eot = 0 => Len(C) + 1 < ChunkLen
  BY <1>5, FirmwareAssumption DEF EndsChunk
<1> HIDE DEF eot
<1>11. Assembling(C)'
  <2>1. Acks' = Acks
    BY <1>2 DEF Acks
  <2> QED
    BY <1>1, <1>4, <1>5, <1>8, <1>9, <1>10, <2>1 DEF Assembling
<1>12. HeldText' = HeldText
  BY <1>1, <1>9 DEF HeldText
<1>13. PiecesFound(C, A)'
  BY <1>2 DEF Flow, PiecesFound, OnTheWay
<1> QED
  BY <1>2, <1>3, <1>11, <1>12, <1>13 DEF Flow

(* The wait of cancon is over. *)
LEMMA StreamAcked ==
  ASSUME FaultFree, TypeInv, NEW C \in Seq(Piece), NEW A, Connected, Flow(C, A),
         ConAcked \/ ConTimeoutLate \/ ConWoken, UNCHANGED helperVars
  PROVE  Connected' /\ Flow(C, A)'
<1>1. ~ConWoken
  BY DEF ConWoken, ConTake, Flow, Assembling, Awaited, Done
<1>2. ~ConTimeoutLate
  <2> SUFFICES ASSUME ConTimeoutLate PROVE FALSE
    OBVIOUS
  <2>1. /\ cpc = "wait" /\ ~notified /\ Slow = {} /\ Client \in Helper
        /\ ~ToSlot({ACK}) /\ ~OnBus({DAT}) /\ ~InSock(Client, {DAT})
    BY OneClient DEF ConTimeoutLate, ConTimeout, ConTake, AckLate, FaultFree
  <2>2. Acks = {}
    BY <2>1 DEF Acks, Among, ValuesOf, AckFrame, ToSlot
  <2>3. OnTheWay = {}
    BY <2>1 DEF OnTheWay, Among, ValuesOf, DatFrame, OnBus, InSock
  <2>4. A # {}
    BY <2>1, <2>2 DEF Flow, Assembling, Awaited, Done
  <2> QED
    BY <2>3, <2>4 DEF Flow, PiecesFound
<1>3. notified /\ ConTake("wait")
  BY <1>1, <1>2 DEF ConAcked
<1>4. /\ cpc = "wait" /\ notified' = FALSE /\ seq' = 0 /\ cpc' = "recv"
      /\ UNCHANGED <<console, suspended, msg, usartVars, netVars>>
  BY <1>3 DEF ConTake
<1>5. /\ UNCHANGED <<canrxq, bus, sock, listening, out, chunk, hpc, accepted, serialrxq>>
  BY <1>4 DEF netVars, helperVars, usartVars
<1>6. Connected'
  BY <1>4, <1>5, ConnectedKept DEF connectedVars
<1>7. C = <<>> /\ Acks = {}
  BY <1>3, <1>4 DEF Flow, Assembling, Awaited, Done
<1>8. Assembling(C)'
  <2>1. Acks' = {} /\ Len(C) = 0 /\ 0 < ChunkLen
    BY <1>5, <1>7, FirmwareAssumption DEF Acks
  <2> QED
    BY <1>4, <2>1 DEF Assembling
<1>9. HeldText' = HeldText
  BY <1>4 DEF HeldText
<1>10. PiecesFound(C, A)'
  BY <1>5 DEF Flow, PiecesFound, OnTheWay
<1> QED
  BY <1>5, <1>6, <1>8, <1>9, <1>10 DEF Flow

(* A piece is found by its number, and only one piece has it. *)
LEMMA DatOfFields ==
  ASSUME NEW C, NEW i
  PROVE  LET m == DatOf(C, i)
         IN /\ m.type = DAT /\ m.object = OBJ_CONSOLESEND /\ m.seq = i - 1
            /\ m.data = C[i].data /\ m.eot = C[i].eot /\ m.dst = Client
BY DEF DatOf, Message

LEMMA PieceAppended ==
  ASSUME NEW C \in Seq(Piece), NEW p \in Piece
  PROVE  LET D == Append(C, p)
             n == Len(C) + 1
         IN /\ D \in Seq(Piece) /\ Len(D) = n /\ n \in Nat /\ D[n] = p /\ n \in 1..n
            /\ D # <<>>
            /\ \A i \in 1..Len(C) : D[i] = C[i] /\ i \in 1..n /\ i # n
            /\ \A i \in 1..n : i = n \/ i \in 1..Len(C)
OBVIOUS

(* The message cancon has made is put on the bus. *)
LEMMA StreamSend ==
  ASSUME FaultFree, TypeInv, NEW C \in Seq(Piece), NEW A \in SUBSET (1..Len(C)),
         Connected, Flow(C, A), ConSend, UNCHANGED helperVars
  PROVE  Streaming'
<1>1. /\ cpc = "send" /\ bus' = Append(bus, msg)
      /\ cpc' = (IF msg.eot = 1 THEN "wait" ELSE "recv")
      /\ UNCHANGED <<console, suspended, notified, msg, seq, usartVars>>
      /\ UNCHANGED <<canrxq, sock, listening>>
  BY DEF ConSend
<1>2. UNCHANGED <<out, chunk, hpc, accepted, serialrxq>>
  BY <1>1 DEF helperVars, usartVars
<1>3. Connected'
  BY <1>1, <1>2, ConnectedKept DEF connectedVars
<1>4. Assembling(C)
  BY <1>1 DEF Flow, Awaited, Done
<1>5. /\ Len(C) < ChunkLen /\ Len(C) \in Nat /\ msg.data # <<>> /\ seq = Len(C) + 1
      /\ msg = Message(Slot, Client, DAT, OBJ_CONSOLESEND, msg.eot, Len(C), msg.data)
      /\ (msg.eot = 0 => Len(C) + 1 < ChunkLen) /\ ~notified /\ Acks = {}
      /\ \A i \in 1..Len(C) : C[i].eot = 0
  BY <1>1, <1>4 DEF Assembling
<1>6. PICK p \in Piece : p.data = msg.data /\ p.eot = msg.eot /\ msg.eot \in {0, 1}
  <2> DEFINE r == [data |-> msg.data, eot |-> msg.eot]
  <2>1. r \in Piece /\ r.data = msg.data /\ r.eot = msg.eot /\ msg.eot \in {0, 1}
    BY StreamTypes DEF Piece, FromSlotFrame, Byte
  <2> HIDE DEF r
  <2> QED
    BY <2>1
<1> DEFINE n == Len(C) + 1
           D == Append(C, p)
           B == A \cup {n}
<1>7. /\ D \in Seq(Piece) /\ Len(D) = n /\ n \in Nat /\ D[n] = p /\ n \in 1..n /\ D # <<>>
      /\ \A i \in 1..Len(C) : D[i] = C[i] /\ i \in 1..n /\ i # n
      /\ \A i \in 1..n : i = n \/ i \in 1..Len(C)
  BY PieceAppended, ZenonT(20)
<1> HIDE DEF D
<1>8. DatOf(D, n) = msg
  <2>1. DatOf(D, n) = Message(Slot, Client, DAT, OBJ_CONSOLESEND, msg.eot, n - 1, msg.data)
    BY <1>6, <1>7 DEF DatOf
  <2>2. n - 1 = Len(C)
    BY <1>5
  <2> QED
    BY <1>5, <2>1, <2>2
<1>9. \A i \in A : DatOf(D, i) = DatOf(C, i)
  <2>1. \A i \in A : D[i] = C[i]
    BY <1>7
  <2> QED
    BY <2>1 DEF DatOf
<1>10. B \in SUBSET (1..Len(D))
  BY <1>7
<1>11. PiecesSent(D)
  <2>1. n <= ChunkLen
    BY <1>5, FirmwareAssumption
  <2>2. ASSUME NEW i \in 1..n PROVE D[i].data # <<>> /\ (D[i].eot = 1 => i = n)
    <3>1. CASE i = n
      BY <1>5, <1>6, <1>7, <3>1
    <3>2. CASE i # n
      <4>1. i \in 1..Len(C) /\ D[i] = C[i] /\ C[i].eot = 0
        BY <1>5, <1>7, <3>2
      <4> QED
        BY <4>1 DEF Flow, PiecesSent
    <3> QED
      BY <3>1, <3>2
  <2> QED
    BY <1>7, <2>1, <2>2 DEF PiecesSent
<1>12. PiecesFound(D, B)'
  <2>1. OnTheWay' = OnTheWay \cup {msg}
    <3>1. msg \in DatFrame
      BY <1>8, DatOfFields, StreamTypes DEF DatFrame
    <3>2. Among(bus', DatFrame) = Among(bus, DatFrame) \cup {msg}
      BY <1>1, <3>1, AmongAppended, StreamTypes
    <3> QED
      BY <1>1, <3>2 DEF OnTheWay
  <2>2. OnTheWay = {DatOf(C, i) : i \in A}
    BY DEF Flow, PiecesFound
  <2>3. OnTheWay' = {DatOf(D, i) : i \in B}
    BY <1>8, <1>9, <2>1, <2>2
  <2>4. ASSUME NEW i \in 1..ChunkSize
        PROVE  chunk'[Client][i - 1] = IF i \in 1..Len(D) /\ i \notin B THEN D[i] ELSE NoMessage
    <3>1. chunk'[Client][i - 1] = IF i \in 1..Len(C) /\ i \notin A THEN C[i] ELSE NoMessage
      BY <1>2 DEF Flow, PiecesFound
    <3>2. i \in 1..Len(D) /\ i \notin B <=> i \in 1..Len(C) /\ i \notin A
      BY <1>7
    <3> QED
      BY <1>7, <3>1, <3>2
  <2> QED
    BY <2>3, <2>4 DEF PiecesFound
<1>13. Acks' = {} /\ ~notified'
  BY <1>1, <1>5 DEF Acks
<1>14. (Assembling(D) \/ Awaited(D, B))'
  <2>1. CASE msg.eot = 1
    BY <1>1, <1>6, <1>7, <1>13, <2>1 DEF Awaited
  <2>2. CASE msg.eot = 0
    <3>1. \A i \in 1..Len(D) : D[i].eot = 0
      BY <1>5, <1>6, <1>7, <2>2
    <3>2. Len(D) < ChunkLen /\ seq' = Len(D) /\ cpc' = "recv"
      BY <1>1, <1>5, <1>7, <2>2
    <3> QED
      BY <1>13, <3>1, <3>2 DEF Assembling
  <2> QED
    BY <1>6, <2>1, <2>2
<1>15. accepted' = InOrder(out'[Client], Text(D), HeldText', serialrxq')
  <2>1. accepted = InOrder(out[Client], Text(C), msg.data, serialrxq)
    BY <1>1 DEF Flow, HeldText
  <2>2. Texts(out[Client], Text(C), msg.data, serialrxq)
    BY StreamTypes, TextFacts DEF Texts
  <2>3. InOrder(out[Client], Text(C) \o msg.data, <<>>, serialrxq) = accepted
    BY <2>1, <2>2, InOrderMoved
  <2>4. Text(D) = Text(C) \o msg.data
    BY <1>6, TextFacts DEF D
  <2>5. HeldText' = <<>>
    BY <1>1 DEF HeldText
  <2> QED
    BY <1>2, <2>3, <2>4, <2>5
<1>16. Flow(D, B)'
  BY <1>11, <1>12, <1>14, <1>15 DEF Flow
<1> QED
  BY <1>3, <1>7, <1>10, <1>16 DEF Streaming

(* What the canrx task takes leaves the frames of other kinds where they are. *)
LEMMA HeadTaken ==
  ASSUME TypeInv, canrxq # <<>>, canrxq' = Tail(canrxq)
  PROVE  /\ Head(canrxq) \in ToSlotFrame /\ Head(canrxq) \in ValuesOf(canrxq)
         /\ ValuesOf(canrxq') \subseteq ValuesOf(canrxq)
         /\ Acks = Acks' \cup ({Head(canrxq)} \cap AckFrame)
         /\ Single(canrxq, AckFrame) => Single(canrxq', AckFrame)
         /\ Single(canrxq, AckFrame) /\ Head(canrxq) \in AckFrame => Acks' = {}
<1> DEFINE q == canrxq
<1>1. q \in Seq(ToSlotFrame) /\ q # <<>>
  BY DEF TypeInv, ChannelsOK
<1> HIDE DEF q
<1>2. /\ Head(q) \in ToSlotFrame /\ Head(q) = q[1] /\ 1 \in 1..Len(q) /\ Len(q) \in Nat
      /\ Len(Tail(q)) = Len(q) - 1
      /\ \A i \in 1..(Len(q) - 1) : Tail(q)[i] = q[i + 1] /\ i + 1 \in 1..Len(q)
  BY <1>1
<1>3. Head(q) \in ValuesOf(q) /\ ValuesOf(Tail(q)) \subseteq ValuesOf(q)
  BY <1>2 DEF ValuesOf
<1>4. Among(q, AckFrame) = Among(Tail(q), AckFrame) \cup ({Head(q)} \cap AckFrame)
  BY <1>1, AmongTail
<1>5. /\ Fewer(Tail(q), q, AckFrame)
      /\ Single(q, AckFrame) /\ Head(q) \in AckFrame => Among(Tail(q), AckFrame) = {}
  BY <1>1, FewerTail
<1>6. Single(q, AckFrame) => Single(Tail(q), AckFrame)
  BY <1>5 DEF Fewer
<1> QED
  BY <1>2, <1>3, <1>4, <1>5, <1>6 DEF q, Acks

(* A key for the Pi: the slot's answer is none of the pieces. *)
LEMMA StreamKeys ==
  ASSUME FaultFree, TypeInv, NEW C \in Seq(Piece), NEW A, Connected, Flow(C, A),
         RxConsoleRecv, UNCHANGED helperVars
  PROVE  Connected' /\ Flow(C, A)'
<1> DEFINE f == Head(canrxq)
<1>1. /\ canrxq # <<>> /\ canrxq' = Tail(canrxq) /\ f.type = DAT
      /\ UNCHANGED <<console, taskVars, usartVars, sock, listening>>
      /\ \/ bus' = Append(bus, Reply(f, NAK))
         \/ bus' = Append(bus, [Reply(f, ACK) EXCEPT !.eot = 0, !.seq = 0])
         \/ bus' = bus
  BY DEF RxConsoleRecv, Received
<1>2. UNCHANGED <<suspended, notified, cpc, msg, seq, serialrxq, accepted, out, chunk, hpc>>
  BY <1>1 DEF taskVars, usartVars, helperVars
<1>3. /\ f \in ToSlotFrame /\ ValuesOf(canrxq') \subseteq ValuesOf(canrxq)
      /\ Acks = Acks' \cup ({f} \cap AckFrame)
      /\ Single(canrxq, AckFrame) => Single(canrxq', AckFrame)
  BY <1>1, HeadTaken
<1> HIDE DEF f
<1>4. Acks' = Acks
  BY <1>1, <1>3 DEF AckFrame, DAT, ACK
<1>5. Connected'
  BY <1>1, <1>2, <1>3 DEF Connected
<1>6. OnTheWay' = OnTheWay
  <2>1. ASSUME NEW m \in FromSlotFrame, m.type \in {ACK, NAK}, bus' = Append(bus, m)
        PROVE  OnTheWay' = OnTheWay
    <3>1. m \notin DatFrame
      BY <2>1 DEF DatFrame, DAT, ACK, NAK
    <3>2. bus \in Seq(FromSlotFrame)
      BY StreamTypes
    <3>3. Among(Append(bus, m), DatFrame) = Among(bus, DatFrame) \cup ({m} \cap DatFrame)
      BY <3>2, AmongAppended
    <3>4. Among(bus', DatFrame) = Among(bus, DatFrame)
      BY <2>1, <3>1, <3>3, Zenon
    <3> QED
      BY <1>1, <3>4 DEF OnTheWay
  <2>2. CASE bus' = bus
    BY <1>1, <2>2 DEF OnTheWay
  <2>3. /\ Reply(f, NAK) \in FromSlotFrame /\ Reply(f, NAK).type = NAK
        /\ [Reply(f, ACK) EXCEPT !.eot = 0, !.seq = 0] \in FromSlotFrame
        /\ [Reply(f, ACK) EXCEPT !.eot = 0, !.seq = 0].type = ACK
    BY <1>3, ReplyIsFrame, ReplyFields
  <2> QED
    BY <1>1, <2>1, <2>2, <2>3
<1>7. PiecesFound(C, A)'
  BY <1>2, <1>6 DEF Flow, PiecesFound
<1>8. (Assembling(C) \/ Awaited(C, A) \/ Done(C))'
  <2>1. CASE Assembling(C)
    BY <1>2, <1>4, <2>1 DEF Assembling
  <2>2. CASE Awaited(C, A)
    BY <1>2, <1>4, <2>2 DEF Awaited
  <2>3. CASE Done(C)
    BY <1>2, <1>3, <1>4, <2>3 DEF Done
  <2> QED
    BY <2>1, <2>2, <2>3 DEF Flow
<1>9. HeldText' = HeldText
  BY <1>2 DEF HeldText
<1> QED
  BY <1>2, <1>5, <1>7, <1>8, <1>9 DEF Flow

(* The ACK of a chunk reaches the slot. *)
LEMMA StreamAck ==
  ASSUME FaultFree, TypeInv, NEW C \in Seq(Piece), NEW A, Connected, Flow(C, A),
         RxAck, UNCHANGED helperVars
  PROVE  Connected' /\ Flow(C, A)'
<1> DEFINE f == Head(canrxq)
<1>1. /\ canrxq # <<>> /\ canrxq' = Tail(canrxq) /\ f.type = ACK
      /\ notified' = (notified \/ (console.connected /\ f.object = console.object))
      /\ UNCHANGED <<console, suspended, cpc, msg, seq, usartVars, bus, sock, listening>>
  BY DEF RxAck
<1>2. UNCHANGED <<serialrxq, accepted, out, chunk, hpc>>
  BY <1>1 DEF usartVars, helperVars
<1>3. /\ f \in ToSlotFrame /\ f \in ValuesOf(canrxq)
      /\ ValuesOf(canrxq') \subseteq ValuesOf(canrxq)
      /\ Acks = Acks' \cup ({f} \cap AckFrame)
      /\ Single(canrxq, AckFrame) => Single(canrxq', AckFrame)
      /\ Single(canrxq, AckFrame) /\ f \in AckFrame => Acks' = {}
  BY <1>1, HeadTaken
<1> HIDE DEF f
<1>4. f \in AckFrame /\ f \in Acks
  BY <1>1, <1>3 DEF AckFrame
<1>5. Connected'
  BY <1>1, <1>2, <1>3 DEF Connected
<1>6. notified' = TRUE
  BY <1>1, <1>3 DEF Connected
<1>7. Done(C)
  BY <1>4 DEF Flow, Assembling, Awaited
<1>8. Done(C)'
  BY <1>1, <1>3, <1>4, <1>6, <1>7 DEF Done
<1>9. PiecesFound(C, A)'
  BY <1>1, <1>2 DEF Flow, PiecesFound, OnTheWay
<1>10. HeldText' = HeldText
  BY <1>1 DEF HeldText
<1> QED
  BY <1>2, <1>5, <1>8, <1>9, <1>10 DEF Flow

LEMMA StreamRx ==
  ASSUME FaultFree, TypeInv, NEW C \in Seq(Piece), NEW A, Connected, Flow(C, A),
         RxTask, UNCHANGED helperVars
  PROVE  Connected' /\ Flow(C, A)'
<1>1. ~RxConsoleConn /\ ~RxConsoleDisc
  <2>1. canrxq # <<>> => Head(canrxq).type # WO
    <3>1. canrxq # <<>> => Head(canrxq) \in ValuesOf(canrxq)
      BY SeqFacts DEF TypeInv, ChannelsOK, ValuesOf
    <3> QED
      BY <3>1 DEF Connected
  <2> QED
    BY <2>1 DEF RxConsoleConn, RxConsoleDisc, Received
<1> QED
  BY <1>1, StreamKeys, StreamAck DEF RxTask

(* A frame the bus carries to the client, if it is a piece, arrives. *)
LEMMA StreamDeliver ==
  ASSUME FaultFree, TypeInv, NEW C \in Seq(Piece), NEW A, Connected, Flow(C, A),
         Deliver, UNCHANGED <<firmwareVars, helperVars>>
  PROVE  Connected' /\ Flow(C, A)'
<1>1. PICK i \in 1..Len(bus) :
        /\ bus' = RemoveAt(bus, i)
        /\ sock' = [h \in Helper |->
                      IF h = bus[i].dst /\ h \in listening
                        THEN Append(sock[h], OverTheWire(bus[i])) ELSE sock[h]]
        /\ UNCHANGED <<canrxq, listening>>
  BY DEF Deliver
<1>2. UNCHANGED <<serialrxq, accepted, out, chunk, hpc, console, suspended, notified, cpc,
                  msg, seq>>
  BY DEF firmwareVars, taskVars, usartVars, helperVars
<1>3. Connected'
  BY <1>1, <1>2, ConnectedKept DEF connectedVars
<1> DEFINE m == bus[i]
<1>4. m \in FromSlotFrame /\ OverTheWire(m) = m
  <2>1. m \in FromSlotFrame
    BY StreamTypes
  <2> QED
    BY <2>1, SlotFrameArrives
<1>5. Among(bus, DatFrame) = Among(bus', DatFrame) \cup ({m} \cap DatFrame)
  <2>1. bus \in Seq(FromSlotFrame)
    BY StreamTypes
  <2> QED
    BY <1>1, <2>1, AmongRemoved
<1>6. sock'[Client] = IF m.dst = Client THEN Append(sock[Client], m) ELSE sock[Client]
  BY <1>1, <1>4, OneClient DEF Connected
<1> HIDE DEF m
<1>7. m \in DatFrame => m.dst = Client
  <2> SUFFICES ASSUME m \in DatFrame PROVE m.dst = Client
    OBVIOUS
  <2>1. m \in OnTheWay
    BY <1>5 DEF OnTheWay
  <2>2. PICK j \in A : m = DatOf(C, j)
    BY <2>1 DEF Flow, PiecesFound
  <2> QED
    BY <2>2, DatOfFields
<1>8. Among(sock'[Client], DatFrame) = Among(sock[Client], DatFrame) \cup ({m} \cap DatFrame)
  <2>1. sock[Client] \in Seq(FromSlotFrame)
    BY StreamTypes
  <2>2. Among(Append(sock[Client], m), DatFrame)
          = Among(sock[Client], DatFrame) \cup ({m} \cap DatFrame)
    BY <1>4, <2>1, AmongAppended
  <2> QED
    BY <1>6, <1>7, <2>2
<1>9. OnTheWay' = OnTheWay
  BY <1>5, <1>8 DEF OnTheWay
<1>10. PiecesFound(C, A)'
  BY <1>2, <1>9 DEF Flow, PiecesFound
<1>11. Acks' = Acks /\ HeldText' = HeldText
  BY <1>1, <1>2 DEF Acks, HeldText
<1>12. (Assembling(C) \/ Awaited(C, A) \/ Done(C))'
  <2>1. CASE Assembling(C)
    BY <1>2, <1>11, <2>1 DEF Assembling
  <2>2. CASE Awaited(C, A)
    BY <1>2, <1>11, <2>2 DEF Awaited
  <2>3. CASE Done(C)
    BY <1>1, <1>2, <1>11, <2>3 DEF Done
  <2> QED
    BY <2>1, <2>2, <2>3 DEF Flow
<1> QED
  BY <1>2, <1>3, <1>10, <1>11, <1>12 DEF Flow

(* What the client takes from its socket. *)
LEMMA SocketTail ==
  ASSUME FaultFree, TypeInv, sock[Client] # <<>>, sock'[Client] = Tail(sock[Client]),
         bus' = bus
  PROVE  /\ Head(sock[Client]) \in FromSlotFrame
         /\ OnTheWay = OnTheWay' \cup ({Head(sock[Client])} \cap DatFrame)
<1>1. sock[Client] \in Seq(FromSlotFrame)
  BY StreamTypes
<1>2. Head(sock[Client]) \in FromSlotFrame
  BY <1>1
<1>3. Among(sock[Client], DatFrame)
        = Among(Tail(sock[Client]), DatFrame) \cup ({Head(sock[Client])} \cap DatFrame)
  BY <1>1, AmongTail
<1> QED
  BY <1>2, <1>3 DEF OnTheWay

(* A piece the client takes is not on the way any more. *)
LEMMA PieceTaken ==
  ASSUME FaultFree, TypeInv, OnePlace, sock[Client] # <<>>,
         sock'[Client] = Tail(sock[Client]), bus' = bus, Head(sock[Client]).data # <<>>
  PROVE  Head(sock[Client]) \notin OnTheWay'
<1> DEFINE m == Head(sock[Client])
<1>1. /\ sock[Client] \in Seq(FromSlotFrame) /\ bus \in Seq(FromSlotFrame)
      /\ Client \in Helper
  BY StreamTypes, OneClient
<1>2. m \in FromSlotFrame /\ Tail(sock[Client]) \in Seq(FromSlotFrame)
  BY <1>1
<1>3. /\ BytesIn(Tail(sock[Client])) \cap ValuesOf(m.data) = {}
      /\ ValuesOf(m.data) \subseteq BytesIn(sock[Client])
  <2>1. Apart(sock[Client])
    BY <1>1 DEF OnePlace, HelperApart
  <2> QED
    BY <1>1, <2>1, ApartTail
<1>4. BytesIn(bus) \cap ValuesOf(m.data) = {}
  BY <1>1, <1>3 DEF OnePlace, AtSlot, AtHelper
<1> HIDE DEF m
<1>5. ValuesOf(m.data) # {}
  <2>1. m.data \in Seq(1..MaxByte) /\ m.data # <<>>
    BY <1>2 DEF FromSlotFrame, m
  <2>2. 1 \in 1..Len(m.data)
    BY <2>1
  <2> QED
    BY <2>2 DEF ValuesOf
<1>6. ASSUME NEW s \in Seq(FromSlotFrame), BytesIn(s) \cap ValuesOf(m.data) = {}
      PROVE  m \notin Among(s, DatFrame)
  <2>1. DOMAIN s = 1..Len(s)
    BY <1>6
  <2>2. m \in ValuesOf(s) => ValuesOf(m.data) \subseteq BytesIn(s)
    BY <2>1 DEF BytesIn, ValuesOf
  <2> QED
    BY <1>5, <1>6, <2>2 DEF Among
<1> QED
  BY <1>1, <1>2, <1>3, <1>4, <1>6 DEF OnTheWay, m

(* A chunk of which the pieces outside B are in chunk[]: it is complete when
   the last one has been sent and none is missing, and what is written then
   is the text that was sent. *)
LEMMA ChunkPieces ==
  ASSUME NEW C \in Seq(Piece), NEW B \in SUBSET (1..Len(C)), NEW c \in Chunk,
         PiecesSent(C),
         \A i \in 1..ChunkSize :
           c[i - 1] = IF i \in 1..Len(C) /\ i \notin B THEN C[i] ELSE NoMessage
  PROVE  /\ \A holesOk \in BOOLEAN : Complete(c, holesOk) => C # <<>> /\ C[Len(C)].eot = 1
         /\ Complete(c, FALSE) <=> C # <<>> /\ C[Len(C)].eot = 1 /\ B = {}
         /\ Complete(c, FALSE) => Written(c) = Text(C)
<1> DEFINE n == Len(C)
<1>1. /\ n \in Nat /\ n <= ChunkSize /\ ChunkSize \in Nat /\ DOMAIN c = 0..(ChunkSize - 1)
      /\ C # <<>> <=> n >= 1
      /\ \A i \in 1..n : /\ C[i].data # <<>> /\ C[i].eot \in {0, 1}
                         /\ C[i].eot = 1 => i = n
  <2>1. n \in Nat /\ (C # <<>> <=> n >= 1) /\ \A i \in 1..n : C[i] \in Piece
    OBVIOUS
  <2>2. n <= ChunkSize /\ ChunkSize \in Nat /\ DOMAIN c = 0..(ChunkSize - 1)
    BY ConsoleAssumption, HelperAssumption DEF PiecesSent, Chunk
  <2>3. \A i \in 1..n : C[i].data # <<>> /\ (C[i].eot = 1 => i = n)
    BY DEF PiecesSent
  <2>4. \A i \in 1..n : C[i].eot \in {0, 1}
    BY <2>1 DEF Piece
  <2> QED
    BY <2>1, <2>2, <2>3, <2>4
<1> HIDE DEF n
<1>2. NoMessage.data = <<>> /\ NoMessage.eot = 0
  BY DEF NoMessage
<1>3. ASSUME NEW i \in DOMAIN c
      PROVE  \/ i + 1 \in 1..n /\ i + 1 \notin B /\ c[i] = C[i + 1]
             \/ ~(i + 1 \in 1..n /\ i + 1 \notin B) /\ c[i] = NoMessage
  <2>1. i + 1 \in 1..ChunkSize /\ (i + 1) - 1 = i
    BY <1>1
  <2>2. c[(i + 1) - 1] = IF i + 1 \in 1..n /\ i + 1 \notin B THEN C[i + 1] ELSE NoMessage
    BY <2>1 DEF n
  <2> QED
    BY <2>1, <2>2
<1>4. ASSUME NEW i \in DOMAIN c, c[i].eot = 1
      PROVE  C # <<>> /\ C[n].eot = 1 /\ i = n - 1
  <2>1. i + 1 \in 1..n /\ c[i] = C[i + 1]
    BY <1>2, <1>3, <1>4
  <2>2. i + 1 = n
    BY <1>1, <1>4, <2>1
  <2> QED
    BY <1>1, <1>4, <2>1, <2>2
<1>5. \A holesOk \in BOOLEAN : Complete(c, holesOk) => C # <<>> /\ C[n].eot = 1
  BY <1>4 DEF Complete
<1>6. Complete(c, FALSE) => B = {}
  <2> SUFFICES ASSUME Complete(c, FALSE), NEW k \in B PROVE FALSE
    OBVIOUS
  <2>1. PICK i \in DOMAIN c : c[i].eot = 1 /\ \A j \in 0..i : c[j].data # <<>>
    BY DEF Complete
  <2>2. i = n - 1
    BY <1>4, <2>1
  <2>3. k \in 1..n
    BY DEF n
  <2>4. k - 1 \in 0..i /\ k - 1 \in DOMAIN c /\ (k - 1) + 1 = k
    BY <1>1, <2>1, <2>2, <2>3
  <2>5. c[k - 1].data = <<>>
    BY <1>2, <1>3, <2>4
  <2> QED
    BY <2>1, <2>4, <2>5
<1>7. ASSUME C # <<>>, C[n].eot = 1, B = {}
      PROVE  Complete(c, FALSE) /\ Written(c) = Text(C)
  <2>1. n - 1 \in DOMAIN c /\ (n - 1) + 1 = n /\ n \in 1..n
    BY <1>1, <1>7
  <2>2. \A i \in 1..n : i - 1 \in DOMAIN c /\ (i - 1) + 1 = i /\ c[i - 1] = C[i]
    <3>1. \A i \in 1..n : i - 1 \in DOMAIN c /\ (i - 1) + 1 = i
      BY <1>1
    <3> QED
      BY <1>3, <1>7, <3>1
  <2>3. c[n - 1].eot = 1
    BY <1>7, <2>1, <2>2
  <2>4. ASSUME NEW j \in 0..(n - 1) PROVE j + 1 \in 1..n /\ c[j] = C[j + 1]
    <3>1. j + 1 \in 1..n /\ (j + 1) - 1 = j
      BY <1>1
    <3>2. c[(j + 1) - 1] = C[j + 1]
      BY <2>2, <3>1
    <3> QED
      BY <3>1, <3>2
  <2>5. \A j \in 0..(n - 1) : c[j].data # <<>>
    BY <1>1, <2>4
  <2>6. Complete(c, FALSE)
    BY <2>1, <2>3, <2>5 DEF Complete
  <2>7. ASSUME NEW j \in 0..((n - 1) - 1) PROVE c[j].eot = 0
    <3>1. j \in 0..(n - 1) /\ j + 1 # n
      BY <1>1
    <3>2. j + 1 \in 1..n /\ c[j] = C[j + 1]
      BY <2>4, <3>1
    <3> QED
      BY <1>1, <3>1, <3>2
  <2> DEFINE last == CHOOSE i \in DOMAIN c : c[i].eot = 1 /\ \A j \in 0..(i - 1) : c[j].eot = 0
  <2>8. last \in DOMAIN c /\ c[last].eot = 1
    BY <2>1, <2>3, <2>7
  <2>9. last = n - 1
    BY <1>4, <2>8
  <2> HIDE DEF last
  <2>10. [i \in 1..(last + 1) |-> c[i - 1].data] = [i \in 1..n |-> C[i].data]
    BY <2>1, <2>2, <2>9
  <2>11. Written(c) = FlattenSeq([i \in 1..(last + 1) |-> c[i - 1].data])
    BY DEF Written, last
  <2> QED
    BY <2>6, <2>10, <2>11 DEF Text, n
<1> QED
  BY <1>5, <1>6, <1>7 DEF n

(* The client takes a piece: it is filed, or completes the chunk, which is
   then written and acknowledged. *)
LEMMA StreamTaken ==
  ASSUME FaultFree, TypeInv, OnePlace, NEW C \in Seq(Piece), NEW A \in SUBSET (1..Len(C)),
         Connected, Flow(C, A), RecvDat(Client), UNCHANGED firmwareVars
  PROVE  Streaming'
<1> DEFINE m == Head(sock[Client])
           c == [chunk[Client] EXCEPT ![m.seq] = [data |-> m.data, eot |-> m.eot]]
           ack == Request(Client, ACK, OBJ_CONSOLESEND, 0, <<>>)
<1>1. /\ sock[Client] # <<>> /\ sock' = [sock EXCEPT ![Client] = Tail(@)] /\ m.type = DAT
      /\ \/ Complete(c, FALSE) /\ Finish(Client, c)
         \/ /\ ~Complete(c, FALSE) /\ chunk' = [chunk EXCEPT ![Client] = c]
            /\ UNCHANGED <<out, canrxq>>
      /\ UNCHANGED <<hpc, bus, listening>>
  BY DEF RecvDat, ReadCan
<1>2. /\ UNCHANGED <<console, suspended, notified, cpc, msg, seq, serialrxq, accepted>>
      /\ HeldText' = HeldText
  BY DEF firmwareVars, taskVars, usartVars, HeldText
<1>3. /\ Client \in Helper /\ sock \in [Helper -> Seq(FromSlotFrame)]
      /\ chunk \in [Helper -> Chunk] /\ out \in [Helper -> Seq(1..MaxByte)]
      /\ canrxq \in Seq(ToSlotFrame) /\ ChannelsOK
  BY OneClient DEF TypeInv, ChannelsOK, HelpersOK
<1>4. sock'[Client] = Tail(sock[Client])
  BY <1>1, <1>3
<1>5. m \in FromSlotFrame /\ OnTheWay = OnTheWay' \cup ({m} \cap DatFrame)
  BY <1>1, <1>4, SocketTail
<1>6. c \in Chunk
  BY <1>3, <1>5, ReplacedIsChunk
<1> HIDE DEF m
<1>7. m \in DatFrame /\ m \in OnTheWay
  BY <1>1, <1>5 DEF DatFrame
<1>8. PICK j \in A : m = DatOf(C, j)
  BY <1>7 DEF Flow, PiecesFound
<1>9. j \in 1..Len(C) /\ C[j] \in Piece /\ C[j].data # <<>> /\ C # <<>>
  BY DEF Flow, PiecesSent
<1>10. m.seq = j - 1 /\ m.data = C[j].data /\ m.eot = C[j].eot
  BY <1>8, DatOfFields
<1>11. m \notin OnTheWay'
  BY <1>1, <1>4, <1>9, <1>10, PieceTaken DEF m
<1> DEFINE B == A \ {j}
<1>12. OnTheWay' = {DatOf(C, i) : i \in B}
  <2>1. OnTheWay = {DatOf(C, i) : i \in A}
    BY DEF Flow, PiecesFound
  <2>2. \A i \in A : DatOf(C, i) = m => i = j
    <3>1. \A i \in A : DatOf(C, i).seq = i - 1
      BY DatOfFields
    <3>2. \A i \in A : i \in Int
      OBVIOUS
    <3> QED
      BY <1>9, <1>10, <3>1, <3>2
  <2>3. OnTheWay' = OnTheWay \ {m}
    BY <1>5, <1>7, <1>11
  <2> QED
    BY <1>8, <2>1, <2>2, <2>3
<1>13. \A i \in 1..ChunkSize :
         c[i - 1] = IF i \in 1..Len(C) /\ i \notin B THEN C[i] ELSE NoMessage
  <2>1. c = [chunk[Client] EXCEPT ![j - 1] = C[j]]
    <3>1. C[j] = [data |-> C[j].data, eot |-> C[j].eot]
      BY <1>9 DEF Piece
    <3> QED
      BY <1>10, <3>1
  <2> HIDE DEF c
  <2> SUFFICES ASSUME NEW i \in 1..ChunkSize
               PROVE  c[i - 1] = IF i \in 1..Len(C) /\ i \notin B THEN C[i] ELSE NoMessage
    OBVIOUS
  <2>2. i \in Int /\ j \in Int /\ i - 1 \in 0..(ChunkSize - 1) /\ chunk[Client] \in Chunk
    BY <1>3, <1>9, HelperAssumption
  <2>3. c[i - 1] = IF i = j THEN C[j] ELSE chunk[Client][i - 1]
    <3>1. i - 1 = j - 1 <=> i = j
      BY <2>2
    <3> QED
      BY <2>1, <2>2, <3>1 DEF Chunk
  <2>4. chunk[Client][i - 1] = IF i \in 1..Len(C) /\ i \notin A THEN C[i] ELSE NoMessage
    BY DEF Flow, PiecesFound
  <2> QED
    BY <1>9, <2>3, <2>4
<1> HIDE DEF c
<1>14. B \in SUBSET (1..Len(C)) /\ PiecesSent(C)
  BY DEF Flow
<1>15. /\ Complete(c, FALSE) <=> C[Len(C)].eot = 1 /\ B = {}
       /\ Complete(c, FALSE) => Written(c) = Text(C)
  BY <1>6, <1>9, <1>13, <1>14, ChunkPieces
<1>16. Assembling(C) \/ Awaited(C, A)
  BY <1>9 DEF Flow, Done
<1>17. CASE ~Complete(c, FALSE)
  <2>1. chunk'[Client] = c /\ UNCHANGED <<out, canrxq>>
    BY <1>1, <1>3, <1>17
  <2>2. PiecesFound(C, B)'
    BY <1>12, <1>13, <2>1 DEF PiecesFound
  <2>3. Acks' = Acks
    BY <2>1 DEF Acks
  <2>4. (Assembling(C) \/ Awaited(C, B))'
    <3>1. CASE Assembling(C)
      BY <1>2, <2>3, <3>1 DEF Assembling
    <3>2. CASE Awaited(C, A)
      BY <1>2, <1>15, <1>17, <2>3, <3>2 DEF Awaited
    <3> QED
      BY <1>16, <3>1, <3>2
  <2>5. accepted' = InOrder(out'[Client], Text(C), HeldText', serialrxq')
    BY <1>2, <2>1 DEF Flow
  <2>6. Flow(C, B)'
    BY <1>14, <2>2, <2>4, <2>5 DEF Flow
  <2>7. Connected'
    BY <1>1, <1>2, <2>1, ConnectedKept DEF connectedVars
  <2> QED
    BY <1>14, <2>6, <2>7 DEF Streaming
<1>18. CASE Complete(c, FALSE)
  <2>1. /\ out' = [out EXCEPT ![Client] = @ \o Written(c)]
        /\ chunk' = [chunk EXCEPT ![Client] = EmptyChunk]
        /\ SendToSlot(ack)
    BY <1>1, <1>18 DEF Finish, console_send_ack
  <2>2. out'[Client] = out[Client] \o Text(C) /\ chunk'[Client] = EmptyChunk
    BY <1>3, <1>15, <1>18, <2>1
  <2>3. ack \in ToSlotFrame /\ OverTheWire(ack) = ack
    <3>1. ACK \in {WO, DAT, ACK} /\ ACK # WO /\ OBJ_CONSOLESEND \in 0..255
          /\ 0 \in {0, 1} /\ <<>> \in Seq(Nat)
      BY DEF ACK, WO, OBJ_CONSOLESEND
    <3> QED
      BY <1>3, <3>1, RequestArrives
  <2>4. ack.type = ACK /\ ack.object = OBJ_CONSOLESEND
    BY DEF Request, Message
  <2> HIDE DEF ack
  <2>5. canrxq' = Append(canrxq, ack)
    BY <1>3, <2>1, <2>3, SendType
  <2>6. Awaited(C, A)
    <3>1. Len(C) \in 1..Len(C)
      BY <1>9
    <3>2. C[Len(C)].eot = 1
      BY <1>15, <1>18
    <3> QED
      BY <1>16, <3>1, <3>2 DEF Assembling
  <2>7. Acks = {} /\ Acks' = {ack}
    <3>1. Among(Append(canrxq, ack), AckFrame) = Acks \cup ({ack} \cap AckFrame)
      BY <1>3, <2>3, AmongAppended DEF Acks
    <3> QED
      BY <2>3, <2>4, <2>5, <2>6, <3>1 DEF Acks, AckFrame, Awaited
  <2>8. Single(canrxq', AckFrame)
    BY <1>3, <2>3, <2>5, <2>7, FewerAppended DEF Acks
  <2> DEFINE D == <<>>
  <2>9. Done(D)'
    BY <1>2, <2>6, <2>7, <2>8 DEF Done, Awaited
  <2>10. D \in Seq(Piece) /\ Len(D) = 0 /\ {} \in SUBSET (1..Len(D))
         /\ \A i \in 1..Len(D) : FALSE
    OBVIOUS
  <2>11. PiecesSent(D)
    BY <2>10, FirmwareAssumption DEF PiecesSent
  <2>12. PiecesFound(D, {})'
    <3>1. B = {}
      BY <1>15, <1>18
    <3>2. ASSUME NEW i \in 1..ChunkSize PROVE EmptyChunk[i - 1] = NoMessage
      <4>1. i - 1 \in 0..(ChunkSize - 1)
        BY HelperAssumption
      <4> QED
        BY <4>1 DEF EmptyChunk
    <3>3. OnTheWay' = {}
      BY <1>12, <3>1
    <3>4. {DatOf(D, i) : i \in {}} = {}
      OBVIOUS
    <3> QED
      BY <2>2, <2>10, <3>2, <3>3, <3>4 DEF PiecesFound
  <2>13. accepted' = InOrder(out'[Client], Text(D), HeldText', serialrxq')
    <3>1. Texts(out[Client], Text(C), HeldText, serialrxq)
      BY StreamTypes, TextFacts DEF Texts
    <3>2. accepted = InOrder(out[Client], Text(C), HeldText, serialrxq)
      BY DEF Flow
    <3>3. InOrder(out[Client] \o Text(C), <<>>, HeldText, serialrxq) = accepted
      BY <3>1, <3>2, InOrderMoved
    <3>4. Text(D) = <<>>
      BY <2>10, TextFacts
    <3> QED
      BY <1>2, <2>2, <3>3, <3>4
  <2>14. Flow(D, {})'
    BY <2>9, <2>11, <2>12, <2>13 DEF Flow
  <2>15. Connected'
    <3>1. ValuesOf(canrxq') = ValuesOf(canrxq) \cup {ack}
      BY <1>3, <2>3, <2>5, ValuesAppended
    <3>2. ack.type # WO
      BY <2>4 DEF ACK, WO
    <3> QED
      BY <1>1, <1>2, <2>4, <3>1, <3>2 DEF Connected
  <2> QED
    BY <2>10, <2>14, <2>15 DEF Streaming
<1> QED
  BY <1>17, <1>18

(* The end of the process, in whatever state the console is. *)
LEMMA DiedGone ==
  ASSUME FaultFree, TypeInv, Die(Client) \/ Disconnect(Client)
  PROVE  Gone'
<1>1. Client \in Helper /\ hpc \in [Helper -> {"off", "run", "disc"}]
  BY OneClient DEF TypeInv, HelpersOK
<1>2. hpc'[Client] = "off" \/ hpc'[Client] = "disc"
  BY <1>1 DEF Die, Disconnect
<1> QED
  BY <1>2 DEF Gone

(* The client takes a frame that is no piece. *)
LEMMA StreamOther ==
  ASSUME FaultFree, TypeInv, NEW C \in Seq(Piece), NEW A, Connected, Flow(C, A),
         sock[Client] # <<>>, sock' = [sock EXCEPT ![Client] = Tail(@)],
         Head(sock[Client]) \notin DatFrame,
         UNCHANGED <<firmwareVars, hpc, chunk, out, canrxq, bus, listening>>
  PROVE  Connected' /\ Flow(C, A)'
<1>1. /\ UNCHANGED <<console, suspended, notified, cpc, msg, seq, serialrxq, accepted>>
      /\ HeldText' = HeldText /\ Acks' = Acks
  BY DEF firmwareVars, taskVars, usartVars, HeldText, Acks
<1>2. Connected'
  BY <1>1, ConnectedKept DEF connectedVars
<1>3. sock'[Client] = Tail(sock[Client])
  BY OneClient DEF TypeInv, ChannelsOK
<1>4. OnTheWay' = OnTheWay
  BY <1>3, SocketTail
<1>5. PiecesFound(C, A)'
  BY <1>4 DEF Flow, PiecesFound
<1>6. (Assembling(C) \/ Awaited(C, A) \/ Done(C))'
  <2>1. CASE Assembling(C)
    BY <1>1, <2>1 DEF Assembling
  <2>2. CASE Awaited(C, A)
    BY <1>1, <2>2 DEF Awaited
  <2>3. CASE Done(C)
    BY <1>1, <2>3 DEF Done
  <2> QED
    BY <2>1, <2>2, <2>3 DEF Flow
<1> QED
  BY <1>1, <1>2, <1>5, <1>6 DEF Flow

(* The client takes the answer to its connect or to a key, or an answer it
   does not look at. *)
LEMMA StreamReply ==
  ASSUME FaultFree, TypeInv, NEW C \in Seq(Piece), NEW A, Connected, Flow(C, A),
         Skip(Client) \/ \E object : RecvReply(Client, object), UNCHANGED firmwareVars
  PROVE  Gone' \/ (Connected' /\ Flow(C, A)')
<1>1. CASE Die(Client)
  BY <1>1, DiedGone
<1>2. CASE ~Die(Client)
  <2>1. /\ sock[Client] # <<>> /\ sock' = [sock EXCEPT ![Client] = Tail(@)]
        /\ UNCHANGED <<hpc, chunk, out, canrxq, bus, listening>>
        /\ Head(sock[Client]).object = OBJ_CONSOLEDISC \/ Head(sock[Client]).type \in {ACK, NAK}
    <3>1. CASE Skip(Client)
      BY <3>1 DEF Skip, ReadCan, helperVars, Connected
    <3>2. ASSUME NEW object, RecvReply(Client, object)
          PROVE  /\ sock[Client] # <<>> /\ sock' = [sock EXCEPT ![Client] = Tail(@)]
                 /\ UNCHANGED <<hpc, chunk, out, canrxq, bus, listening>>
                 /\ Head(sock[Client]).type \in {ACK, NAK}
      BY <1>2, <3>2 DEF RecvReply, ReadCan
    <3> QED
      BY <3>1, <3>2
  <2> DEFINE m == Head(sock[Client])
  <2>2. sock'[Client] = Tail(sock[Client])
    BY <2>1, OneClient DEF TypeInv, ChannelsOK
  <2>3. OnTheWay = OnTheWay' \cup ({m} \cap DatFrame)
    BY <2>1, <2>2, SocketTail
  <2>4. m \notin DatFrame
    <3> SUFFICES ASSUME m \in DatFrame PROVE FALSE
      OBVIOUS
    <3> HIDE DEF m
    <3>1. PICK j \in A : m = DatOf(C, j)
      BY <2>3 DEF Flow, PiecesFound
    <3>2. m.type = DAT /\ m.object = OBJ_CONSOLESEND
      BY <3>1, DatOfFields
    <3> QED
      BY <2>1, <3>2 DEF m, DAT, ACK, NAK, OBJ_CONSOLESEND, OBJ_CONSOLEDISC
  <2> QED
    BY <2>1, <2>4, StreamOther
<1> QED
  BY <1>1, <1>2

(* The process waits in vain for the rest of a chunk only when nothing more
   is on the way: then nothing is missing. *)
LEMMA StreamLate ==
  ASSUME FaultFree, TypeInv, NEW C \in Seq(Piece), NEW A \in SUBSET (1..Len(C)),
         Connected, Flow(C, A), RecvTimeout(Client), ChunkLate(Client)
  PROVE  Gone'
<1>1. ~Complete(chunk[Client], TRUE)
  <2> SUFFICES ASSUME Complete(chunk[Client], TRUE) PROVE FALSE
    OBVIOUS
  <2>1. ~OnBus({DAT}) /\ ~InSock(Client, {DAT})
    BY DEF FaultFree, ChunkLate
  <2>2. OnTheWay = {}
    BY <2>1 DEF OnTheWay, Among, ValuesOf, DatFrame, OnBus, InSock
  <2>3. A = {}
    BY <2>2 DEF Flow, PiecesFound
  <2>4. chunk[Client] \in Chunk /\ PiecesSent(C)
        /\ \A i \in 1..ChunkSize :
             chunk[Client][i - 1] = IF i \in 1..Len(C) /\ i \notin A THEN C[i] ELSE NoMessage
    BY StreamTypes DEF Flow, PiecesFound
  <2>5. C # <<>> /\ C[Len(C)].eot = 1
    BY <2>4, ChunkPieces
  <2>6. Len(C) \in 1..Len(C)
    BY <2>5
  <2> QED
    BY <2>3, <2>5, <2>6 DEF Flow, Assembling, Awaited, Done
<1>2. Disconnect(Client)
  BY <1>1 DEF RecvTimeout
<1> QED
  BY <1>2, DiedGone

(* A key is typed: it goes the other way. *)
LEMMA StreamTyped ==
  ASSUME FaultFree, TypeInv, NEW C \in Seq(Piece), NEW A, Connected, Flow(C, A),
         StdinRead(Client), UNCHANGED firmwareVars
  PROVE  Connected' /\ Flow(C, A)'
<1>1. PICK n \in 1..ReadLen :
        /\ typed[Client] + n <= MaxKey
        /\ console_send_dat(Client, [i \in 1..n |-> Key(Client, typed[Client] + i)])
  BY DEF StdinRead
<1> DEFINE keys == [i \in 1..n |-> Key(Client, typed[Client] + i)]
           m == Request(Client, DAT, OBJ_CONSOLERECV, 1, keys)
<1>2. /\ UNCHANGED <<hpc, chunk, out, bus, sock, listening>>
      /\ UNCHANGED <<console, suspended, notified, cpc, msg, seq, serialrxq, accepted>>
      /\ HeldText' = HeldText
  BY DEF StdinRead, firmwareVars, taskVars, usartVars, HeldText
<1>3. Client \in Helper /\ canrxq \in Seq(ToSlotFrame) /\ ChannelsOK
  BY OneClient DEF TypeInv, ChannelsOK
<1>4. keys \in Seq(Nat)
  <2>1. n \in Nat /\ typed[Client] \in Nat /\ MaxKey \in Nat
    BY <1>3, HelperAssumption DEF TypeInv, HelpersOK
  <2>2. \A i \in 1..n : typed[Client] + i \in 1..MaxKey
    BY <1>1, <2>1
  <2>3. \A i \in 1..n : Key(Client, typed[Client] + i) \in Nat
    BY <1>3, <2>2, KeyFacts
  <2> QED
    BY <2>1, <2>3
<1> HIDE DEF keys
<1>5. m \in ToSlotFrame /\ OverTheWire(m) = m
  <2>1. DAT \in {WO, DAT, ACK} /\ DAT # WO /\ OBJ_CONSOLERECV \in 0..255 /\ 1 \in {0, 1}
    BY DEF DAT, WO, ACK, OBJ_CONSOLERECV
  <2> QED
    BY <1>3, <1>4, <2>1, RequestArrives
<1>6. m.type = DAT
  BY DEF Request, Message
<1>7. SendToSlot(m)
  BY <1>1 DEF console_send_dat, keys
<1> HIDE DEF m
<1>8. canrxq' = Append(canrxq, m)
  BY <1>3, <1>5, <1>7, SendType
<1>9. Acks' = Acks
  <2>1. Among(Append(canrxq, m), AckFrame) = Acks \cup ({m} \cap AckFrame)
    BY <1>3, <1>5, AmongAppended DEF Acks
  <2>2. m \notin AckFrame
    BY <1>6 DEF AckFrame, DAT, ACK
  <2>3. Among(Append(canrxq, m), AckFrame) = Acks
    BY <2>1, <2>2, Zenon
  <2> QED
    BY <1>8, <2>3 DEF Acks
<1>10. Connected'
  <2>1. ValuesOf(canrxq') = ValuesOf(canrxq) \cup {m}
    BY <1>3, <1>5, <1>8, ValuesAppended
  <2> QED
    BY <1>2, <1>6, <2>1 DEF Connected, DAT, ACK, WO
<1>11. Single(canrxq, AckFrame) => Single(canrxq', AckFrame)
  <2>1. m \notin AckFrame
    BY <1>6 DEF AckFrame, DAT, ACK
  <2> QED
    BY <1>3, <1>5, <1>8, <2>1, FewerAppended DEF Fewer
<1>12. PiecesFound(C, A)'
  BY <1>2 DEF Flow, PiecesFound, OnTheWay
<1>13. (Assembling(C) \/ Awaited(C, A) \/ Done(C))'
  <2>1. CASE Assembling(C)
    BY <1>2, <1>9, <2>1 DEF Assembling
  <2>2. CASE Awaited(C, A)
    BY <1>2, <1>9, <2>2 DEF Awaited
  <2>3. CASE Done(C)
    BY <1>2, <1>9, <1>11, <2>3 DEF Done
  <2> QED
    BY <2>1, <2>2, <2>3 DEF Flow
<1> QED
  BY <1>2, <1>10, <1>12, <1>13 DEF Flow

LEMMA StreamStep ==
  ASSUME FaultFree, TypeInv, OnePlace, Streaming, [Next]_vars
  PROVE  Streaming' \/ Gone'
<1>1. PICK C \in Seq(Piece) : \E A \in SUBSET (1..Len(C)) : Flow(C, A)
  BY DEF Streaming
<1>2. PICK A \in SUBSET (1..Len(C)) : Flow(C, A)
  BY <1>1
<1>3. Connected /\ hpc[Client] = "run"
  BY DEF Streaming, Connected
<1>4. ASSUME Connected' /\ Flow(C, A)' PROVE Streaming'
  BY <1>4 DEF Streaming
<1>5. CASE (UartByte \/ UartTx \/ RxTask) /\ UNCHANGED helperVars
  BY <1>2, <1>3, <1>4, <1>5, StreamUart, StreamRx
<1>6. CASE ConTask /\ UNCHANGED helperVars
  BY <1>2, <1>3, <1>4, <1>6, StreamRecv, StreamPack, StreamSend, StreamAcked DEF ConTask
<1>7. ~ConSendFails /\ ~LoseToFirmware /\ ~LoseToHelper
  BY NoFaults DEF ConSendFails, LoseToFirmware, LoseToHelper
<1>8. CASE Deliver /\ UNCHANGED <<firmwareVars, helperVars>>
  BY <1>2, <1>3, <1>4, <1>8, StreamDeliver
<1>9. ~CanError(Client) /\ ~Start(Client) /\ ~DiscReply(Client) /\ ~DiscTimeout(Client)
  BY <1>3, NoFaults DEF CanError, Start, DiscReply, DiscTimeout
<1>10. CASE StdinRead(Client) /\ UNCHANGED firmwareVars
  BY <1>2, <1>3, <1>4, <1>10, StreamTyped
<1>11. CASE StdinEof(Client) \/ AckTimeout(Client)
  BY <1>11, DiedGone DEF StdinEof, AckTimeout
<1>12. CASE RecvDat(Client) /\ UNCHANGED firmwareVars
  BY <1>2, <1>3, <1>12, StreamTaken
<1>13. CASE (Skip(Client) \/ \E object : RecvReply(Client, object)) /\ UNCHANGED firmwareVars
  BY <1>2, <1>3, <1>4, <1>13, StreamReply
<1>14. CASE RecvTimeout(Client) /\ ChunkLate(Client)
  BY <1>2, <1>3, <1>14, StreamLate
<1>15. CASE UNCHANGED vars
  <2>1. UNCHANGED linkVars /\ UNCHANGED connectedVars /\ UNCHANGED <<accepted, out, serialrxq>>
        /\ HeldText' = HeldText
    BY <1>15 DEF vars, netVars, firmwareVars, taskVars, usartVars, helperVars, linkVars,
                 connectedVars, HeldText
  <2>2. accepted' = InOrder(out'[Client], Text(C), HeldText, serialrxq')
    BY <1>2, <2>1 DEF Flow
  <2> QED
    BY <1>2, <1>3, <1>4, <2>1, <2>2, FlowKept, ConnectedKept
<1>16. CASE \E h \in Helper : HelperStep(h)
  BY <1>9, <1>11, <1>12, <1>13, <1>14, <1>16, OneClient DEF HelperStep
<1>17. CASE \E h \in Helper :
              /\ Start(h) \/ CanError(h) \/ StdinRead(h) \/ StdinEof(h)
              /\ UNCHANGED firmwareVars
  BY <1>9, <1>10, <1>11, <1>17, OneClient
<1> QED
  BY <1>5, <1>6, <1>7, <1>8, <1>15, <1>16, <1>17 DEF Next

(* A process starts at the client's address once. *)
LEMMA StartsOnce ==
  ASSUME FaultFree, TypeInv, starts[Client] = 1, [Next]_vars
  PROVE  starts'[Client] = 1 /\ (Gone => Gone')
<1>1. Client \in Helper /\ hpc \in [Helper -> {"off", "run", "disc"}]
  BY OneClient DEF TypeInv, HelpersOK
<1>2. ~Start(Client)
  BY DEF Start, MayStart, FaultFree
<1>3. CASE UNCHANGED <<hpc, starts>>
  BY <1>3 DEF Gone
<1>4. CASE UNCHANGED helperVars \/ UNCHANGED vars
  BY <1>3, <1>4 DEF vars, helperVars
<1>5. ASSUME Die(Client) \/ Disconnect(Client)
      PROVE  starts'[Client] = 1 /\ (Gone => Gone')
  BY <1>5, DiedGone DEF Die, Disconnect
<1>6. CASE HelperStep(Client)
  <2>1. CASE RecvDat(Client) \/ Skip(Client)
    BY <1>3, <2>1 DEF RecvDat, Skip, helperVars
  <2>2. ASSUME NEW object, RecvReply(Client, object)
        PROVE  starts'[Client] = 1 /\ (Gone => Gone')
    BY <1>3, <1>5, <2>2 DEF RecvReply
  <2>3. CASE DiscReply(Client) \/ DiscTimeout(Client) \/ AckTimeout(Client)
    BY <1>5, <2>3 DEF DiscReply, DiscTimeout, AckTimeout
  <2>4. CASE RecvTimeout(Client)
    BY <1>3, <1>5, <2>4 DEF RecvTimeout
  <2> QED
    BY <1>6, <2>1, <2>2, <2>3, <2>4 DEF HelperStep
<1>7. CASE CanError(Client) \/ StdinRead(Client) \/ StdinEof(Client)
  BY <1>3, <1>5, <1>7 DEF CanError, StdinRead, StdinEof
<1>8. CASE \E h \in Helper : \/ HelperStep(h) \/ Start(h) \/ CanError(h) \/ StdinRead(h)
                             \/ StdinEof(h)
  BY <1>2, <1>6, <1>7, <1>8, OneClient
<1> QED
  BY <1>4, <1>8 DEF Next

(* Before the connection. *)
LEMMA SilentKept ==
  ASSUME Silent, UNCHANGED <<bus, sock, suspended, rxEnabled, cpc, seq, notified, serialrxq,
                             accepted, out, chunk, stdinOn>>
  PROVE  Silent'
BY DEF Silent

LEMMA SilentSteps ==
  ASSUME FaultFree, TypeInv, Silent
  PROVE  /\ ~ConTask /\ ~ConSendFails /\ ~Deliver /\ ~LoseToFirmware /\ ~LoseToHelper
         /\ ~RecvDat(Client) /\ ~Skip(Client) /\ \A object : ~RecvReply(Client, object)
         /\ ~StdinRead(Client) /\ ~StdinEof(Client) /\ ~CanError(Client)
         /\ ~Complete(chunk[Client], TRUE)
<1>1. ~ConTask
  BY DEF Silent, ConTask, ConRecv, ConPack, ConSend, ConAcked, ConTimeoutLate, ConTimeout,
         ConWoken, ConTake
<1>2. ~ConSendFails /\ ~LoseToFirmware /\ ~LoseToHelper /\ ~CanError(Client)
  BY NoFaults DEF ConSendFails, LoseToFirmware, LoseToHelper, CanError
<1>3. ~Deliver
  <2>1. Len(<<>>) = 0 /\ 1..0 = {}
    OBVIOUS
  <2> QED
    BY <2>1 DEF Silent, Deliver
<1>4. ~RecvDat(Client) /\ ~Skip(Client) /\ \A object : ~RecvReply(Client, object)
  BY DEF Silent, RecvDat, Skip, RecvReply, ReadCan
<1>5. ~StdinRead(Client) /\ ~StdinEof(Client)
  BY DEF Silent, StdinRead, StdinEof
<1>6. ~Complete(chunk[Client], TRUE)
  BY DEF Silent, Complete, EmptyChunk, NoMessage
<1> QED
  BY <1>1, <1>2, <1>3, <1>4, <1>5, <1>6

LEMMA UartSilent ==
  ASSUME Silent, UartByte \/ UartTx, UNCHANGED helperVars
  PROVE  Silent' /\ UNCHANGED <<canrxq, hpc, listening, starts>>
<1>1. UNCHANGED <<bus, sock, suspended, rxEnabled, cpc, seq, notified, out, chunk, stdinOn,
                  canrxq, hpc, listening, starts>>
  BY DEF UartByte, UartTx, netVars, taskVars, usartVars, helperVars
<1>2. UNCHANGED <<serialrxq, accepted>>
  BY DEF Silent, UartByte, UartTx, usartVars
<1> QED
  BY <1>1, <1>2, SilentKept

LEMMA UnusedStep ==
  ASSUME FaultFree, TypeInv, Unused, [Next]_vars
  PROVE  Unused' \/ (starts'[Client] = 1 /\ Calling')
<1>1. Silent /\ hpc[Client] = "off" /\ canrxq = <<>> /\ starts[Client] = 0
  BY DEF Unused
<1>2. CASE (UartByte \/ UartTx) /\ UNCHANGED helperVars
  BY <1>1, <1>2, UartSilent DEF Unused
<1>3. CASE UNCHANGED vars
  <2>1. Silent' /\ UNCHANGED <<hpc, canrxq, starts>>
    BY <1>1, <1>3, SilentKept DEF vars, netVars, firmwareVars, taskVars, usartVars, helperVars
  <2> QED
    BY <1>1, <2>1 DEF Unused
<1>4. ~RxTask
  BY <1>1 DEF RxTask, RxConsoleConn, RxConsoleDisc, RxConsoleRecv, RxAck, Received
<1>5. ~HelperStep(Client)
  BY <1>1 DEF HelperStep, RecvDat, RecvReply, Skip, DiscReply, DiscTimeout, AckTimeout,
              RecvTimeout
<1>6. CASE Start(Client) /\ UNCHANGED firmwareVars
  <2> DEFINE m == Request(Client, WO, OBJ_CONSOLECONN, 0, <<OBJ_CONSOLESEND>>)
  <2>1. /\ starts' = [starts EXCEPT ![Client] = @ + 1] /\ hpc' = [hpc EXCEPT ![Client] = "run"]
        /\ listening' = listening \cup {Client} /\ SendToSlot(m)
        /\ UNCHANGED <<bus, sock, out, chunk, stdinOn>>
    BY <1>6 DEF Start, console_connect
  <2>2. Silent'
    BY <1>1, <1>6, <2>1, SilentKept DEF firmwareVars, taskVars, usartVars
  <2>3. starts'[Client] = 1 /\ hpc'[Client] = "run" /\ Client \in listening'
    BY <1>1, <2>1, OneClient DEF TypeInv, HelpersOK
  <2>4. m \in ToSlotFrame /\ OverTheWire(m) = m
    <3>1. WO \in {WO, DAT, ACK} /\ OBJ_CONSOLECONN \in 0..255 /\ 0 \in {0, 1}
          /\ <<OBJ_CONSOLESEND>> \in Seq(Nat)
      BY DEF WO, OBJ_CONSOLECONN, OBJ_CONSOLESEND
    <3> QED
      BY <3>1, OneClient, RequestArrives
  <2> HIDE DEF m
  <2>5. canrxq' = <<m>>
    <3>1. canrxq' = Append(canrxq, m)
      BY <2>1, <2>4, SendType DEF TypeInv
    <3> QED
      BY <1>1, <3>1
  <2> QED
    BY <2>2, <2>3, <2>5 DEF Calling, m
<1> QED
  BY <1>1, <1>2, <1>3, <1>4, <1>5, <1>6, SilentSteps, OneClient DEF Next

(* The connect message reaches the slot: the stream begins with nothing in
   it but a byte that was waiting in the data register. *)
LEMMA StreamBegins ==
  ASSUME FaultFree, TypeInv, Calling, RxConsoleConn, UNCHANGED helperVars
  PROVE  Streaming'
<1> DEFINE f == Request(Client, WO, OBJ_CONSOLECONN, 0, <<OBJ_CONSOLESEND>>)
<1>1. /\ Silent /\ hpc[Client] = "run" /\ Client \in listening /\ canrxq = <<f>>
      /\ Head(canrxq) = f /\ Tail(canrxq) = <<>>
  BY DEF Calling
<1>2. f.src = Client /\ f.data[1] = OBJ_CONSOLESEND
  BY DEF Request, Message
<1>3. /\ SerialRxEnable /\ vTaskResume /\ Respond(ACK) /\ canrxq' = Tail(canrxq)
      /\ console' = [dstaddr |-> Head(canrxq).src, object |-> Head(canrxq).data[1],
                     connected |-> TRUE]
      /\ UNCHANGED <<notified, msg, seq, sock, listening, hpc, chunk, out>>
  BY DEF RxConsoleConn, Received, helperVars
<1> HIDE DEF f
<1>4. ~suspended' /\ cpc' = "recv" /\ canrxq' = <<>>
  BY <1>1, <1>3 DEF vTaskResume, Silent
<1>5. ValuesOf(canrxq') = {} /\ Acks' = {}
  BY <1>4, NothingAtAll DEF Acks, Among
<1>6. Connected'
  BY <1>1, <1>2, <1>3, <1>4, <1>5 DEF Connected
<1> DEFINE D == <<>>
<1>7. D \in Seq(Piece) /\ Len(D) = 0 /\ {} \in SUBSET (1..Len(D))
      /\ \A i \in 1..Len(D) : FALSE
  OBVIOUS
<1>8. OnTheWay' = {}
  <2> DEFINE m == Reply(Head(canrxq), ACK)
  <2>1. bus' = Append(<<>>, m) /\ sock'[Client] = <<>>
    BY <1>1, <1>3 DEF Respond, Silent
  <2>2. m \in FromSlotFrame /\ m.type = ACK
    <3>1. Head(canrxq) \in ToSlotFrame
      BY <1>1, ReceivedType
    <3> QED
      BY <3>1, ReplyIsFrame, ReplyFields
  <2> HIDE DEF m
  <2>3. m \notin DatFrame
    BY <2>2 DEF DatFrame, ACK, DAT
  <2>4. ValuesOf(bus') = {m}
    <3> DEFINE e == <<>>
    <3>1. e \in Seq(FromSlotFrame) /\ ValuesOf(e) = {} /\ bus' = Append(e, m)
      BY <2>1, NothingAtAll
    <3> HIDE DEF e
    <3>2. ValuesOf(Append(e, m)) = ValuesOf(e) \cup {m}
      BY <2>2, <3>1, ValuesAppended
    <3> QED
      BY <3>1, <3>2
  <2> QED
    BY <2>1, <2>3, <2>4, NothingAtAll DEF OnTheWay, Among
<1>9. PiecesSent(D)
  BY <1>7, FirmwareAssumption DEF PiecesSent
<1>10. PiecesFound(D, {})'
  <2>1. ASSUME NEW i \in 1..ChunkSize PROVE EmptyChunk[i - 1] = NoMessage
    <3>1. i - 1 \in 0..(ChunkSize - 1)
      BY HelperAssumption
    <3> QED
      BY <3>1 DEF EmptyChunk
  <2>2. {DatOf(D, i) : i \in {}} = {}
    OBVIOUS
  <2>3. chunk'[Client] = EmptyChunk
    BY <1>1, <1>3 DEF Silent
  <2> QED
    BY <1>7, <1>8, <2>1, <2>2, <2>3 DEF PiecesFound
<1>11. Assembling(D)'
  BY <1>1, <1>3, <1>4, <1>5, <1>7, FirmwareAssumption DEF Assembling, Silent
<1>12. accepted' = InOrder(out'[Client], Text(D), HeldText', serialrxq')
  <2>1. Text(D) = <<>> /\ HeldText' = <<>> /\ out'[Client] = <<>>
    BY <1>1, <1>3, <1>4, <1>7, TextFacts DEF HeldText, Silent
  <2>2. serialrxq = <<>> /\ accepted = <<>>
    BY <1>1 DEF Silent
  <2>3. accepted' = serialrxq' /\ serialrxq' \in {<<>>, <<dr>>}
    BY <1>3, <2>2 DEF SerialRxEnable, RxIsr
  <2>4. InOrder(<<>>, <<>>, <<>>, serialrxq') = serialrxq'
    <3>1. /\ <<>> \o <<>> = <<>> /\ <<>> \o <<dr>> = <<dr>>
      OBVIOUS
    <3> QED
      BY <2>3, <3>1 DEF InOrder
  <2> QED
    BY <2>1, <2>3, <2>4
<1>13. Flow(D, {})'
  BY <1>9, <1>10, <1>11, <1>12 DEF Flow
<1> QED
  BY <1>6, <1>7, <1>13 DEF Streaming

LEMMA CallingStep ==
  ASSUME FaultFree, TypeInv, Calling, [Next]_vars
  PROVE  Calling' \/ Streaming' \/ Gone'
<1>1. Silent /\ hpc[Client] = "run"
  BY DEF Calling
<1>2. CASE (UartByte \/ UartTx) /\ UNCHANGED helperVars
  BY <1>1, <1>2, UartSilent DEF Calling
<1>3. CASE UNCHANGED vars
  <2>1. Silent' /\ UNCHANGED <<hpc, canrxq, listening>>
    BY <1>1, <1>3, SilentKept DEF vars, netVars, firmwareVars, taskVars, usartVars, helperVars
  <2> QED
    BY <2>1 DEF Calling
<1>4. ~RxConsoleDisc /\ ~RxConsoleRecv /\ ~RxAck
  <2>1. Head(canrxq).type = WO /\ Head(canrxq).object = OBJ_CONSOLECONN
    BY DEF Calling, Request, Message
  <2> QED
    BY <2>1 DEF RxConsoleDisc, RxConsoleRecv, RxAck, Received, WO, DAT, ACK, OBJ_CONSOLECONN,
                OBJ_CONSOLEDISC
<1>5. CASE RxConsoleConn /\ UNCHANGED helperVars
  BY <1>5, StreamBegins
<1>6. ~Start(Client) /\ ~DiscReply(Client) /\ ~DiscTimeout(Client)
  BY <1>1 DEF Start, DiscReply, DiscTimeout
<1>7. CASE AckTimeout(Client) \/ RecvTimeout(Client)
  BY <1>1, <1>7, SilentSteps, DiedGone DEF AckTimeout, RecvTimeout
<1>8. CASE HelperStep(Client)
  BY <1>1, <1>6, <1>7, <1>8, SilentSteps DEF HelperStep
<1> QED
  BY <1>1, <1>2, <1>3, <1>4, <1>5, <1>6, <1>8, SilentSteps, OneClient DEF Next, RxTask

LEMMA PipeInvInit ==
  ASSUME FaultFree, Init
  PROVE  PipeInv
<1>1. Client \in Helper
  BY OneClient
<1> QED
  BY <1>1 DEF Init, NetInit, FirmwareInit, HelperInit, PipeInv, Unused, Silent

LEMMA PipeInvStep ==
  ASSUME FaultFree, TypeInv, OnePlace, PipeInv, [Next]_vars
  PROVE  PipeInv'
<1>1. CASE Unused
  BY <1>1, UnusedStep DEF PipeInv
<1>2. CASE starts[Client] = 1 /\ Calling
  BY <1>2, CallingStep, StartsOnce DEF PipeInv
<1>3. CASE starts[Client] = 1 /\ Streaming
  BY <1>3, StreamStep, StartsOnce DEF PipeInv
<1>4. CASE starts[Client] = 1 /\ Gone
  BY <1>4, StartsOnce DEF PipeInv
<1> QED
  BY <1>1, <1>2, <1>3, <1>4 DEF PipeInv

(* What a step does at the ends of the pipe. *)
PipeMove ==
  \/ UNCHANGED accepted /\ UNCHANGED out
  \/ \E b \in Byte : accepted' = Append(accepted, b) /\ UNCHANGED out
  \/ /\ UNCHANGED accepted
     /\ IsPrefix(out[Client], out'[Client]) /\ IsPrefix(out'[Client], accepted')

LEMMA FirmwareMoves ==
  ASSUME TypeInv, UNCHANGED helperVars,
         UartByte \/ UartTx \/ ConTask \/ ConSendFails \/ RxTask
  PROVE  PipeMove
<1>1. UNCHANGED out
  BY DEF helperVars
<1>2. ASSUME NEW b \in Byte, RxIsr(b) PROVE PipeMove
  BY <1>1, <1>2 DEF RxIsr, PipeMove
<1>3. CASE UartByte
  <2>1. printed < MaxByte => printed + 1 \in Byte
    BY FirmwareAssumption DEF TypeInv, UsartOK, Byte
  <2> QED
    BY <1>1, <1>2, <1>3, <2>1 DEF UartByte, PipeMove
<1>4. CASE RxConsoleConn
  <2>1. dr # 0 => dr \in Byte
    BY DEF TypeInv, UsartOK, Byte
  <2> QED
    BY <1>1, <1>2, <1>4, <2>1 DEF RxConsoleConn, SerialRxEnable, PipeMove
<1>5. CASE UartTx \/ ConTask \/ ConSendFails \/ RxConsoleDisc \/ RxConsoleRecv \/ RxAck
  <2>1. UNCHANGED accepted
    BY <1>5 DEF UartTx, ConTask, ConSendFails, RxConsoleDisc, RxConsoleRecv, RxAck, ConRecv,
                ConPack, ConSend, ConAcked, ConTimeoutLate, ConTimeout, ConWoken, ConTake,
                usartVars
  <2> QED
    BY <1>1, <2>1 DEF PipeMove
<1> QED
  BY <1>3, <1>4, <1>5 DEF RxTask

(* Only a process that goes on writes to its output. *)
LEMMA HelperMoves ==
  ASSUME FaultFree, TypeInv, TypeInv', PipeInv', UNCHANGED firmwareVars,
         \/ HelperStep(Client) \/ Start(Client) \/ CanError(Client) \/ StdinRead(Client)
         \/ StdinEof(Client)
  PROVE  PipeMove
<1>1. UNCHANGED accepted
  BY DEF firmwareVars, usartVars
<1>2. CASE UNCHANGED out
  BY <1>1, <1>2 DEF PipeMove
<1>3. ASSUME NEW c \in Chunk, NEW holesOk, Complete(c, holesOk), Finish(Client, c),
             hpc[Client] = "run", UNCHANGED hpc
      PROVE  PipeMove
  <2>1. out'[Client] = out[Client] \o Written(c)
    BY <1>3, OneClient DEF Finish, TypeInv, HelpersOK
  <2>2. Written(c) \in Seq(Byte) /\ out[Client] \in Seq(Byte)
    BY <1>3, WrittenType, StreamTypes DEF Complete, Byte
  <2>3. IsPrefix(out[Client], out'[Client])
    BY <2>1, <2>2, IsPrefixOfMore
  <2>4. CASE Streaming'
    <3>1. PICK C \in Seq(Piece) : (\E A \in SUBSET (1..Len(C)) : Flow(C, A))'
      BY <2>4 DEF Streaming
    <3>2. accepted' = InOrder(out'[Client], Text(C), HeldText', serialrxq')
      BY <3>1 DEF Flow
    <3>3. Texts(out'[Client], Text(C), HeldText', serialrxq')
      <4>1. out'[Client] \in Seq(Byte) /\ serialrxq' \in Seq(Byte)
        BY OneClient DEF TypeInv, HelpersOK, UsartOK, Byte
      <4>2. HeldText' \in Seq(Byte)
        <5>1. msg'.data \in Seq(Byte)
          BY DEF TypeInv, TaskOK, FromSlotFrame, Byte
        <5> QED
          BY <5>1 DEF HeldText
      <4> QED
        BY <4>1, <4>2, TextFacts DEF Texts
    <3>4. IsPrefix(out'[Client], accepted')
      BY <3>2, <3>3, InOrderPrefixes
    <3> QED
      BY <1>1, <2>3, <3>4 DEF PipeMove
  <2>5. CASE Calling' \/ Unused'
    <3>1. out'[Client] = <<>> /\ accepted' = <<>>
      BY <2>5 DEF Calling, Unused, Silent
    <3>2. IsPrefix(<<>>, <<>>)
      <4>1. <<>> \in Seq(Byte) /\ <<>> \o <<>> = <<>>
        OBVIOUS
      <4> QED
        BY <4>1, IsPrefixOfMore
    <3> QED
      BY <1>1, <2>3, <3>1, <3>2 DEF PipeMove
  <2> QED
    BY <1>3, <2>4, <2>5 DEF PipeInv, Gone
<1>4. CASE RecvDat(Client)
  <2> DEFINE m == Head(sock[Client])
             c == [chunk[Client] EXCEPT ![m.seq] = [data |-> m.data, eot |-> m.eot]]
  <2>1. /\ sock[Client] # <<>> /\ hpc[Client] = "run" /\ UNCHANGED hpc
        /\ UNCHANGED out \/ (Complete(c, FALSE) /\ Finish(Client, c))
    BY <1>4 DEF RecvDat, ReadCan
  <2>2. c \in Chunk
    <3>1. m \in FromSlotFrame
      BY <2>1, OneClient, SocketType
    <3> QED
      BY <3>1, StreamTypes, ReplacedIsChunk
  <2> HIDE DEF c
  <2> QED
    BY <1>2, <1>3, <2>1, <2>2
<1>5. CASE RecvTimeout(Client)
  BY <1>2, <1>3, <1>5, StreamTypes DEF RecvTimeout, Disconnect
<1>6. CASE Die(Client) \/ Disconnect(Client)
  BY <1>2, <1>6 DEF Die, Disconnect
<1>7. CASE Start(Client) \/ CanError(Client) \/ StdinRead(Client) \/ StdinEof(Client)
  BY <1>2, <1>6, <1>7 DEF Start, CanError, StdinRead, StdinEof
<1>8. ASSUME NEW object, RecvReply(Client, object) PROVE PipeMove
  BY <1>2, <1>6, <1>8 DEF RecvReply
<1>9. CASE Skip(Client) \/ DiscReply(Client) \/ DiscTimeout(Client) \/ AckTimeout(Client)
  BY <1>2, <1>6, <1>9 DEF Skip, DiscReply, DiscTimeout, AckTimeout, helperVars
<1> QED
  BY <1>4, <1>5, <1>7, <1>8, <1>9 DEF HelperStep

LEMMA PipeMoves ==
  ASSUME FaultFree, TypeInv, TypeInv', PipeInv', [Next]_vars
  PROVE  PipeMove
<1>1. CASE (UartByte \/ UartTx \/ ConTask \/ ConSendFails \/ RxTask) /\ UNCHANGED helperVars
  BY <1>1, FirmwareMoves
<1>2. CASE UNCHANGED <<firmwareVars, helperVars>> \/ UNCHANGED vars
  BY <1>2 DEF vars, firmwareVars, usartVars, helperVars, PipeMove
<1>3. CASE \E h \in Helper : HelperStep(h) \/ (UNCHANGED firmwareVars
             /\ (Start(h) \/ CanError(h) \/ StdinRead(h) \/ StdinEof(h)))
  <2>1. HelperStep(Client) => UNCHANGED firmwareVars
    BY DEF HelperStep
  <2> QED
    BY <1>3, <2>1, HelperMoves, OneClient
<1> QED
  BY <1>1, <1>2, <1>3 DEF Next

(* Without faults, with every party in time and with one process at one
   address, the console is a pipe: the bytes that serial_recv's buffer takes
   come out at the process in order, none lost and none repeated, until the
   process ends. *)
THEOREM ConsoleIsPipe ==
  ASSUME FaultFree
  PROVE  Spec => PipeSpec
<1> DEFINE Inv == TypeInv /\ OnePlace /\ PipeInv
<1>1. Init => Inv
  BY InitType, OnePlaceInit, PipeInvInit
<1>2. Inv /\ [Next]_vars => Inv'
  BY TypeStep, OnePlaceStep, PipeInvStep
<1>3. Init => Pipe!Init
  BY OneClient DEF Init, FirmwareInit, HelperInit, Pipe!Init
<1>4. Inv /\ Inv' /\ [Next]_vars => [Pipe!Next]_<<accepted, out[Client]>>
  <2> SUFFICES ASSUME Inv, Inv', [Next]_vars
               PROVE  [Pipe!Next]_<<accepted, out[Client]>>
    OBVIOUS
  <2>1. PipeMove
    BY PipeMoves
  <2>2. \A s, t : Pipe!IsPrefix(s, t) <=> IsPrefix(s, t)
    BY DEF Pipe!IsPrefix, IsPrefix
  <2>3. CASE UNCHANGED <<accepted, out[Client]>>
    BY <2>3
  <2>4. CASE \E b \in Byte : accepted' = Append(accepted, b) /\ UNCHANGED out
    BY <2>4 DEF Byte, Pipe!Next, Pipe!Enter
  <2>5. CASE /\ UNCHANGED accepted /\ out'[Client] # out[Client]
             /\ IsPrefix(out[Client], out'[Client]) /\ IsPrefix(out'[Client], accepted')
    BY <2>2, <2>5 DEF Pipe!Next, Pipe!Leave
  <2> QED
    BY <2>1, <2>3, <2>4, <2>5 DEF PipeMove
<1> QED
  BY <1>1, <1>2, <1>3, <1>4, PTL DEF Spec, PipeSpec, Pipe!Spec
==============================================================================
