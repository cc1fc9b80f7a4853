------------------------- MODULE StreamBuffer_proofs -------------------------
(***************************************************************************)
(* Proofs about the ring of a stream or message buffer, for every size,    *)
(* trigger level and contents: what is written is what is read, in order,  *)
(* and a message goes in whole or not at all.                              *)
(***************************************************************************)
EXTENDS StreamBuffer, SequenceTheorems, TLAPS

LEMMA ModUp ==
  ASSUME NEW n \in Nat \ {0}, NEW a \in 0..(2 * n - 1)
  PROVE  a % n = IF a < n THEN a ELSE a - n
OBVIOUS
LEMMA ModDown ==
  ASSUME NEW n \in Nat \ {0}, NEW a \in (1 - n)..(n - 1)
  PROVE  a % n = IF a < 0 THEN a + n ELSE a
OBVIOUS
(* k has the buffers of StreamId, each a ring of its size. *)
Rings(k) ==
  /\ "stream" \in DOMAIN k
  /\ k = [f \in DOMAIN k |-> k[f]]
  /\ k.stream = [s \in StreamId |-> k.stream[s]]
  /\ \A s \in StreamId : k.stream[s] \in StreamBuffer_t(s)
LEMMA RoomAndBytes ==
  ASSUME NEW k, Rings(k), NEW s \in StreamId
  PROVE  /\ prvBytesInBuffer(k, s) \in 0..Size[s]
         /\ xStreamBufferSpacesAvailable(k, s) \in 0..Size[s]
         /\ prvBytesInBuffer(k, s) + xStreamBufferSpacesAvailable(k, s) = Size[s]
<1>1. /\ Size[s] \in Nat \ {0}
      /\ k.stream[s].head \in 0..Size[s] /\ k.stream[s].tail \in 0..Size[s]
  BY StreamAssumption DEF Rings, StreamBuffer_t, Slot
<1> QED
  BY <1>1 DEF prvBytesInBuffer, xStreamBufferSpacesAvailable, xLength
(* The positions of what is in the ring, and of the room behind it. *)
LEMMA BytesSpan ==
  ASSUME NEW k, Rings(k), NEW s \in StreamId
  PROVE  LET r == k.stream[s]
             n == prvBytesInBuffer(k, s)
         IN  /\ r.head = IF r.tail + n < xLength(s) THEN r.tail + n
                         ELSE r.tail + n - xLength(s)
             /\ xLength(s) = n + xStreamBufferSpacesAvailable(k, s) + 1
<1>1. /\ Size[s] \in Nat \ {0}
      /\ k.stream[s].head \in 0..Size[s] /\ k.stream[s].tail \in 0..Size[s]
  BY StreamAssumption DEF Rings, StreamBuffer_t, Slot
<1> QED
  BY <1>1, RoomAndBytes DEF prvBytesInBuffer, xStreamBufferSpacesAvailable, xLength
(* One ring changes at the head: its new record. *)
LEMMA WriteRecord ==
  ASSUME NEW k, Rings(k), NEW s \in StreamId, NEW data \in Seq(Nat),
         Len(data) <= xStreamBufferSpacesAvailable(k, s),
         NEW w, w = prvWriteBytesToBuffer(k, s, data), NEW r, r = k.stream[s]
  PROVE  /\ Rings(w)
         /\ w.stream[s].tail = r.tail
         /\ w.stream[s].head = IF r.head + Len(data) >= xLength(s)
                               THEN r.head + Len(data) - xLength(s)
                               ELSE r.head + Len(data)
         /\ \A i \in Slot(s) :
              w.stream[s].buf[i] = IF (i - r.head) % xLength(s) < Len(data)
                                   THEN data[((i - r.head) % xLength(s)) + 1] ELSE r.buf[i]
         /\ \A t \in StreamId \ {s} : w.stream[t] = k.stream[t]
<1> DEFINE next == r.head + Len(data)
           head == IF next >= xLength(s) THEN next - xLength(s) ELSE next
           buf == [i \in Slot(s) |->
                     IF (i - r.head) % xLength(s) < Len(data)
                     THEN data[((i - r.head) % xLength(s)) + 1] ELSE r.buf[i]]
           q == [r EXCEPT !.buf = buf, !.head = head]
<1>1. /\ Size[s] \in Nat \ {0} /\ xLength(s) = Size[s] + 1
      /\ r \in StreamBuffer_t(s)
      /\ r.head \in 0..Size[s] /\ r.tail \in 0..Size[s]
      /\ r.buf \in [Slot(s) -> Nat]
  BY StreamAssumption DEF Rings, StreamBuffer_t, Slot, xLength
<1>2. Len(data) \in 0..Size[s]
  BY RoomAndBytes
<1>3. head \in Slot(s)
  <2>1. r.head \in Int /\ Len(data) \in Int /\ Size[s] \in Int
    BY <1>1, <1>2
  <2> QED
    BY <1>1, <1>2, <2>1 DEF Slot
<1>4. buf \in [Slot(s) -> Nat]
  <2>1. ASSUME NEW i \in Slot(s), (i - r.head) % xLength(s) < Len(data)
        PROVE  data[((i - r.head) % xLength(s)) + 1] \in Nat
    <3>1. (i - r.head) % xLength(s) \in Nat
            <4>1. xLength(s) \in Nat \ {0} /\ i - r.head \in (1 - xLength(s))..(xLength(s) - 1)
        <5>1. i \in 0..Size[s]
          BY DEF Slot
        <5> QED
          BY <1>1, <5>1, SMTT(40)
      <4> DEFINE a == i - r.head
                 n == xLength(s)
      <4>2. a % n = IF a < 0 THEN a + n ELSE a
        BY <4>1, ModDown
      <4> QED
        BY <4>1, <4>2
    <3>2. ((i - r.head) % xLength(s)) + 1 \in 1..Len(data)
      BY <2>1, <3>1
    <3> QED
      BY <3>2
  <2> QED
    BY <1>1, <2>1
<1>5. q \in StreamBuffer_t(s) /\ q.tail = r.tail /\ q.head = head /\ q.buf = buf
  BY <1>1, <1>3, <1>4 DEF StreamBuffer_t
<1>6. w.stream = [k.stream EXCEPT ![s] = q]
  BY DEF Rings, prvWriteBytesToBuffer
<1>7. w = [k EXCEPT !.stream = w.stream]
  BY <1>6 DEF Rings, prvWriteBytesToBuffer
<1>8. /\ w.stream[s] = q /\ \A t \in StreamId \ {s} : w.stream[t] = k.stream[t]
      /\ w.stream = [t \in StreamId |-> w.stream[t]]
  BY <1>6 DEF Rings
<1> HIDE DEF q
<1>9. Rings(w)
  BY <1>5, <1>7, <1>8 DEF Rings
<1>10. \A i \in Slot(s) : buf[i] = IF (i - r.head) % xLength(s) < Len(data)
                                  THEN data[((i - r.head) % xLength(s)) + 1] ELSE r.buf[i]
  OBVIOUS
<1> HIDE DEF buf
<1>11. Rings(w) /\ w.stream[s].tail = r.tail /\ w.stream[s].head = head
  BY <1>5, <1>8, <1>9
<1>12. \A t \in StreamId \ {s} : w.stream[t] = k.stream[t]
  BY <1>8
<1>13. w.stream[s].buf = buf
  BY <1>5, <1>8
<1>14. \A i \in Slot(s) : w.stream[s].buf[i] = 
            IF (i - r.head) % xLength(s) < Len(data)
             THEN data[((i - r.head) % xLength(s)) + 1] ELSE r.buf[i]
  BY <1>10, <1>13
<1>15. w.stream[s].head = IF r.head + Len(data) >= xLength(s)
                               THEN r.head + Len(data) - xLength(s)
                               ELSE r.head + Len(data)
  <2>1. r.head \in Int /\ Len(data) \in Int /\ xLength(s) \in Int
    BY <1>1, <1>2
  <2> QED
    BY <1>11, <2>1
<1>16. Rings(w) /\ w.stream[s].tail = r.tail
  BY <1>11
<1> HIDE DEF next, head
<1> QED
  BY <1>16, <1>12, <1>14, <1>15

(* Where the i-th position from the tail lies, seen from the head. *)
LEMMA FromTheHead ==
  ASSUME NEW k, Rings(k), NEW s \in StreamId, NEW r, r = k.stream[s],
         NEW n, n = prvBytesInBuffer(k, s), NEW i \in 1..xLength(s)
  PROVE  LET p == (r.tail + i - 1) % xLength(s)
         IN  /\ p \in Slot(s)
             /\ (p - r.head) % xLength(s) = IF i <= n THEN xLength(s) - n + i - 1 ELSE i - n - 1
<1> DEFINE L == xLength(s)
           p == (r.tail + i - 1) % L
<1>1. /\ L = Size[s] + 1 /\ L \in Nat \ {0} /\ Slot(s) = 0..(L - 1)
      /\ r.head \in 0..(L - 1) /\ r.tail \in 0..(L - 1)
  BY StreamAssumption DEF Rings, StreamBuffer_t, Slot, xLength
<1>2. /\ n \in 0..(L - 1)
      /\ r.head = IF r.tail + n < L THEN r.tail + n ELSE r.tail + n - L
  BY <1>1, RoomAndBytes, BytesSpan
<1> HIDE DEF L
<1>3. p = IF r.tail + i - 1 < L THEN r.tail + i - 1 ELSE r.tail + i - 1 - L
  <2> DEFINE a == r.tail + i - 1
  <2>1. i \in 1..L
    BY DEF L
  <2>2. a \in 0..(2 * L - 1)
    BY <1>1, <2>1
  <2>3. a % L = IF a < L THEN a ELSE a - L
    BY <1>1, <2>2, ModUp
  <2> QED
    BY <1>1, <2>1, <2>3
<1>4. p \in 0..(L - 1)
  <2>1. i \in 1..L
    BY DEF L
  <2> HIDE DEF p
  <2> QED
    BY <1>1, <1>3, <2>1, SMTT(40)
<1> HIDE DEF p
<1>5. (p - r.head) % L = IF p - r.head < 0 THEN p - r.head + L ELSE p - r.head
  <2> DEFINE a == p - r.head
  <2>1. a \in (1 - L)..(L - 1)
    BY <1>1, <1>4
  <2>2. a % L = IF a < 0 THEN a + L ELSE a
    BY <1>1, <2>1, ModDown
  <2> QED
    BY <1>1, <1>4, <2>2
<1>6. (p - r.head) % L = IF i <= n THEN L - n + i - 1 ELSE i - n - 1
  <2>1. i \in 1..L
    BY DEF L
  <2> DEFINE h == r.head
             t == r.tail
             x == (p - h) % L
  <2>2. /\ h \in 0..(L - 1) /\ t \in 0..(L - 1)
        /\ h = IF t + n < L THEN t + n ELSE t + n - L
        /\ p = IF t + i - 1 < L THEN t + i - 1 ELSE t + i - 1 - L
        /\ x = IF p - h < 0 THEN p - h + L ELSE p - h
    BY <1>1, <1>2, <1>3, <1>5
  <2>3. L \in Nat \ {0} /\ n \in 0..(L - 1)
    BY <1>1, <1>2
  <2> HIDE DEF h, t, x
  <2>4. x = IF i <= n THEN L - n + i - 1 ELSE i - n - 1
    BY <2>1, <2>2, <2>3
  <2> QED
    BY <2>4 DEF x, h
<1> QED
  BY <1>1, <1>4, <1>6 DEF p, L

LEMMA BufferedIsSeq ==
  ASSUME NEW k, Rings(k), NEW s \in StreamId
  PROVE  /\ Buffered(k, s) \in Seq(Nat)
         /\ Len(Buffered(k, s)) = prvBytesInBuffer(k, s)
<1> DEFINE n == prvBytesInBuffer(k, s)
           r == k.stream[s]
<1>1. n \in 0..Size[s] /\ r.buf \in [Slot(s) -> Nat]
  BY RoomAndBytes DEF Rings, StreamBuffer_t
<1>2. \A i \in 1..n : (r.tail + i - 1) % xLength(s) \in Slot(s)
  <2>1. Size[s] \in Nat /\ xLength(s) = Size[s] + 1
    BY StreamAssumption DEF xLength
  <2>2. \A i \in 1..n : i \in 1..xLength(s)
    BY <1>1, <2>1
  <2> QED
    BY <2>2, FromTheHead
<1> QED
  BY <1>1, <1>2 DEF Buffered

(* Writing what there is room for appends it, in order. *)
LEMMA WriteAppends ==
  ASSUME NEW k, Rings(k), NEW s \in StreamId, NEW data \in Seq(Nat),
         Len(data) <= xStreamBufferSpacesAvailable(k, s),
         NEW w, w = prvWriteBytesToBuffer(k, s, data)
  PROVE  /\ Rings(w)
         /\ prvBytesInBuffer(w, s) = prvBytesInBuffer(k, s) + Len(data)
         /\ Buffered(w, s) = Buffered(k, s) \o data
<1> DEFINE L == xLength(s)
           r == k.stream[s]
           q == w.stream[s]
           n == prvBytesInBuffer(k, s)
           m == prvBytesInBuffer(w, s)
           d == Len(data)
           at(i) == (r.tail + i - 1) % L
<1>1. /\ L \in Nat \ {0} /\ Slot(s) = 0..(L - 1)
      /\ r.head \in 0..(L - 1) /\ r.tail \in 0..(L - 1)
  BY StreamAssumption DEF Rings, StreamBuffer_t, Slot, xLength
<1>2. /\ n \in 0..(L - 1) /\ d \in 0..(L - 1 - n)
      /\ r.head = IF r.tail + n < L THEN r.tail + n ELSE r.tail + n - L
  <2>1. n \in Nat /\ xStreamBufferSpacesAvailable(k, s) = L - 1 - n
    BY <1>1, RoomAndBytes, BytesSpan
  <2>2. d \in Nat /\ d <= L - 1 - n
    BY <2>1
  <2> HIDE DEF d, n, L, r
  <2> QED
    BY <1>1, <2>1, <2>2, BytesSpan, RoomAndBytes DEF n, L, r
<1>3. /\ Rings(w) /\ q.tail = r.tail
      /\ q.head = IF r.head + d >= L THEN r.head + d - L ELSE r.head + d
      /\ \A i \in Slot(s) : q.buf[i] = IF (i - r.head) % L < d
                                      THEN data[((i - r.head) % L) + 1] ELSE r.buf[i]
  BY WriteRecord
<1>4. m = n + d
  <2>1. q.head \in 0..(L - 1) /\ q.tail \in 0..(L - 1)
    BY <1>1, <1>3 DEF Rings, StreamBuffer_t
  <2>2. m = IF L + q.head - q.tail >= L THEN L + q.head - q.tail - L ELSE L + q.head - q.tail
    BY <1>1, <2>1 DEF prvBytesInBuffer
  <2>3. /\ q.tail = r.tail
        /\ q.head = IF r.head + d >= L THEN r.head + d - L ELSE r.head + d
    BY <1>3
  <2> DEFINE h == r.head
             t == r.tail
             g == q.head
  <2>4. /\ h \in 0..(L - 1) /\ t \in 0..(L - 1) /\ g \in 0..(L - 1)
        /\ h = IF t + n < L THEN t + n ELSE t + n - L
    BY <1>1, <1>2, <2>1
  <2>5. g = IF h + d >= L THEN h + d - L ELSE h + d
    BY <1>1, <1>2, <2>3, <2>4
  <2>6. m = IF L + g - t >= L THEN L + g - t - L ELSE L + g - t
    BY <2>2, <2>3, <2>4, <1>1
  <2>7. L \in Nat \ {0} /\ n \in 0..(L - 1) /\ d \in 0..(L - 1 - n)
    BY <1>1, <1>2
  <2> HIDE DEF d, n, L, m, h, t, g
  <2> QED
    BY <2>4, <2>5, <2>6, <2>7
<1>5. ASSUME NEW i \in 1..L
      PROVE  at(i) \in Slot(s)
             /\ (at(i) - r.head) % L = IF i <= n THEN L - n + i - 1 ELSE i - n - 1
  BY FromTheHead
<1>6. ASSUME NEW i \in 1..(n + d)
      PROVE  q.buf[at(i)] = IF i <= n THEN r.buf[at(i)] ELSE data[i - n]
  <2>1. i \in 1..L
    <3> HIDE DEF d, n, L
    <3> QED
      BY <1>1, <1>2
  <2>2. (at(i) - r.head) % L = IF i <= n THEN L - n + i - 1 ELSE i - n - 1
    BY <1>5, <2>1
  <2>3. q.buf[at(i)] = IF (at(i) - r.head) % L < d
                       THEN data[((at(i) - r.head) % L) + 1] ELSE r.buf[at(i)]
    BY <1>3, <1>5, <2>1
  <2> HIDE DEF d, n, L, r, q, at
  <2>4. CASE i <= n
    BY <1>1, <1>2, <2>1, <2>2, <2>3, <2>4
  <2>5. CASE i > n
    <3>1. (at(i) - r.head) % L = i - n - 1 /\ i - n - 1 < d /\ i - n - 1 + 1 = i - n
      BY <1>1, <1>2, <2>1, <2>2, <2>5
    <3> QED
      BY <1>2, <2>1, <2>3, <2>5, <3>1
  <2> QED
    BY <1>2, <2>1, <2>4, <2>5
<1>7. /\ Buffered(k, s) = [i \in 1..n |-> r.buf[at(i)]]
      /\ Buffered(w, s) = [i \in 1..(n + d) |-> q.buf[at(i)]]
  BY <1>3, <1>4 DEF Buffered
<1>8. Buffered(k, s) \in Seq(Nat) /\ Len(Buffered(k, s)) = n
  BY BufferedIsSeq
<1>9. Buffered(w, s) \in Seq(Nat) /\ Len(Buffered(w, s)) = n + d
  BY <1>3, <1>4, BufferedIsSeq
<1>10. ASSUME NEW i \in 1..(n + d)
       PROVE  Buffered(w, s)[i] = (Buffered(k, s) \o data)[i]
  <2>1. Buffered(w, s)[i] = IF i <= n THEN r.buf[at(i)] ELSE data[i - n]
    BY <1>6, <1>7
  <2>2. CASE i <= n
    <3>1. i \in 1..n
      BY <1>2, <2>2
    <3>2. Buffered(k, s)[i] = r.buf[at(i)]
      BY <1>7, <3>1
    <3> HIDE DEF n, d, r, at
    <3> QED
      BY <1>2, <1>8, <2>1, <2>2, <3>1, <3>2
  <2>3. CASE i > n
    <3> HIDE DEF n, r, at
    <3> QED
      BY <1>2, <1>8, <2>1, <2>3
  <2>4. i <= n \/ i > n
    BY <1>1, <1>2
  <2> QED
    BY <2>2, <2>3, <2>4
<1>11. /\ Buffered(k, s) \o data \in Seq(Nat)
       /\ Len(Buffered(k, s) \o data) = n + d
  BY <1>8, SMTT(40)
<1> HIDE DEF n, d, m, L, r, q, at
<1> QED
  <2>1. Buffered(w, s) = [i \in 1..(n + d) |-> Buffered(w, s)[i]]
    BY <1>9
  <2>2. Buffered(k, s) \o data = [i \in 1..(n + d) |-> (Buffered(k, s) \o data)[i]]
    <3> DEFINE c == Buffered(k, s) \o data
    <3>1. c \in Seq(Nat) /\ Len(c) = n + d
      BY <1>11
    <3> HIDE DEF c
    <3>2. c = [i \in 1..(n + d) |-> c[i]]
      BY <3>1
    <3> QED
      BY <3>2 DEF c
  <2>3. Buffered(w, s) = Buffered(k, s) \o data
    BY <1>10, <2>1, <2>2
  <2> QED
    BY <1>3, <1>4, <2>3 DEF m, n, d

(* Reading takes the oldest bytes, in order, and leaves the others. *)
LEMMA ReadMovesTail ==
  ASSUME NEW k, Rings(k), NEW s \in StreamId, NEW n \in Nat, NEW available \in Nat,
         n <= available, n <= prvBytesInBuffer(k, s),
         NEW w, w = prvReadBytesFromBuffer(k, s, n, available).k
  PROVE  /\ Rings(w)
         /\ prvReadBytesFromBuffer(k, s, n, available).ret = SubSeq(Buffered(k, s), 1, n)
         /\ Buffered(w, s) = SubSeq(Buffered(k, s), n + 1, Len(Buffered(k, s)))
<1> DEFINE L == xLength(s)
           r == k.stream[s]
           q == w.stream[s]
           b == prvBytesInBuffer(k, s)
           tail == IF r.tail + n >= L THEN r.tail + n - L ELSE r.tail + n
           at(i) == (r.tail + i - 1) % L
<1>1. /\ L \in Nat \ {0} /\ Slot(s) = 0..(L - 1)
      /\ r.head \in 0..(L - 1) /\ r.tail \in 0..(L - 1)
      /\ r \in StreamBuffer_t(s) /\ r.buf \in [Slot(s) -> Nat]
  BY StreamAssumption DEF Rings, StreamBuffer_t, Slot, xLength
<1>2. /\ b \in 0..(L - 1) /\ n \in 0..b
      /\ r.head = IF r.tail + b < L THEN r.tail + b ELSE r.tail + b - L
  <2>1. b \in Nat /\ b <= L - 1
    BY <1>1, RoomAndBytes DEF xLength
  <2>2. n \in Nat /\ n <= b
    OBVIOUS
  <2> HIDE DEF b, L, r
  <2> QED
    BY <1>1, <2>1, <2>2, BytesSpan DEF b, L, r
<1>3. tail \in Slot(s)
  <2> DEFINE t == r.tail
  <2>1. t \in 0..(L - 1) /\ tail = IF t + n >= L THEN t + n - L ELSE t + n
    BY <1>1
  <2>2. n \in 0..(L - 1) /\ Slot(s) = 0..(L - 1) /\ L \in Nat
    <3> HIDE DEF b, L, r
    <3> QED
      BY <1>1, <1>2
  <2> HIDE DEF t, tail, b, L, r
  <2> QED
    BY <2>1, <2>2
<1>4. w = [k EXCEPT !.stream[s].tail = tail]
  <2>1. w = [k EXCEPT !.stream[s].tail =
               IF r.tail + n >= L THEN r.tail + n - L ELSE r.tail + n]
    <3>1. r.tail \in Int /\ n \in Int /\ L \in Int
      BY <1>1, <1>2
    <3> QED
      BY <3>1 DEF prvReadBytesFromBuffer
  <2> QED
    BY <2>1
<1>5. q = [r EXCEPT !.tail = tail] /\ \A t \in StreamId \ {s} : w.stream[t] = k.stream[t]
  BY <1>4 DEF Rings
<1>6. q \in StreamBuffer_t(s) /\ q.tail = tail /\ q.head = r.head /\ q.buf = r.buf
  BY <1>1, <1>3, <1>5 DEF StreamBuffer_t
<1>7. w.stream = [t \in StreamId |-> w.stream[t]] /\ w = [f \in DOMAIN w |-> w[f]]
      /\ "stream" \in DOMAIN w
  BY <1>4 DEF Rings
<1>8. Rings(w)
  BY <1>5, <1>6, <1>7 DEF Rings
<1>0. prvBytesInBuffer(w, s) = IF L + q.head - q.tail >= L
                               THEN L + q.head - q.tail - L ELSE L + q.head - q.tail
  <2>1. q.head \in 0..(L - 1) /\ q.tail \in 0..(L - 1) /\ L \in Int
    BY <1>1, <1>3, <1>6
  <2> QED
    BY <2>1 DEF prvBytesInBuffer
<1>9. prvBytesInBuffer(w, s) = b - n
  <2> DEFINE h == r.head
             t == r.tail
             g == q.tail
             m == prvBytesInBuffer(w, s)
  <2>1. /\ h \in 0..(L - 1) /\ t \in 0..(L - 1) /\ g \in 0..(L - 1)
        /\ h = IF t + b < L THEN t + b ELSE t + b - L
    BY <1>1, <1>2, <1>3, <1>6
  <2>2. g = IF t + n >= L THEN t + n - L ELSE t + n
    BY <1>6
  <2>3. m = IF L + h - g >= L THEN L + h - g - L ELSE L + h - g
    <3>1. q.head = h /\ q.tail = g
      BY <1>6
    <3> HIDE DEF h, g
    <3> QED
      BY <1>0, <1>1, <2>1, <3>1
  <2>4. L \in Nat \ {0} /\ n \in 0..b /\ b \in 0..(L - 1)
    BY <1>1, <1>2
  <2> HIDE DEF b, L, m, h, t, g
  <2>5. m = b - n
    BY <2>1, <2>2, <2>3, <2>4
  <2> QED
    BY <2>5 DEF m
<1>10. /\ Buffered(k, s) \in Seq(Nat) /\ Len(Buffered(k, s)) = b
       /\ Buffered(w, s) \in Seq(Nat) /\ Len(Buffered(w, s)) = b - n
  BY <1>8, <1>9, BufferedIsSeq
<1>11. /\ Buffered(k, s) = [i \in 1..b |-> r.buf[at(i)]]
       /\ Buffered(w, s) = [i \in 1..(b - n) |-> r.buf[(tail + i - 1) % L]]
  BY <1>6, <1>9 DEF Buffered
<1>12. ASSUME NEW i \in 1..(b - n)
       PROVE  (tail + i - 1) % L = at(n + i)
  <2> DEFINE t == r.tail
             u == tail + i - 1
             v == t + (n + i) - 1
  <2>1. L \in Nat \ {0} /\ n \in 0..b /\ b \in 0..(L - 1) /\ t \in 0..(L - 1)
        /\ i \in 1..(b - n)
    BY <1>1, <1>2
  <2>2. tail = IF t + n >= L THEN t + n - L ELSE t + n
    OBVIOUS
  <2> HIDE DEF b, L, t, tail
  <2>3. u \in 0..(2 * L - 1) /\ v \in 0..(2 * L - 1)
    BY <2>1, <2>2
  <2> HIDE DEF u, v
  <2>4. u % L = IF u < L THEN u ELSE u - L
    BY <2>1, <2>3, ModUp
  <2>5. v % L = IF v < L THEN v ELSE v - L
    BY <2>1, <2>3, ModUp
  <2>6. (IF u < L THEN u ELSE u - L) = IF v < L THEN v ELSE v - L
    BY <2>1, <2>2 DEF u, v
  <2> QED
    BY <2>4, <2>5, <2>6 DEF u, v, t
<1>13. Buffered(w, s) = SubSeq(Buffered(k, s), n + 1, Len(Buffered(k, s)))
  <2> DEFINE c == Buffered(k, s)
  <2>1. c \in Seq(Nat) /\ Len(c) = b /\ \A i \in 1..b : c[i] = r.buf[at(i)]
    BY <1>10, <1>11
  <2>2. \A i \in 1..(b - n) : Buffered(w, s)[i] = c[n + i]
    <3>1. ASSUME NEW i \in 1..(b - n) PROVE Buffered(w, s)[i] = c[n + i]
      <4>1. n + i \in 1..b
        <5> HIDE DEF b, L
        <5> QED
          BY <1>2
      <4>2. Buffered(w, s)[i] = r.buf[(tail + i - 1) % L]
        BY <1>11
      <4>3. (tail + i - 1) % L = at(n + i)
        BY <1>12
      <4> HIDE DEF at, tail, c
      <4> QED
        BY <2>1, <4>1, <4>2, <4>3
    <3> QED
      BY <3>1
  <2>3. Buffered(w, s) = [i \in 1..(b - n) |-> c[n + i]]
    BY <1>11, <2>2
  <2> HIDE DEF c, b, L
  <2>4. SubSeq(c, n + 1, Len(c)) = [i \in 1..(b - n) |-> c[n + i]]
    BY <1>2, <2>1
  <2> QED
    BY <2>3, <2>4 DEF c
<1>14. prvReadBytesFromBuffer(k, s, n, available).ret = SubSeq(Buffered(k, s), 1, n)
  <2> DEFINE c == Buffered(k, s)
  <2>1. prvReadBytesFromBuffer(k, s, n, available).ret = [i \in 1..n |-> r.buf[at(i)]]
    BY DEF prvReadBytesFromBuffer
  <2>2. c \in Seq(Nat) /\ Len(c) = b /\ \A i \in 1..b : c[i] = r.buf[at(i)]
    BY <1>10, <1>11
  <2>3. 1..n \subseteq 1..b
    <3> HIDE DEF b, L
    <3> QED
      BY <1>2
  <2>4. [i \in 1..n |-> r.buf[at(i)]] = [i \in 1..n |-> c[i]]
    BY <2>2, <2>3
  <2> HIDE DEF c, b, L
  <2>5. SubSeq(c, 1, n) = [i \in 1..n |-> c[i]]
    BY <1>2, <2>2
  <2> QED
    BY <2>1, <2>4, <2>5 DEF c
<1> QED
  BY <1>8, <1>13, <1>14

LEMMA PrefixIsSeq ==
  ASSUME NEW data \in Seq(Nat), NEW n \in Nat, n <= Len(data)
  PROVE  SubSeq(data, 1, n) \in Seq(Nat) /\ Len(SubSeq(data, 1, n)) = n
<1>1. SubSeq(data, 1, n) = [i \in 1..n |-> data[i]]
  OBVIOUS
<1>2. \A i \in 1..n : data[i] \in Nat
  OBVIOUS
<1>3. [i \in 1..n |-> data[i]] \in [1..n -> Nat]
  BY <1>2
<1> QED
  BY <1>1, <1>3

(* The same, without a name for what is left. *)
LEMMA ReadTakes ==
  ASSUME NEW k, Rings(k), NEW s \in StreamId, NEW n \in Nat, NEW available \in Nat,
         n <= available, n <= prvBytesInBuffer(k, s)
  PROVE  /\ Rings(prvReadBytesFromBuffer(k, s, n, available).k)
         /\ prvReadBytesFromBuffer(k, s, n, available).ret
              = SubSeq(Buffered(k, s), 1, n)
         /\ Buffered(prvReadBytesFromBuffer(k, s, n, available).k, s)
              = SubSeq(Buffered(k, s), n + 1, Len(Buffered(k, s)))
BY ReadMovesTail

LEMMA MinOfTwo ==
  ASSUME NEW a \in Nat, NEW b \in Nat
  PROVE  Min({a, b}) = IF a <= b THEN a ELSE b
<1>1. \E x \in {a, b} : \A y \in {a, b} : x <= y
  OBVIOUS
<1> QED
  BY <1>1 DEF Min

----------------------------------------------------------------------------
(* What a call puts into a stream is as much of the data as there is room
   for, behind what was there before, whatever the size of the ring and
   wherever it wraps (prvWriteMessageToBuffer). *)
THEOREM StreamTakesPrefix ==
  ASSUME NEW k, Rings(k), NEW s \in StreamId \ MessageBuffer, NEW data \in Seq(Nat),
         NEW n, n = Min({Len(data), xStreamBufferSpacesAvailable(k, s)}),
         NEW out, out = prvWriteMessageToBuffer(k, s, data, xStreamBufferSpacesAvailable(k, s))
  PROVE  /\ Rings(out.k) /\ out.ret = n
         /\ Buffered(out.k, s) = Buffered(k, s) \o SubSeq(data, 1, n)
<1> DEFINE space == xStreamBufferSpacesAvailable(k, s)
           d == SubSeq(data, 1, n)
<1>1. space \in Nat /\ Len(data) \in Nat
  BY RoomAndBytes
<1>2. n \in Nat /\ n <= space /\ n <= Len(data)
  <2> HIDE DEF space
  <2>1. n = Min({Len(data), space})
    BY DEF space
  <2> QED
    BY <1>1, <2>1, MinOfTwo
<1>3. d \in Seq(Nat) /\ Len(d) = n
  <2> HIDE DEF space
  <2> QED
    BY <1>1, <1>2, PrefixIsSeq
<1>4. Admitted(s, data, space) = d
  BY DEF Admitted
<1>5. CASE d = <<>>
  <2>1. out.k = k /\ out.ret = 0
    BY <1>4, <1>5 DEF prvWriteMessageToBuffer
  <2>2. n = 0 /\ Buffered(k, s) \o d = Buffered(k, s)
    <3>1. Buffered(k, s) \in Seq(Nat)
      BY BufferedIsSeq
    <3> QED
      BY <1>3, <1>5, <3>1, ConcatEmptySeq, EmptySeq
  <2> QED
    BY <2>1, <2>2
<1>6. CASE d # <<>>
  <2>1. out.k = prvWriteBytesToBuffer(k, s, d) /\ out.ret = Len(d)
    BY <1>4, <1>6 DEF prvWriteMessageToBuffer
  <2>2. Len(d) <= space
    BY <1>2, <1>3
  <2> HIDE DEF d
  <2>3. Rings(out.k) /\ Buffered(out.k, s) = Buffered(k, s) \o d
    BY <1>3, <2>1, <2>2, WriteAppends, ZenonT(60)
  <2> QED
    BY <1>3, <2>1, <2>3 DEF d
<1> QED
  BY <1>5, <1>6

(* A message goes into a message buffer whole and behind its length, or not
   at all (prvWriteMessageToBuffer). *)
THEOREM MessageGoesInWhole ==
  ASSUME NEW k, Rings(k), NEW s \in MessageBuffer, NEW data \in Seq(Nat), data # <<>>,
         NEW out, out = prvWriteMessageToBuffer(k, s, data, xStreamBufferSpacesAvailable(k, s))
  PROVE  IF Len(data) + 1 <= xStreamBufferSpacesAvailable(k, s)
         THEN /\ Rings(out.k) /\ out.ret = Len(data)
              /\ Buffered(out.k, s) = (Buffered(k, s) \o <<Len(data)>>) \o data
         ELSE out.k = k /\ out.ret = 0
<1> DEFINE space == xStreamBufferSpacesAvailable(k, s)
           n == Len(data)
<1>1. s \in StreamId /\ LengthBytes(s) = 1
  BY StreamAssumption DEF LengthBytes
<1>2. space \in Nat /\ n \in Nat \ {0}
  BY <1>1, RoomAndBytes
<1>3. CASE n + 1 <= space
  <2>1. Admitted(s, data, space) = data
    <3>1. Min({n, space}) = n
      <4> HIDE DEF n, space
      <4> QED
        BY <1>2, <1>3, MinOfTwo
    <3>2. ~(space < n + 1)
      BY <1>2, <1>3
    <3>3. SubSeq(data, 1, n) = data
      OBVIOUS
    <3> QED
      BY <1>1, <3>1, <3>2, <3>3 DEF Admitted
  <2> DEFINE l == prvWriteLength(k, s, n)
  <2>2. out.k = prvWriteBytesToBuffer(l, s, data) /\ out.ret = n
    BY <2>1 DEF prvWriteMessageToBuffer
  <2>3. <<n>> \in Seq(Nat) /\ Len(<<n>>) = 1
    BY <1>2
  <2>4. /\ Rings(l) /\ prvBytesInBuffer(l, s) = prvBytesInBuffer(k, s) + 1
        /\ Buffered(l, s) = Buffered(k, s) \o <<n>>
    <3>1. Len(<<n>>) <= space
      BY <1>2, <1>3, <2>3
    <3> QED
      BY <1>1, <2>3, <3>1, WriteAppends DEF prvWriteLength
  <2>5. Len(data) <= xStreamBufferSpacesAvailable(l, s)
    <3>1. /\ xStreamBufferSpacesAvailable(l, s) = Size[s] - prvBytesInBuffer(l, s)
          /\ space = Size[s] - prvBytesInBuffer(k, s)
          /\ prvBytesInBuffer(k, s) \in Nat /\ Size[s] \in Nat
      <4> HIDE DEF l
      <4> QED
        BY <1>1, <2>4, RoomAndBytes, StreamAssumption
    <3> HIDE DEF l, space
    <3> QED
      BY <1>2, <1>3, <2>4, <3>1
  <2> HIDE DEF l
  <2>6. Rings(out.k) /\ Buffered(out.k, s) = Buffered(l, s) \o data
    BY <1>1, <2>2, <2>4, <2>5, WriteAppends
  <2> QED
    BY <1>3, <2>2, <2>4, <2>6
<1>4. CASE ~(n + 1 <= space)
  <2>1. space < n + 1
    BY <1>2, <1>4
  <2>2. Admitted(s, data, space) = <<>>
    BY <1>1, <2>1 DEF Admitted
  <2>3. out.k = k /\ out.ret = 0
    BY <2>2 DEF prvWriteMessageToBuffer
  <2> QED
    BY <1>4, <2>3
<1> QED
  BY <1>3, <1>4

(* A reader of a message buffer gets the oldest message as it was put in and
   leaves the others; one that does not fit stays where it is
   (prvReadMessageFromBuffer). *)
THEOREM MessageComesOutWhole ==
  ASSUME NEW k, Rings(k), NEW s \in MessageBuffer, NEW max \in Nat,
         NEW data \in Seq(Nat), NEW rest \in Seq(Nat),
         Buffered(k, s) = (<<Len(data)>> \o data) \o rest,
         NEW out, out = prvReadMessageFromBuffer(k, s, max, prvBytesInBuffer(k, s))
  PROVE  IF Len(data) <= max
         THEN Rings(out.k) /\ out.ret = data /\ Buffered(out.k, s) = rest
         ELSE out.k = k /\ out.ret = <<>>
<1> DEFINE b == prvBytesInBuffer(k, s)
           n == Len(data)
           l == prvReadLength(k, s)
<1>1. s \in StreamId /\ LengthBytes(s) = 1
  BY StreamAssumption DEF LengthBytes
<1>2. /\ n \in Nat /\ b = 1 + n + Len(rest) /\ b \in Nat
      /\ Buffered(k, s) \in Seq(Nat) /\ Len(Buffered(k, s)) = b
  <2>1. n \in Nat /\ <<n>> \in Seq(Nat) /\ Len(<<n>>) = 1 /\ Len(rest) \in Nat
    OBVIOUS
  <2>2. <<n>> \o data \in Seq(Nat) /\ Len(<<n>> \o data) = 1 + n
    BY <2>1, ConcatProperties
  <2>3. Len((<<n>> \o data) \o rest) = (1 + n) + Len(rest)
    BY <2>2, ConcatProperties
  <2>4. /\ Buffered(k, s) \in Seq(Nat) /\ b \in Nat
        /\ Len(Buffered(k, s)) = b
    <3>1. /\ Buffered(k, s) \in Seq(Nat)
          /\ Len(Buffered(k, s)) = prvBytesInBuffer(k, s)
      BY <1>1, BufferedIsSeq
    <3>2. prvBytesInBuffer(k, s) \in 0..Size[s] /\ Size[s] \in Nat
      BY <1>1, RoomAndBytes, StreamAssumption
    <3> QED
      BY <3>1, <3>2
  <2> HIDE DEF b
  <2> QED
    BY <2>1, <2>3, <2>4
<1>3. /\ Rings(l.k)
      /\ l.ret = n
      /\ Buffered(l.k, s) = data \o rest
  <2> DEFINE c == Buffered(k, s)
             w == prvReadBytesFromBuffer(k, s, 1, b)
  <2>1. 1 = IF b < 1 THEN b ELSE 1
    BY <1>2
  <2>2. /\ Rings(w.k) /\ w.ret = SubSeq(c, 1, 1)
        /\ Buffered(w.k, s) = SubSeq(c, 2, Len(c))
    <3>1. 1 <= b /\ 1 \in Nat /\ b \in Nat /\ 1 + 1 = 2
      BY <1>2
    <3>2. /\ Rings(w.k) /\ w.ret = SubSeq(c, 1, 1)
          /\ Buffered(w.k, s) = SubSeq(c, 1 + 1, Len(c))
      BY <1>1, <3>1, ReadTakes
    <3> HIDE DEF c, w
    <3> QED
      BY <3>1, <3>2
  <2>3. l.k = w.k /\ l.ret = w.ret[1]
    BY DEF prvReadLength
  <2>4. SubSeq(c, 1, 1)[1] = n /\ SubSeq(c, 2, Len(c)) = data \o rest
    BY <1>2, SMTT(40)
  <2> QED
    BY <2>2, <2>3, <2>4
<1>4. CASE n <= max
  <2> DEFINE w == prvReadBytesFromBuffer(l.k, s, n, b - 1)
  <2>1. out = w
    BY <1>1, <1>2, <1>3, <1>4 DEF prvReadMessageFromBuffer
  <2>2. prvBytesInBuffer(l.k, s) = n + Len(rest)
    <3>1. Len(Buffered(l.k, s)) = prvBytesInBuffer(l.k, s)
      BY <1>1, <1>3, BufferedIsSeq
    <3> QED
      BY <1>3, <3>1
  <2>3. /\ n \in Nat /\ b - 1 \in Nat /\ n <= prvBytesInBuffer(l.k, s)
        /\ n <= b - 1
    BY <1>2, <2>2
  <2>4. /\ Rings(w.k)
        /\ w.ret = SubSeq(data \o rest, 1, n)
        /\ Buffered(w.k, s) = SubSeq(data \o rest, n + 1, Len(data \o rest))
    <3>1. /\ Rings(w.k)
          /\ w.ret = SubSeq(Buffered(l.k, s), 1, n)
          /\ Buffered(w.k, s) = SubSeq(Buffered(l.k, s), n + 1, Len(Buffered(l.k, s)))
      <4>1. Rings(l.k)
        BY <1>3
      <4> HIDE DEF l
      <4> QED
        BY <1>1, <2>3, <4>1, ReadTakes
    <3> HIDE DEF l, w
    <3> QED
      BY <1>3, <3>1
  <2>5. /\ SubSeq(data \o rest, 1, n) = data
        /\ SubSeq(data \o rest, n + 1, Len(data \o rest)) = rest
    OBVIOUS
  <2> QED
    BY <1>4, <2>1, <2>4, <2>5
<1>5. CASE ~(n <= max)
  <2>1. out.k = k /\ out.ret = <<>>
    BY <1>2, <1>3, <1>5 DEF prvReadMessageFromBuffer
  <2> QED
    BY <1>5, <2>1
<1> QED
  BY <1>4, <1>5
=============================================================================
