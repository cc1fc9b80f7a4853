------------------------------ MODULE DataFacts ------------------------------
(***************************************************************************)
(* Facts about data, for the proofs about the modules that compute with    *)
(* it.  Those about sequences of any length are by induction, in the form  *)
(* of the least element of a set of numbers: the hypothesis is then a set, *)
(* and no operator has to be instantiated.                                 *)
(***************************************************************************)
EXTENDS CanMsg, Integers, SequencesExt, WellFoundedInduction, SequenceTheorems, TLAPS

LEMMA LeastNumber ==
  ASSUME NEW T, T \subseteq Nat, T # {}
  PROVE  \E m \in T : \A n \in T : m <= n
<1> DEFINE R == OpToRel(<, Nat)
<1>1. IsWellFoundedOn(R, Nat)
  BY NatLessThanWellFounded
<1>2. \A x \in Nat, y \in Nat : x < y => <<x, y>> \in R
  BY DEF OpToRel
<1> HIDE DEF R
<1>3. PICK m \in T : \A n \in T : ~(<<n, m>> \in R)
  BY <1>1, WFMin
<1>4. ASSUME NEW n \in T PROVE m <= n
  <2>1. m \in Nat /\ n \in Nat
    OBVIOUS
  <2>2. ~(n < m)
    BY <1>2, <1>3, <1>4, <2>1, Zenon
  <2> QED
    BY <2>1, <2>2
<1> QED
  BY <1>4

(* Induction from 1 to N: G is the set of numbers the claim is known for. *)
LEMMA Induction ==
  ASSUME NEW N \in Nat, NEW G, 1 \in G,
         \A n \in 1..(N - 1) : n \in G => n + 1 \in G
  PROVE  \A n \in 1..N : n \in G
<1> DEFINE T == {n \in 1..N : n \notin G}
<1> SUFFICES ASSUME T # {} PROVE FALSE
  OBVIOUS
<1>1. T \subseteq Nat
  OBVIOUS
<1>2. PICK m \in T : \A n \in T : m <= n
  BY <1>1, LeastNumber
<1>3. m \in 1..N /\ m \notin G
  BY <1>2
<1>4. m # 1 /\ m - 1 \in 1..(N - 1)
  BY <1>3
<1>5. m - 1 \notin T
  BY <1>2, <1>3
<1>6. m - 1 \in G
  BY <1>4, <1>5
<1>7. (m - 1) + 1 \in G
  BY <1>4, <1>6
<1> QED
  BY <1>3, <1>7

(***************************************************************************)
(* FlattenSeq appends the sequences one after the other.                   *)
(***************************************************************************)
Appends(seqs, g, n) ==
  /\ g[1] = seqs[1]
  /\ \A i \in 2..n : g[i] = g[i - 1] \o seqs[i]

LEMMA FlattenSteps ==
  ASSUME NEW S, NEW seqs \in Seq(Seq(S)), seqs # <<>>
  PROVE  \E g \in [1..Len(seqs) -> Seq(S)] :
           Appends(seqs, g, Len(seqs)) /\ FlattenSeq(seqs) = g[Len(seqs)]
<1> DEFINE N == Len(seqs)
           G == {n \in 1..N : \E g \in [1..n -> Seq(S)] : Appends(seqs, g, n)}
<1>0. N \in Nat /\ N >= 1 /\ \A i \in 1..N : seqs[i] \in Seq(S)
  OBVIOUS
<1> HIDE DEF N
<1>1. 1 \in G
  <2> DEFINE g == [i \in 1..1 |-> seqs[1]]
  <2>1. g \in [1..1 -> Seq(S)] /\ Appends(seqs, g, 1)
    BY <1>0 DEF Appends
  <2> QED
    BY <1>0, <2>1
<1>2. ASSUME NEW n \in 1..(N - 1), n \in G PROVE n + 1 \in G
  <2>0. n \in 1..N /\ n + 1 \in 1..N /\ n \in Nat
    BY <1>0
  <2>1. PICK g \in [1..n -> Seq(S)] : Appends(seqs, g, n)
    BY <1>2
  <2> DEFINE h == [i \in 1..(n + 1) |-> IF i = n + 1 THEN g[n] \o seqs[n + 1] ELSE g[i]]
  <2>2. g[n] \in Seq(S) /\ seqs[n + 1] \in Seq(S)
    BY <1>0, <2>0
  <2>3. g[n] \o seqs[n + 1] \in Seq(S)
    BY <2>2, ConcatProperties
  <2>4. h \in [1..(n + 1) -> Seq(S)]
    BY <2>0, <2>3
  <2>5. Appends(seqs, h, n + 1)
    <3>1. h[1] = seqs[1]
      BY <2>0, <2>1 DEF Appends
    <3>2. ASSUME NEW i \in 2..(n + 1) PROVE h[i] = h[i - 1] \o seqs[i]
      <4>1. CASE i = n + 1
        <5>1. i - 1 = n /\ n # n + 1 /\ h[n + 1] = g[n] \o seqs[n + 1] /\ h[n] = g[n]
          BY <2>0, <4>1
        <5> QED
          BY <4>1, <5>1
      <4>2. CASE i # n + 1
        <5>1. i \in 2..n /\ i - 1 \in 1..n
          BY <2>0, <4>2
        <5>2. h[i] = g[i] /\ h[i - 1] = g[i - 1]
          BY <2>0, <5>1
        <5> QED
          BY <2>1, <5>1, <5>2 DEF Appends
      <4> QED
        BY <4>1, <4>2
    <3> QED
      BY <3>1, <3>2 DEF Appends
  <2> QED
    BY <2>0, <2>4, <2>5
<1>3. N \in G
  <2> HIDE DEF G
  <2>1. \A n \in 1..N : n \in G
    BY <1>0, <1>1, <1>2, Induction, Zenon
  <2> QED
    BY <1>0, <2>1
<1>4. PICK g \in [1..N -> Seq(S)] : Appends(seqs, g, N)
  BY <1>3
<1> DEFINE F(h) == [i \in 1..N |-> IF i = 1 THEN seqs[i] ELSE h[i - 1] \o seqs[i]]
<1>5. ASSUME NEW i \in 1..N
      PROVE  g[i] = IF i = 1 THEN seqs[i] ELSE g[i - 1] \o seqs[i]
  <2>1. CASE i = 1
    BY <1>4, <2>1 DEF Appends
  <2>2. CASE i # 1
    <3>1. i \in 2..N
      BY <2>2
    <3> QED
      BY <1>4, <2>2, <3>1 DEF Appends
  <2> QED
    BY <2>1, <2>2
<1>6. g = F(g)
  BY <1>5
<1> DEFINE f == CHOOSE h : h = F(h)
<1>7. f = F(f)
  BY <1>6
<1>8. FlattenSeq(seqs) = f[N]
  BY <1>0 DEF FlattenSeq, N
<1> HIDE DEF f
<1>9. f[N] = g[N]
  <2> DEFINE H == {n \in 1..N : f[n] = g[n]}
  <2>1. 1 \in H
    <3>1. 1 \in 1..N
      BY <1>0
    <3>2. f[1] = seqs[1]
      BY <1>7, <3>1
    <3>3. g[1] = seqs[1]
      BY <1>5, <3>1
    <3> QED
      BY <3>1, <3>2, <3>3
  <2>2. ASSUME NEW n \in 1..(N - 1), n \in H PROVE n + 1 \in H
    <3>1. n + 1 \in 1..N /\ n + 1 # 1 /\ (n + 1) - 1 = n
      BY <1>0
    <3>2. f[n + 1] = f[n] \o seqs[n + 1]
      BY <1>7, <3>1
    <3>3. g[n + 1] = g[n] \o seqs[n + 1]
      BY <1>5, <3>1
    <3> QED
      BY <2>2, <3>1, <3>2, <3>3
  <2> HIDE DEF H
  <2>3. \A n \in 1..N : n \in H
    BY <1>0, <2>1, <2>2, Induction, Zenon
  <2> QED
    BY <1>0, <2>3 DEF H
<1> QED
  BY <1>4, <1>8, <1>9 DEF N

(* Every element of the result comes from one of the sequences, and when no
   element occurs twice in them, none does in the result. *)
Origin(seqs, n, s) ==
  \A p \in 1..Len(s) : \E i \in 1..n : \E x \in 1..Len(seqs[i]) : s[p] = seqs[i][x]
NoTwice(s) == \A p, q \in 1..Len(s) : s[p] = s[q] => p = q
NoTwiceAmong(seqs, n) ==
  \A i, j \in 1..n : \A x \in 1..Len(seqs[i]), y \in 1..Len(seqs[j]) :
    seqs[i][x] = seqs[j][y] => i = j /\ x = y

LEMMA FlattenElements ==
  ASSUME NEW S, NEW seqs \in Seq(Seq(S))
  PROVE  /\ FlattenSeq(seqs) \in Seq(S)
         /\ Origin(seqs, Len(seqs), FlattenSeq(seqs))
         /\ NoTwiceAmong(seqs, Len(seqs)) => NoTwice(FlattenSeq(seqs))
<1>1. CASE seqs = <<>>
  <2>1. FlattenSeq(seqs) = <<>>
    BY <1>1 DEF FlattenSeq
  <2>2. Len(seqs) = 0 /\ Len(FlattenSeq(seqs)) = 0 /\ 1..0 = {}
    BY <1>1, <2>1
  <2>3. FlattenSeq(seqs) \in Seq(S)
    BY <2>1
  <2>4. Origin(seqs, Len(seqs), FlattenSeq(seqs))
    BY <2>2 DEF Origin
  <2>5. NoTwice(FlattenSeq(seqs))
    BY <2>2 DEF NoTwice
  <2> QED
    BY <2>3, <2>4, <2>5
<1>2. CASE seqs # <<>>
  <2> DEFINE N == Len(seqs)
  <2>0. N \in Nat /\ N >= 1 /\ \A i \in 1..N : seqs[i] \in Seq(S)
    BY <1>2
  <2>1. PICK g \in [1..N -> Seq(S)] : Appends(seqs, g, N) /\ FlattenSeq(seqs) = g[N]
    BY <1>2, FlattenSteps
  <2> HIDE DEF N
  <2> DEFINE Good(n) == /\ Origin(seqs, n, g[n])
                        /\ NoTwiceAmong(seqs, n) => NoTwice(g[n])
             G == {n \in 1..N : Good(n)}
  <2>2. 1 \in G
    <3>1. 1 \in 1..N /\ g[1] = seqs[1]
      BY <2>0, <2>1 DEF Appends
    <3>2. Origin(seqs, 1, g[1])
      BY <3>1 DEF Origin
    <3>3. NoTwiceAmong(seqs, 1) => NoTwice(g[1])
      BY <3>1 DEF NoTwiceAmong, NoTwice
    <3> QED
      BY <3>1, <3>2, <3>3
  <2>3. ASSUME NEW n \in 1..(N - 1), n \in G PROVE n + 1 \in G
    <3> DEFINE s == g[n]
               t == seqs[n + 1]
               u == g[n + 1]
    <3>0. n \in 1..N /\ n + 1 \in 1..N /\ n \in Nat /\ n + 1 \in 2..N /\ (n + 1) - 1 = n
      BY <2>0
    <3>1. s \in Seq(S) /\ t \in Seq(S)
      BY <2>0, <3>0
    <3>2. u = s \o t
      BY <2>1, <3>0 DEF Appends
    <3>3. Good(n)
      BY <2>3
    <3> HIDE DEF s, t, u
    <3>4. /\ Len(s) \in Nat /\ Len(t) \in Nat /\ Len(u) = Len(s) + Len(t)
          /\ \A p \in 1..Len(u) : u[p] = IF p <= Len(s) THEN s[p] ELSE t[p - Len(s)]
      BY <3>1, <3>2, ConcatProperties, LenProperties
    <3>5. Origin(seqs, n, s) /\ (NoTwiceAmong(seqs, n) => NoTwice(s))
      BY <3>3 DEF s
    <3>6. Origin(seqs, n + 1, u)
      <4> SUFFICES ASSUME NEW p \in 1..Len(u)
                   PROVE  \E i \in 1..(n + 1) : \E x \in 1..Len(seqs[i]) : u[p] = seqs[i][x]
        BY DEF Origin
      <4>1. CASE p <= Len(s)
        <5>1. p \in 1..Len(s) /\ u[p] = s[p]
          BY <3>4, <4>1
        <5>2. PICK i \in 1..n : \E x \in 1..Len(seqs[i]) : s[p] = seqs[i][x]
          BY <3>5, <5>1 DEF Origin
        <5>3. i \in 1..(n + 1)
          BY <3>0
        <5> QED
          BY <5>1, <5>2, <5>3
      <4>2. CASE ~(p <= Len(s))
        <5>1. p - Len(s) \in 1..Len(t) /\ u[p] = t[p - Len(s)] /\ n + 1 \in 1..(n + 1)
          BY <3>0, <3>4, <4>2
        <5> QED
          BY <5>1 DEF t
      <4> QED
        BY <4>1, <4>2
    <3>7. ASSUME NoTwiceAmong(seqs, n + 1) PROVE NoTwice(u)
      <4>1. NoTwiceAmong(seqs, n)
        BY <3>0, <3>7 DEF NoTwiceAmong
      <4>2. \A p, q \in 1..Len(s) : s[p] = s[q] => p = q
        BY <3>5, <4>1 DEF NoTwice
      <4>3. \A p, q \in 1..Len(t) : t[p] = t[q] => p = q
        BY <3>0, <3>7 DEF NoTwiceAmong, t
      <4>4. \A p \in 1..Len(s), q \in 1..Len(t) : s[p] # t[q]
        <5> SUFFICES ASSUME NEW p \in 1..Len(s), NEW q \in 1..Len(t), s[p] = t[q]
                     PROVE  FALSE
          OBVIOUS
        <5>1. PICK i \in 1..n : \E x \in 1..Len(seqs[i]) : s[p] = seqs[i][x]
          BY <3>5 DEF Origin
        <5>2. PICK x \in 1..Len(seqs[i]) : s[p] = seqs[i][x]
          BY <5>1
        <5>3. i \in 1..(n + 1) /\ n + 1 \in 1..(n + 1) /\ i # n + 1
          BY <3>0
        <5>4. q \in 1..Len(seqs[n + 1]) /\ seqs[i][x] = seqs[n + 1][q]
          BY <5>2 DEF t
        <5> QED
          BY <3>7, <5>3, <5>4 DEF NoTwiceAmong
      <4> SUFFICES ASSUME NEW p \in 1..Len(u), NEW q \in 1..Len(u), u[p] = u[q]
                   PROVE  p = q
        BY DEF NoTwice
      <4>5. CASE p <= Len(s) /\ q <= Len(s)
        BY <3>4, <4>2, <4>5
      <4>6. CASE ~(p <= Len(s)) /\ ~(q <= Len(s))
        <5>1. p - Len(s) \in 1..Len(t) /\ q - Len(s) \in 1..Len(t)
              /\ t[p - Len(s)] = t[q - Len(s)]
          BY <3>4, <4>6
        <5>2. p - Len(s) = q - Len(s)
          BY <4>3, <5>1
        <5> QED
          BY <3>4, <5>2
      <4>7. CASE p <= Len(s) /\ ~(q <= Len(s))
        <5>1. p \in 1..Len(s) /\ q - Len(s) \in 1..Len(t) /\ s[p] = t[q - Len(s)]
          BY <3>4, <4>7
        <5> QED
          BY <4>4, <5>1
      <4>8. CASE ~(p <= Len(s)) /\ q <= Len(s)
        <5>1. q \in 1..Len(s) /\ p - Len(s) \in 1..Len(t) /\ s[q] = t[p - Len(s)]
          BY <3>4, <4>8
        <5> QED
          BY <4>4, <5>1
      <4> QED
        BY <4>5, <4>6, <4>7, <4>8
    <3> QED
      BY <3>0, <3>6, <3>7 DEF u
  <2>4. N \in G
    <3> HIDE DEF G
    <3>1. \A n \in 1..N : n \in G
      BY <2>0, <2>2, <2>3, Induction, Zenon
    <3> QED
      BY <2>0, <3>1
  <2>5. Good(N)
    BY <2>4
  <2>6. g[N] \in Seq(S)
    BY <2>0
  <2> QED
    BY <2>1, <2>5, <2>6 DEF N
<1> QED
  BY <1>1, <1>2

(***************************************************************************)
(* What the values of a sequence are after a cut, a concatenation or a     *)
(* removal, and that no value occurs twice where none did.                 *)
(***************************************************************************)
ValuesOf(s) == {s[p] : p \in 1..Len(s)}

LEMMA Slices ==
  ASSUME NEW S, NEW s \in Seq(S), NEW n \in 0..Len(s)
  PROVE  LET a == SubSeq(s, 1, n)
             b == SubSeq(s, n + 1, Len(s))
         IN /\ a \in Seq(S) /\ Len(a) = n /\ \A p \in 1..n : a[p] = s[p]
            /\ b \in Seq(S) /\ Len(b) = Len(s) - n
            /\ \A p \in 1..(Len(s) - n) : b[p] = s[n + p]
<1> DEFINE a == SubSeq(s, 1, n)
           b == SubSeq(s, n + 1, Len(s))
<1>1. Len(s) \in Nat /\ n \in Nat /\ n <= Len(s) /\ \A p \in 1..Len(s) : s[p] \in S
  OBVIOUS
<1>2. a \in Seq(S) /\ Len(a) = n /\ \A p \in 1..n : a[p] = s[p]
  BY <1>1, SubSeqProperties
<1>3. b \in Seq(S) /\ Len(b) = Len(s) - n
      /\ \A p \in 1..(Len(s) - n) : b[p] = s[n + p]
  <2>1. CASE n = Len(s)
    BY <1>1, <2>1, SubSeqProperties
  <2>2. CASE n < Len(s)
    <3>1. n + 1 \in 1..(Len(s) + 1) /\ Len(s) \in n..Len(s)
      BY <1>1, <2>2
    <3>2. \A p \in 1..(Len(s) - n) : n + 1 + p - 1 = n + p
      BY <1>1
    <3> QED
      BY <1>1, <2>2, <3>1, <3>2, SubSeqProperties
  <2> QED
    BY <1>1, <2>1, <2>2
<1> HIDE DEF a, b
<1> QED
  BY <1>2, <1>3 DEF a, b

LEMMA CutAt ==
  ASSUME NEW S, NEW s \in Seq(S), NEW n \in 0..Len(s), NoTwice(s)
  PROVE  LET a == SubSeq(s, 1, n)
             b == SubSeq(s, n + 1, Len(s))
         IN /\ a \in Seq(S) /\ b \in Seq(S) /\ Len(a) = n /\ Len(b) = Len(s) - n
            /\ NoTwice(a) /\ NoTwice(b)
            /\ ValuesOf(a) \subseteq ValuesOf(s) /\ ValuesOf(b) \subseteq ValuesOf(s)
            /\ ValuesOf(a) \cap ValuesOf(b) = {}
<1> DEFINE a == SubSeq(s, 1, n)
           b == SubSeq(s, n + 1, Len(s))
<1>1. Len(s) \in Nat /\ n \in Nat /\ n <= Len(s)
  OBVIOUS
<1>2. a \in Seq(S) /\ Len(a) = n /\ \A p \in 1..n : a[p] = s[p]
  BY Slices, Zenon
<1>3. b \in Seq(S) /\ Len(b) = Len(s) - n
      /\ \A p \in 1..(Len(s) - n) : b[p] = s[n + p]
  BY Slices, Zenon
<1> HIDE DEF a, b
<1>4. \A p, q \in 1..Len(s) : s[p] = s[q] => p = q
  BY DEF NoTwice
<1>5. \A p \in 1..n : p \in 1..Len(s)
  BY <1>1
<1>6. \A p \in 1..(Len(s) - n) : n + p \in 1..Len(s)
  BY <1>1
<1>7. NoTwice(a) /\ ValuesOf(a) \subseteq ValuesOf(s)
  BY <1>2, <1>4, <1>5 DEF NoTwice, ValuesOf
<1>8. NoTwice(b)
  <2> SUFFICES ASSUME NEW p \in 1..(Len(s) - n), NEW q \in 1..(Len(s) - n), b[p] = b[q]
               PROVE  p = q
    BY <1>3 DEF NoTwice
  <2>1. n + p = n + q
    BY <1>3, <1>4, <1>6
  <2> QED
    BY <1>1, <2>1
<1>9. ValuesOf(b) \subseteq ValuesOf(s)
  BY <1>3, <1>6 DEF ValuesOf
<1>10. \A p \in 1..n, q \in 1..(Len(s) - n) : a[p] # b[q]
  <2> SUFFICES ASSUME NEW p \in 1..n, NEW q \in 1..(Len(s) - n), a[p] = b[q]
               PROVE  FALSE
    OBVIOUS
  <2>1. p = n + q
    BY <1>2, <1>3, <1>4, <1>5, <1>6
  <2> QED
    BY <1>1, <2>1
<1>11. ValuesOf(a) \cap ValuesOf(b) = {}
  BY <1>2, <1>3, <1>10 DEF ValuesOf
<1> QED
  BY <1>2, <1>3, <1>7, <1>8, <1>9, <1>11 DEF a, b

LEMMA ConcatValues ==
  ASSUME NEW S, NEW s \in Seq(S), NEW t \in Seq(S)
  PROVE  /\ s \o t \in Seq(S)
         /\ ValuesOf(s \o t) = ValuesOf(s) \cup ValuesOf(t)
         /\ NoTwice(s) /\ NoTwice(t) /\ ValuesOf(s) \cap ValuesOf(t) = {}
              => NoTwice(s \o t)
<1> DEFINE u == s \o t
<1>1. Len(s) \in Nat /\ Len(t) \in Nat
  OBVIOUS
<1>2. u \in Seq(S) /\ Len(u) = Len(s) + Len(t)
      /\ \A p \in 1..Len(u) : u[p] = IF p <= Len(s) THEN s[p] ELSE t[p - Len(s)]
  BY ConcatProperties
<1> HIDE DEF u
<1>3. \A p \in 1..Len(s) : p \in 1..Len(u) /\ u[p] = s[p]
  BY <1>1, <1>2
<1>4. \A p \in 1..Len(t) : Len(s) + p \in 1..Len(u) /\ u[Len(s) + p] = t[p]
  <2> SUFFICES ASSUME NEW p \in 1..Len(t)
               PROVE  Len(s) + p \in 1..Len(u) /\ u[Len(s) + p] = t[p]
    OBVIOUS
  <2>1. Len(s) + p \in 1..Len(u) /\ ~(Len(s) + p <= Len(s)) /\ (Len(s) + p) - Len(s) = p
    BY <1>1, <1>2
  <2> QED
    BY <1>2, <2>1
<1>5. \A p \in 1..Len(u) : \/ p \in 1..Len(s)
                          \/ \E q \in 1..Len(t) : p = Len(s) + q
  <2> SUFFICES ASSUME NEW p \in 1..Len(u), p \notin 1..Len(s)
               PROVE  \E q \in 1..Len(t) : p = Len(s) + q
    OBVIOUS
  <2>1. p - Len(s) \in 1..Len(t) /\ p = Len(s) + (p - Len(s))
    BY <1>1, <1>2
  <2> QED
    BY <2>1
<1>6. ValuesOf(u) = ValuesOf(s) \cup ValuesOf(t)
  <2>1. \A p \in 1..Len(u) : u[p] \in ValuesOf(s) \cup ValuesOf(t)
    BY <1>3, <1>4, <1>5 DEF ValuesOf
  <2>2. \A p \in 1..Len(s) : s[p] \in ValuesOf(u)
    BY <1>3 DEF ValuesOf
  <2>3. \A p \in 1..Len(t) : t[p] \in ValuesOf(u)
    BY <1>4 DEF ValuesOf
  <2>4. ValuesOf(u) \subseteq ValuesOf(s) \cup ValuesOf(t)
    BY <2>1, Zenon DEF ValuesOf
  <2>5. ValuesOf(s) \subseteq ValuesOf(u)
    BY <2>2, Zenon DEF ValuesOf
  <2>6. ValuesOf(t) \subseteq ValuesOf(u)
    BY <2>3, Zenon DEF ValuesOf
  <2> QED
    BY <2>4, <2>5, <2>6, Zenon
<1>7. ASSUME NoTwice(s), NoTwice(t), ValuesOf(s) \cap ValuesOf(t) = {}
      PROVE  NoTwice(u)
  <2>1. \A p \in 1..Len(s), q \in 1..Len(t) : s[p] # t[q]
    BY <1>7 DEF ValuesOf
  <2>2. /\ \A p, q \in 1..Len(s) : s[p] = s[q] => p = q
        /\ \A p, q \in 1..Len(t) : t[p] = t[q] => p = q
    BY <1>7 DEF NoTwice
  <2> SUFFICES ASSUME NEW p \in 1..Len(u), NEW q \in 1..Len(u), u[p] = u[q]
               PROVE  p = q
    BY DEF NoTwice
  <2>3. CASE p \in 1..Len(s) /\ q \in 1..Len(s)
    BY <1>3, <2>2, <2>3
  <2>4. CASE p \in 1..Len(s) /\ \E x \in 1..Len(t) : q = Len(s) + x
    BY <1>3, <1>4, <2>1, <2>4
  <2>5. CASE q \in 1..Len(s) /\ \E x \in 1..Len(t) : p = Len(s) + x
    BY <1>3, <1>4, <2>1, <2>5
  <2>6. CASE (\E x \in 1..Len(t) : p = Len(s) + x) /\ (\E x \in 1..Len(t) : q = Len(s) + x)
    BY <1>4, <2>2, <2>6
  <2> QED
    BY <1>5, <2>3, <2>4, <2>5, <2>6
<1> QED
  BY <1>2, <1>6, <1>7 DEF u

LEMMA RemoveAtValues ==
  ASSUME NEW S, NEW s \in Seq(S), NEW i \in 1..Len(s)
  PROVE  LET t == RemoveAt(s, i)
         IN /\ t \in Seq(S) /\ Len(t) = Len(s) - 1
            /\ \A j \in 1..(Len(s) - 1) : t[j] = IF j < i THEN s[j] ELSE s[j + 1]
<1> DEFINE a == SubSeq(s, 1, i - 1)
           b == SubSeq(s, i + 1, Len(s))
           t == a \o b
<1>1. Len(s) \in Nat /\ i \in Nat /\ 1 <= i /\ i <= Len(s)
      /\ \A p \in 1..Len(s) : s[p] \in S
  OBVIOUS
<1>2. a \in Seq(S) /\ Len(a) = i - 1 /\ \A p \in 1..(i - 1) : a[p] = s[p]
  BY <1>1, SubSeqProperties
<1>3. b \in Seq(S) /\ Len(b) = Len(s) - i /\ \A p \in 1..(Len(s) - i) : b[p] = s[i + p]
  <2>1. CASE i = Len(s)
    BY <1>1, <2>1, SubSeqProperties
  <2>2. CASE i < Len(s)
    <3>1. \A p \in 1..(Len(s) - i) : i + 1 + p - 1 = i + p
      BY <1>1
    <3> QED
      BY <1>1, <2>2, <3>1, SubSeqProperties
  <2> QED
    BY <1>1, <2>1, <2>2
<1> HIDE DEF a, b
<1>4. t \in Seq(S) /\ Len(t) = Len(a) + Len(b)
      /\ \A p \in 1..(Len(a) + Len(b)) : t[p] = IF p <= Len(a) THEN a[p] ELSE b[p - Len(a)]
  BY <1>2, <1>3, ConcatProperties
<1> HIDE DEF t
<1>5. ASSUME NEW j \in 1..(Len(s) - 1) PROVE t[j] = IF j < i THEN s[j] ELSE s[j + 1]
  <2>1. CASE j < i
    BY <1>1, <1>2, <1>3, <1>4, <2>1
  <2>2. CASE ~(j < i)
    <3>1. j - Len(a) \in 1..(Len(s) - i) /\ i + (j - Len(a)) = j + 1 /\ ~(j <= Len(a))
          /\ j \in 1..(Len(a) + Len(b))
      BY <1>1, <1>2, <1>3, <2>2
    <3>2. t[j] = b[j - Len(a)]
      BY <1>4, <3>1
    <3>3. b[j - Len(a)] = s[i + (j - Len(a))]
      BY <1>3, <3>1, Zenon
    <3> QED
      BY <2>2, <3>1, <3>2, <3>3
  <2> QED
    BY <2>1, <2>2
<1>6. RemoveAt(s, i) = t
  BY DEF RemoveAt, t, a, b
<1> QED
  BY <1>1, <1>2, <1>3, <1>4, <1>5, <1>6

LEMMA AppendValues ==
  ASSUME NEW S, NEW s \in Seq(S), NEW b, NoTwice(s), b \notin ValuesOf(s)
  PROVE  NoTwice(Append(s, b)) /\ ValuesOf(Append(s, b)) = ValuesOf(s) \cup {b}
<1> DEFINE t == Append(s, b)
           n == Len(s) + 1
<1>1. /\ Len(s) \in Nat /\ Len(t) = n /\ t[n] = b /\ n \in 1..n
      /\ \A p \in 1..Len(s) : t[p] = s[p] /\ p \in 1..n
      /\ \A p \in 1..n : p # n => p \in 1..Len(s)
  BY AppendProperties
<1> HIDE DEF t, n
<1>2. \A p \in 1..Len(s) : s[p] \in ValuesOf(s)
  BY DEF ValuesOf
<1>3. NoTwice(t)
  BY <1>1, <1>2 DEF NoTwice
<1>4. ValuesOf(t) = {t[p] : p \in 1..n}
  BY <1>1 DEF ValuesOf
<1>5. ValuesOf(t) \subseteq ValuesOf(s) \cup {b}
  BY <1>1, <1>2, <1>4
<1>6. ValuesOf(s) \subseteq ValuesOf(t)
  BY <1>1, <1>4 DEF ValuesOf
<1>7. b \in ValuesOf(t)
  BY <1>1, <1>4
<1> QED
  BY <1>3, <1>5, <1>6, <1>7 DEF t

(* A multiple that is less than the next multiple after another. *)
LEMMA Product ==
  ASSUME NEW d \in Nat \ {0}, NEW a \in Int, NEW b \in Int, a * d < b * d + d
  PROVE  a <= b
<1> SUFFICES ASSUME b + 1 <= a PROVE FALSE
  OBVIOUS
<1>1. (b + 1) * d <= a * d
  OBVIOUS
<1>2. (b + 1) * d = b * d + d
  OBVIOUS
<1> DEFINE x == a * d
           y == b * d
<1>3. x \in Int /\ y \in Int
  OBVIOUS
<1>4. y + d <= x /\ x < y + d
  BY <1>1, <1>2
<1> HIDE DEF x, y
<1> QED
  BY <1>3, <1>4

(* The quotient of a number written with its remainder. *)
LEMMA Quotient ==
  ASSUME NEW d \in Nat \ {0}, NEW h \in Nat, NEW n \in 0..(d - 1)
  PROVE  (h * d + n) \div d = h
<1> DEFINE y == h * d
           x == y + n
           q == x \div d
           p == q * d
<1>1. y \in Nat
  OBVIOUS
<1> HIDE DEF y
<1>2. x \in Nat
  BY <1>1
<1> HIDE DEF x
<1>3. q \in Int /\ x = p + (x % d) /\ x % d \in 0..(d - 1)
  BY <1>2
<1>4. p \in Int
  BY <1>3
<1> HIDE DEF p, q
<1>5. p < y + d /\ y < p + d
  BY <1>1, <1>3, <1>4 DEF x
<1>6. q <= h /\ h <= q
  BY <1>3, <1>5, Product DEF p, y
<1> QED
  BY <1>3, <1>6 DEF q, x, y

(***************************************************************************)
(* At most one entry of a sequence is in a set.                            *)
(***************************************************************************)
Single(s, T) == \A k, l \in 1..Len(s) : s[k] \in T /\ s[l] \in T => k = l
Among(s, T) == {x \in ValuesOf(s) : x \in T}
(* t has no entry of T that s does not have. *)
Fewer(t, s, T) == Among(t, T) \subseteq Among(s, T) /\ (Single(s, T) => Single(t, T))

LEMMA FewerChosen ==
  ASSUME NEW s, NEW t, NEW T, NEW p \in [1..Len(t) -> 1..Len(s)],
         \A j \in 1..Len(t) : t[j] = s[p[j]],
         \A j, k \in 1..Len(t) : p[j] = p[k] => j = k
  PROVE  /\ Fewer(t, s, T)
         /\ \A i \in 1..Len(s) : /\ Single(s, T) /\ s[i] \in T
                                 /\ \A j \in 1..Len(t) : p[j] # i
              => Among(t, T) = {}
<1>0. \A j \in 1..Len(t) : p[j] \in 1..Len(s)
  OBVIOUS
<1>1. Single(s, T) => Single(t, T)
  BY <1>0 DEF Single
<1>2. Among(t, T) \subseteq Among(s, T)
  BY <1>0 DEF Among, ValuesOf
<1>3. ASSUME NEW i \in 1..Len(s), Single(s, T), s[i] \in T, \A j \in 1..Len(t) : p[j] # i
      PROVE  Among(t, T) = {}
  <2>1. \A j \in 1..Len(t) : t[j] \notin T
    BY <1>0, <1>3 DEF Single
  <2> QED
    BY <2>1 DEF Among, ValuesOf
<1> QED
  BY <1>1, <1>2, <1>3 DEF Fewer

LEMMA FewerSame ==
  ASSUME NEW s, NEW T
  PROVE  Fewer(s, s, T)
BY DEF Fewer

LEMMA FewerTail ==
  ASSUME NEW F, NEW s \in Seq(F), s # <<>>, NEW T
  PROVE  /\ Fewer(Tail(s), s, T)
         /\ Single(s, T) /\ Head(s) \in T => Among(Tail(s), T) = {}
<1> DEFINE t == Tail(s)
           p == [j \in 1..(Len(s) - 1) |-> j + 1]
<1>1. /\ Head(s) = s[1] /\ Len(s) \in Nat /\ 1 \in 1..Len(s) /\ Len(t) = Len(s) - 1
      /\ \A j \in 1..(Len(s) - 1) : t[j] = s[j + 1]
  OBVIOUS
<1> HIDE DEF t
<1>2. p \in [1..Len(t) -> 1..Len(s)]
  BY <1>1
<1>3. \A j \in 1..Len(t) : t[j] = s[p[j]]
  BY <1>1
<1>4. \A j, k \in 1..Len(t) : p[j] = p[k] => j = k
  BY <1>1
<1>5. \A j \in 1..Len(t) : p[j] # 1
  BY <1>1
<1> HIDE DEF p
<1>6. /\ Fewer(t, s, T)
      /\ \A k \in 1..Len(s) : /\ Single(s, T) /\ s[k] \in T
                              /\ \A j \in 1..Len(t) : p[j] # k
           => Among(t, T) = {}
  BY <1>2, <1>3, <1>4, FewerChosen
<1> QED
  BY <1>1, <1>5, <1>6 DEF t

LEMMA HeadAmong ==
  ASSUME NEW F, NEW s \in Seq(F), s # <<>>, NEW T, Head(s) \in T
  PROVE  Head(s) \in Among(s, T)
<1>1. Head(s) = s[1] /\ 1 \in 1..Len(s)
  OBVIOUS
<1>2. Head(s) \in ValuesOf(s)
  BY <1>1 DEF ValuesOf
<1> QED
  BY <1>2 DEF Among

LEMMA FewerRemoved ==
  ASSUME NEW F, NEW s \in Seq(F), NEW i \in 1..Len(s), NEW T
  PROVE  /\ Fewer(RemoveAt(s, i), s, T)
         /\ Single(s, T) /\ s[i] \in T => Among(RemoveAt(s, i), T) = {}
<1> DEFINE t == RemoveAt(s, i)
           p == [j \in 1..(Len(s) - 1) |-> IF j < i THEN j ELSE j + 1]
<1>1. /\ Len(s) \in Nat /\ Len(t) = Len(s) - 1
      /\ \A j \in 1..(Len(s) - 1) : t[j] = IF j < i THEN s[j] ELSE s[j + 1]
  BY RemoveAtValues
<1> HIDE DEF t
<1>2. /\ p \in [1..Len(t) -> 1..Len(s)]
      /\ \A j \in 1..Len(t) : t[j] = s[p[j]] /\ p[j] # i
      /\ \A j, k \in 1..Len(t) : p[j] = p[k] => j = k
  BY <1>1
<1> HIDE DEF p
<1>3. /\ Fewer(t, s, T)
      /\ \A k \in 1..Len(s) : /\ Single(s, T) /\ s[k] \in T
                              /\ \A j \in 1..Len(t) : p[j] # k
           => Among(t, T) = {}
  BY <1>2, FewerChosen, ZenonT(60)
<1> QED
  BY <1>2, <1>3 DEF t

LEMMA FewerAppended ==
  ASSUME NEW F, NEW s \in Seq(F), NEW m \in F, NEW T
  PROVE  /\ m \notin T => Fewer(Append(s, m), s, T)
         /\ Among(s, T) = {} => Single(Append(s, m), T)
         /\ Among(Append(s, m), T) \subseteq Among(s, T) \cup {m}
<1> DEFINE t == Append(s, m)
           n == Len(s) + 1
<1>1. /\ Len(s) \in Nat /\ Len(t) = n /\ t[n] = m
      /\ \A j \in 1..Len(s) : t[j] = s[j]
      /\ \A j \in 1..n : j # n => j \in 1..Len(s)
  OBVIOUS
<1> HIDE DEF t, n
<1>2. Among(t, T) \subseteq Among(s, T) \cup {m}
  <2>1. \A j \in 1..n : t[j] = m \/ t[j] \in ValuesOf(s)
    BY <1>1 DEF ValuesOf
  <2> QED
    BY <1>1, <2>1 DEF Among, ValuesOf
<1>3. ASSUME m \notin T PROVE Fewer(t, s, T)
  <2>1. \A j \in 1..n : t[j] \in T => j \in 1..Len(s) /\ t[j] = s[j]
    BY <1>1, <1>3
  <2>2. Single(s, T) => Single(t, T)
    BY <1>1, <2>1 DEF Single
  <2>3. Among(t, T) \subseteq Among(s, T)
    BY <1>2, <1>3 DEF Among
  <2> QED
    BY <2>2, <2>3 DEF Fewer
<1>4. ASSUME Among(s, T) = {} PROVE Single(t, T)
  <2>1. \A j \in 1..Len(s) : s[j] \notin T
    BY <1>4 DEF Among, ValuesOf
  <2>2. \A j \in 1..n : t[j] \in T => j = n
    BY <1>1, <2>1
  <2> QED
    BY <1>1, <2>2 DEF Single
<1> QED
  BY <1>2, <1>3, <1>4 DEF t

(* What adding or taking an entry does to the entries in a set. *)
LEMMA AmongAppended ==
  ASSUME NEW F, NEW s \in Seq(F), NEW m \in F, NEW T
  PROVE  Among(Append(s, m), T) = Among(s, T) \cup ({m} \cap T)
<1> DEFINE t == Append(s, m)
           n == Len(s) + 1
<1>1. /\ Len(s) \in Nat /\ Len(t) = n /\ t[n] = m /\ n \in 1..n
      /\ \A j \in 1..Len(s) : t[j] = s[j] /\ j \in 1..n
      /\ \A j \in 1..n : j # n => j \in 1..Len(s)
  OBVIOUS
<1> HIDE DEF t, n
<1>2. ValuesOf(t) = ValuesOf(s) \cup {m}
  BY <1>1 DEF ValuesOf
<1> QED
  BY <1>2 DEF Among, t

LEMMA AmongTail ==
  ASSUME NEW F, NEW s \in Seq(F), s # <<>>, NEW T
  PROVE  Among(s, T) = Among(Tail(s), T) \cup ({Head(s)} \cap T)
<1> DEFINE t == Tail(s)
           n == Len(s) - 1
<1>1. /\ Len(s) \in Nat /\ Len(s) >= 1 /\ Head(s) = s[1] /\ Len(t) = n
      /\ \A j \in 1..n : t[j] = s[j + 1]
  OBVIOUS
<1>2. /\ 1 \in 1..Len(s)
      /\ \A j \in 1..n : j + 1 \in 1..Len(s)
      /\ \A j \in 1..Len(s) : j = 1 \/ (j - 1 \in 1..n /\ (j - 1) + 1 = j)
  BY <1>1
<1> HIDE DEF t, n
<1>3. ValuesOf(t) \cup {Head(s)} \subseteq ValuesOf(s)
  <2>1. Head(s) \in ValuesOf(s)
    BY <1>1, <1>2 DEF ValuesOf
  <2>2. \A j \in 1..n : t[j] \in ValuesOf(s)
    BY <1>1, <1>2 DEF ValuesOf
  <2>3. \A x \in ValuesOf(t) : \E j \in 1..n : x = t[j]
    BY <1>1 DEF ValuesOf
  <2> QED
    BY <2>1, <2>2, <2>3
<1>4. ASSUME NEW j \in 1..Len(s) PROVE s[j] \in ValuesOf(t) \cup {Head(s)}
  <2>1. CASE j = 1
    BY <1>1, <2>1
  <2>2. CASE j - 1 \in 1..n /\ (j - 1) + 1 = j
    <3>1. t[j - 1] = s[j]
      BY <1>1, <2>2
    <3> QED
      BY <1>1, <2>2, <3>1 DEF ValuesOf
  <2> QED
    BY <1>2, <2>1, <2>2
<1>5. ValuesOf(s) \subseteq ValuesOf(t) \cup {Head(s)}
  BY <1>4 DEF ValuesOf
<1> QED
  BY <1>3, <1>5 DEF Among, t

LEMMA AmongRemoved ==
  ASSUME NEW F, NEW s \in Seq(F), NEW i \in 1..Len(s), NEW T
  PROVE  Among(s, T) = Among(RemoveAt(s, i), T) \cup ({s[i]} \cap T)
<1> DEFINE t == RemoveAt(s, i)
           n == Len(s) - 1
<1>1. /\ Len(s) \in Nat /\ Len(t) = n
      /\ \A j \in 1..n : t[j] = IF j < i THEN s[j] ELSE s[j + 1]
  <2>1. /\ Len(t) = n
        /\ \A j \in 1..n : t[j] = IF j < i THEN s[j] ELSE s[j + 1]
    BY RemoveAtValues, ZenonT(20)
  <2>2. Len(s) \in Nat
    OBVIOUS
  <2> QED
    BY <2>1, <2>2
<1> HIDE DEF t
<1>2. /\ \A j \in 1..n : j \in 1..Len(s) /\ j + 1 \in 1..Len(s)
      /\ \A j \in 1..Len(s) : \/ j = i
                              \/ j \in 1..n /\ j < i
                              \/ j - 1 \in 1..n /\ ~(j - 1 < i) /\ (j - 1) + 1 = j
  BY <1>1
<1> HIDE DEF n
<1>3. ValuesOf(t) \cup {s[i]} \subseteq ValuesOf(s)
  BY <1>1, <1>2 DEF ValuesOf
<1>4. ASSUME NEW j \in 1..Len(s), j # i PROVE \E k \in 1..n : t[k] = s[j]
  <2>1. CASE j < i
    <3>1. j \in 1..n
      BY <1>2, <2>1
    <3> QED
      BY <1>1, <2>1, <3>1
  <2>2. CASE ~(j < i)
    <3>1. j - 1 \in 1..n /\ ~(j - 1 < i) /\ (j - 1) + 1 = j
      BY <1>2, <1>4, <2>2
    <3>2. t[j - 1] = s[j]
      BY <1>1, <3>1
    <3> QED
      BY <3>1, <3>2
  <2> QED
    BY <2>1, <2>2
<1>5. ValuesOf(s) \subseteq ValuesOf(t) \cup {s[i]}
  <2> SUFFICES ASSUME NEW v \in ValuesOf(s), v # s[i] PROVE v \in ValuesOf(t)
    OBVIOUS
  <2>1. PICK j \in 1..Len(s) : v = s[j]
    BY DEF ValuesOf
  <2>2. PICK k \in 1..n : t[k] = s[j]
    BY <1>4, <2>1
  <2> QED
    BY <1>1, <2>1, <2>2 DEF ValuesOf
<1> QED
  BY <1>3, <1>5 DEF Among, t

LEMMA ValuesAppended ==
  ASSUME NEW S, NEW s \in Seq(S), NEW m \in S
  PROVE  ValuesOf(Append(s, m)) = ValuesOf(s) \cup {m}
<1> DEFINE t == Append(s, m)
           n == Len(s) + 1
<1>1. /\ Len(s) \in Nat /\ Len(t) = n /\ t[n] = m /\ n \in 1..n
      /\ \A j \in 1..Len(s) : t[j] = s[j] /\ j \in 1..n
      /\ \A j \in 1..n : j # n => j \in 1..Len(s)
  OBVIOUS
<1> HIDE DEF t, n
<1>2. ValuesOf(t) = ValuesOf(s) \cup {m}
  BY <1>1 DEF ValuesOf
<1> QED
  BY <1>2 DEF t

(***************************************************************************)
(* Sequences put together.                                                 *)
(***************************************************************************)
LEMMA FlattenAppended ==
  ASSUME NEW S, NEW seqs \in Seq(Seq(S)), NEW t \in Seq(S)
  PROVE  FlattenSeq(Append(seqs, t)) = FlattenSeq(seqs) \o t
<1> DEFINE more == Append(seqs, t)
           n == Len(seqs)
<1> DEFINE T == Seq(S)
<1>0. seqs \in Seq(T) /\ t \in T
  OBVIOUS
<1> HIDE DEF T
<1>1. /\ n \in Nat /\ more \in Seq(T) /\ more # <<>> /\ Len(more) = n + 1
      /\ \A i \in 1..n : more[i] = seqs[i]
      /\ more[n + 1] = t
  BY <1>0
<1> HIDE DEF more
<1> USE DEF T
<1>2. PICK g \in [1..(n + 1) -> Seq(S)] :
        Appends(more, g, n + 1) /\ FlattenSeq(more) = g[n + 1]
  BY <1>1, FlattenSteps
<1>3. CASE seqs = <<>>
  <2>1. n = 0 /\ FlattenSeq(seqs) = <<>>
    BY <1>3 DEF FlattenSeq
  <2>2. g[1] = t
    BY <1>1, <1>2, <2>1 DEF Appends
  <2> QED
    BY <1>2, <2>1, <2>2 DEF more
<1>4. CASE seqs # <<>>
  <2>1. n >= 1
    BY <1>4
  <2>2. PICK f \in [1..n -> Seq(S)] : Appends(seqs, f, n) /\ FlattenSeq(seqs) = f[n]
    BY <1>4, FlattenSteps
  <2> HIDE DEF n
  <2>6. /\ n + 1 \in 2..(n + 1) /\ (n + 1) - 1 = n /\ n \in Nat
        /\ \A i \in 2..n : i \in 2..(n + 1)
    BY <1>1, <2>1
  <2>3. Appends(more, g, n)
    BY <1>2, <2>6 DEF Appends
  <2>7. \A i \in 1..n : more[i] = seqs[i]
    BY <1>1
  <2> DEFINE G == {i \in 1..n : g[i] = f[i]}
  <2>8. 1 \in G
    BY <2>1, <2>2, <2>3, <2>6, <2>7 DEF Appends
  <2>9. ASSUME NEW i \in 1..(n - 1), i \in G PROVE i + 1 \in G
    <3>1. i + 1 \in 2..n /\ i + 1 \in 1..n /\ (i + 1) - 1 = i
      BY <2>6
    <3>2. g[i + 1] = g[i] \o more[i + 1] /\ f[i + 1] = f[i] \o seqs[i + 1]
      BY <2>2, <2>3, <3>1, Zenon DEF Appends
    <3> QED
      BY <2>7, <2>9, <3>1, <3>2
  <2>4. g[n] = f[n]
    <3> HIDE DEF G
    <3>1. \A i \in 1..n : i \in G
      BY <2>1, <2>6, <2>8, <2>9, Induction
    <3> QED
      BY <2>1, <2>6, <3>1 DEF G
  <2>5. g[n + 1] = g[n] \o t
    BY <1>1, <1>2, <2>6, Zenon DEF Appends
  <2> QED
    BY <1>2, <2>2, <2>4, <2>5 DEF more
<1> QED
  BY <1>3, <1>4

LEMMA IsPrefixOfMore ==
  ASSUME NEW S, NEW s \in Seq(S), NEW t \in Seq(S)
  PROVE  IsPrefix(s, s \o t)
<1>1. /\ s \o t \in Seq(S) /\ Len(s \o t) = Len(s) + Len(t)
      /\ Len(s) \in Nat /\ Len(t) \in Nat
      /\ \A p \in 1..Len(s) : (s \o t)[p] = s[p]
  OBVIOUS
<1>2. Len(s) \in 0..Len(s \o t) /\ Len(s) \in 0..Len(s)
  BY <1>1
<1> DEFINE u == s \o t
           a == SubSeq(s, 1, Len(s))
           b == SubSeq(u, 1, Len(s))
<1>3. a \in Seq(S) /\ Len(a) = Len(s) /\ \A p \in 1..Len(s) : a[p] = s[p]
  BY <1>2, Slices, ZenonT(40)
<1>4. b \in Seq(S) /\ Len(b) = Len(s) /\ \A p \in 1..Len(s) : b[p] = u[p]
  BY <1>1, <1>2, Slices, ZenonT(40)
<1>5. a = b
  <2> HIDE DEF a, b, u
  <2>1. \A p \in 1..Len(s) : a[p] = b[p]
    BY <1>1, <1>3, <1>4 DEF u
  <2> QED
    BY <1>3, <1>4, <2>1
<1> QED
  BY <1>1, <1>5 DEF IsPrefix

LEMMA AppendedToConcat ==
  ASSUME NEW S, NEW t \in Seq(S), NEW s \in Seq(S), NEW m \in S
  PROVE  Append(s \o t, m) = s \o Append(t, m)
OBVIOUS

LEMMA ConcatThrice ==
  ASSUME NEW S, NEW s \in Seq(S), NEW t \in Seq(S), NEW u \in Seq(S)
  PROVE  (s \o t) \o u = s \o (t \o u)
BY ConcatAssociative

(***************************************************************************)
(* The identifier packing of both ends of the bus agrees: a message whose  *)
(* fields fit their widths crosses it unchanged.                           *)
(***************************************************************************)
(* The widths of the bitfields of struct canmsg. *)
FieldsWith(D) == [pri : 0..1, dst : 0..63, src : 0..63, type : 0..7,
                  object : 0..255, eot : 0..1, seq : 0..15, data : D]
Fields == FieldsWith(Seq(0..255))

(* One field of a power of two of values taken off the low end of a number. *)
LEMMA Unpack ==
  ASSUME NEW low \in Nat, NEW high \in Nat
  PROVE  /\ low < 2 => (low + 2 * high) % 2 = low /\ (low + 2 * high) \div 2 = high
         /\ low < 8 => (low + 8 * high) % 8 = low /\ (low + 8 * high) \div 8 = high
         /\ low < 16 =>
              (low + 16 * high) % 16 = low /\ (low + 16 * high) \div 16 = high
         /\ low < 64 =>
              (low + 64 * high) % 64 = low /\ (low + 64 * high) \div 64 = high
         /\ low < 256 =>
              (low + 256 * high) % 256 = low /\ (low + 256 * high) \div 256 = high
<1>1. low < 2 => (low + 2 * high) % 2 = low /\ (low + 2 * high) \div 2 = high
  BY SMT
<1>2. low < 8 => (low + 8 * high) % 8 = low /\ (low + 8 * high) \div 8 = high
  BY SMT
<1>3. low < 16 => (low + 16 * high) % 16 = low /\ (low + 16 * high) \div 16 = high
  BY SMT
<1>4. low < 64 => (low + 64 * high) % 64 = low /\ (low + 64 * high) \div 64 = high
  BY SMT
<1>5. low < 256 => (low + 256 * high) % 256 = low /\ (low + 256 * high) \div 256 = high
  BY SMT
<1> QED
  BY <1>1, <1>2, <1>3, <1>4, <1>5, Zenon

LEMMA RoundTripWith ==
  ASSUME NEW D, NEW m \in FieldsWith(D)
  PROVE  OverTheWire(m) = m
<1> DEFINE dst == m.dst + 64 * m.pri
           src == m.src + 64 * dst
           type == m.type + 8 * src
           object == m.object + 256 * type
           eot == m.eot + 2 * object
           id == m.seq + 16 * eot
<1>1. /\ m.pri \in 0..1 /\ m.dst \in 0..63 /\ m.src \in 0..63
      /\ m.type \in 0..7 /\ m.object \in 0..255 /\ m.eot \in 0..1
      /\ m.seq \in 0..15
  BY DEF FieldsWith
<1>2. /\ m.pri \in Nat /\ m.dst \in Nat /\ m.src \in Nat /\ m.type \in Nat
      /\ m.object \in Nat /\ m.eot \in Nat /\ m.seq \in Nat
      /\ m.pri < 2 /\ m.dst < 64 /\ m.src < 64 /\ m.type < 8
      /\ m.object < 256 /\ m.eot < 2 /\ m.seq < 16
  BY <1>1, SMT
<1> HIDE DEF dst, src, type, object, eot, id
<1>3. dst \in Nat /\ dst % 64 = m.dst /\ dst \div 64 = m.pri
  BY <1>2, Unpack, SMT DEF dst
<1>4. src \in Nat /\ src % 64 = m.src /\ src \div 64 = dst
  BY <1>2, <1>3, Unpack, SMT DEF src
<1>5. type \in Nat /\ type % 8 = m.type /\ type \div 8 = src
  BY <1>2, <1>4, Unpack, SMT DEF type
<1>6. object \in Nat /\ object % 256 = m.object /\ object \div 256 = type
  BY <1>2, <1>5, Unpack, SMT DEF object
<1>7. eot \in Nat /\ eot % 2 = m.eot /\ eot \div 2 = object
  BY <1>2, <1>6, Unpack, SMT DEF eot
<1>8. id \in Nat /\ id % 16 = m.seq /\ id \div 16 = eot
  BY <1>2, <1>7, Unpack, SMT DEF id
<1>9. m.pri % 2 = m.pri
  BY <1>2, SMT
<1>10. IdEncode(m) = id
  BY DEF IdEncode, id, eot, object, type, src, dst
<1>11. OverTheWire(m)
         = [pri |-> m.pri, dst |-> m.dst, src |-> m.src, type |-> m.type,
            object |-> m.object, eot |-> m.eot, seq |-> m.seq, data |-> m.data]
  BY <1>3, <1>4, <1>5, <1>6, <1>7, <1>8, <1>9, <1>10, SMTT(40)
     DEF OverTheWire, IdDecode
<1> QED
  BY <1>11 DEF FieldsWith

(* A message whose fields fit their widths arrives as it was sent (id_encode
   and can_recv, can_send and id_decode). *)
THEOREM RoundTrip ==
  ASSUME NEW m \in Fields
  PROVE  OverTheWire(m) = m
BY RoundTripWith DEF Fields
=============================================================================
