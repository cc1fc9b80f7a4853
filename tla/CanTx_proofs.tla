---------------------------- MODULE CanTx_proofs ----------------------------
(***************************************************************************)
(* Proofs about CanTx for any number of tasks, mailboxes and messages: the *)
(* transmit path never strands a queued message.                           *)
(***************************************************************************)
EXTENDS CanTx, TLAPS

Used == pending \cup rqcp

(* NotStranded is not inductive: that the interrupt is enabled and that a
   mailbox will raise it have to be kept apart, and a task still before its
   test of the queue has to be told from one that has passed it. *)
SomebodyCares == cantxq # <<>> => tmeie \/ \E t \in Task : pc[t] # "idle"
BoxWillRing == cantxq # <<>> /\ Used = {} => \E t \in Task : pc[t] \in Early

LEMMA StepCases ==
  ASSUME [Next]_vars
  PROVE  \/ \E t \in Task : Send(t)
         \/ \E t \in Task : Check(t)
         \/ \E t \in Task : Take(t)
         \/ \E t \in Task : Pick(t)
         \/ \E t \in Task : Write(t)
         \/ \E t \in Task : Request(t)
         \/ \E t \in Task : Test(t)
         \/ \E t \in Task : Enable(t)
         \/ IsrEnter \/ IsrLoad \/ IsrExit \/ Transmitted
         \/ UNCHANGED vars
BY DEF Next, Flush, Isr

LEMMA HeadTail ==
  ASSUME NEW S, NEW s \in Seq(S), s # <<>>
  PROVE  /\ Head(s) \in S /\ Tail(s) \in Seq(S)
         /\ Len(Tail(s)) = Len(s) - 1 /\ Len(s) \in Nat
OBVIOUS

(* The variables of CanTx stay of their types in every reachable state. *)
THEOREM TypeCorrect == Spec => []TypeOK
<1>1. Init => TypeOK
  <2>1. (CHOOSE b \in Mailbox : TRUE) \in Mailbox
    BY CanTxAssumption
  <2>2. Init => box \in [Task -> Mailbox]
    BY <2>1 DEF Init
  <2>3. Init => cantxq \in Seq(Nat) /\ Len(cantxq) <= Depth
    BY CanTxAssumption DEF Init
  <2>4. Init => /\ pc \in [Task -> Labels] /\ msg \in [Task -> Nat]
                /\ content \in [Mailbox -> Nat]
    BY DEF Init, Labels
  <2>5. Init => accepted \in 0..MaxMsg
    BY CanTxAssumption DEF Init
  <2>6. Init => /\ tmeie \in BOOLEAN /\ inIsr \in BOOLEAN
                /\ pending \subseteq Mailbox /\ rqcp \subseteq Mailbox
                /\ sent \subseteq Nat
    BY DEF Init
  <2> QED
    BY <2>2, <2>3, <2>4, <2>5, <2>6 DEF TypeOK
<1>2. TypeOK /\ [Next]_vars => TypeOK'
  <2> SUFFICES ASSUME TypeOK, [Next]_vars PROVE TypeOK'
    OBVIOUS
  <2> USE CanTxAssumption DEF TypeOK, Labels, hwVars, taskVars, At, Goto
  <2>1. ASSUME NEW t \in Task, Send(t) PROVE TypeOK'
    BY <2>1 DEF Send
  <2>2. ASSUME NEW t \in Task, Check(t) PROVE TypeOK'
    BY <2>2 DEF Check
  <2>3. ASSUME NEW t \in Task, Take(t) PROVE TypeOK'
    <3>1. CASE cantxq # <<>>
      <4>1. /\ Head(cantxq) \in Nat /\ Tail(cantxq) \in Seq(Nat)
            /\ Len(Tail(cantxq)) = Len(cantxq) - 1 /\ Len(cantxq) \in Nat
        BY <3>1, HeadTail
      <4>2. /\ cantxq' = Tail(cantxq) /\ msg' = [msg EXCEPT ![t] = Head(cantxq)]
            /\ pc' = [pc EXCEPT ![t] = "pick"]
            /\ UNCHANGED <<tmeie, inIsr, hwVars, box, accepted>>
        BY <2>3, <3>1 DEF Take
      <4>3. cantxq' \in Seq(Nat) /\ Len(cantxq') <= Depth
        BY <4>1, <4>2
      <4> QED
        BY <4>1, <4>2, <4>3
    <3>2. CASE cantxq = <<>>
      BY <2>3, <3>2 DEF Take
    <3> QED
      BY <3>1, <3>2
  <2>4. ASSUME NEW t \in Task, Pick(t) PROVE TypeOK'
    <3>1. CASE Available
      <4> PICK b \in Mailbox : box' = [box EXCEPT ![t] = b]
        BY <2>4, <3>1 DEF Pick
      <4> QED
        BY <2>4, <3>1 DEF Pick
    <3>2. CASE ~Available
      <4>1. /\ msg' = [msg EXCEPT ![t] = 0] /\ pc' = [pc EXCEPT ![t] = "check"]
            /\ UNCHANGED <<cantxq, tmeie, inIsr, hwVars, box, accepted>>
        BY <2>4, <3>2 DEF Pick
      <4> QED
        BY <4>1
    <3> QED
      BY <3>1, <3>2
  <2>5. ASSUME NEW t \in Task, Write(t) PROVE TypeOK'
    BY <2>5 DEF Write
  <2>6. ASSUME NEW t \in Task, Request(t) PROVE TypeOK'
    BY <2>6 DEF Request, RequestTx
  <2>7. ASSUME NEW t \in Task, Test(t) PROVE TypeOK'
    BY <2>7 DEF Test
  <2>8. ASSUME NEW t \in Task, Enable(t) PROVE TypeOK'
    BY <2>8 DEF Enable
  <2>9. CASE IsrEnter
    BY <2>9 DEF IsrEnter
  <2>10. CASE IsrLoad
    <3>1. /\ Head(cantxq) \in Nat /\ Tail(cantxq) \in Seq(Nat)
          /\ Len(Tail(cantxq)) = Len(cantxq) - 1 /\ Len(cantxq) \in Nat
      BY <2>10, HeadTail DEF IsrLoad
    <3> QED
      BY <2>10, <3>1 DEF IsrLoad, RequestTx
  <2>11. CASE IsrExit
    BY <2>11 DEF IsrExit
  <2>12. CASE Transmitted
    BY <2>12 DEF Transmitted
  <2>13. CASE UNCHANGED vars
    BY <2>13 DEF vars
  <2> QED
    BY <2>1, <2>2, <2>3, <2>4, <2>5, <2>6, <2>7, <2>8, <2>9, <2>10, <2>11,
       <2>12, <2>13, StepCases
<1> QED
  BY <1>1, <1>2, PTL DEF Spec

(* A queued message is never forgotten: some task is on its way to it or the
   interrupt that fetches it is enabled and will come. *)
THEOREM NeverStranded == Spec => []NotStranded
<1>1. Init => SomebodyCares /\ BoxWillRing
  BY DEF Init, SomebodyCares, BoxWillRing
<1>2. ASSUME TypeOK, SomebodyCares, BoxWillRing, [Next]_vars
      PROVE  SomebodyCares' /\ BoxWillRing'
  <2> USE <1>2 DEF TypeOK, Labels, Early, hwVars, taskVars, At, Goto,
              SomebodyCares, BoxWillRing, Used
  <2>1. ASSUME NEW t \in Task, Send(t) PROVE SomebodyCares' /\ BoxWillRing'
    BY <2>1 DEF Send
  <2>2. ASSUME NEW t \in Task, Check(t) PROVE SomebodyCares' /\ BoxWillRing'
    BY <2>2, CanTxAssumption DEF Check, Available
  <2>3. ASSUME NEW t \in Task, Take(t) PROVE SomebodyCares' /\ BoxWillRing'
    BY <2>3 DEF Take
  <2>4. ASSUME NEW t \in Task, Pick(t) PROVE SomebodyCares' /\ BoxWillRing'
    BY <2>4 DEF Pick
  <2>5. ASSUME NEW t \in Task, Write(t) PROVE SomebodyCares' /\ BoxWillRing'
    BY <2>5 DEF Write
  <2>6. ASSUME NEW t \in Task, Request(t) PROVE SomebodyCares' /\ BoxWillRing'
    BY <2>6 DEF Request, RequestTx
  <2>7. ASSUME NEW t \in Task, Test(t) PROVE SomebodyCares' /\ BoxWillRing'
    BY <2>7 DEF Test
  <2>8. ASSUME NEW t \in Task, Enable(t) PROVE SomebodyCares' /\ BoxWillRing'
    BY <2>8 DEF Enable
  <2>9. CASE IsrEnter
    BY <2>9 DEF IsrEnter
  <2>10. CASE IsrLoad
    BY <2>10 DEF IsrLoad, RequestTx
  <2>11. CASE IsrExit
    BY <2>11 DEF IsrExit
  <2>12. CASE Transmitted
    BY <2>12 DEF Transmitted
  <2>13. CASE UNCHANGED vars
    BY <2>13 DEF vars
  <2> QED
    BY <2>1, <2>2, <2>3, <2>4, <2>5, <2>6, <2>7, <2>8, <2>9, <2>10, <2>11,
       <2>12, <2>13, StepCases
<1>3. SomebodyCares /\ BoxWillRing => NotStranded
  BY DEF SomebodyCares, BoxWillRing, NotStranded, Used, Early
<1> QED
  BY <1>1, <1>2, <1>3, TypeCorrect, PTL DEF Spec
=============================================================================
