-------------------------------- MODULE CanTx --------------------------------
(***************************************************************************)
(* The transmit side of firmware/src/canbus.c. Tasks of equal priority     *)
(* call canbus_send, which appends to cantxq and then moves messages from  *)
(* the queue to the transmit mailboxes; the TX interrupt does the same     *)
(* move. Nothing protects the sequence "is a mailbox free, take a message, *)
(* load the mailbox", so it is one step each here. The interrupt runs to   *)
(* its end before a task goes on.                                          *)
(*                                                                         *)
(* Messages are numbered 1, 2, ... in the order canbus_send accepts them.  *)
(***************************************************************************)
EXTENDS Naturals, Sequences, FiniteSets

CONSTANTS
  Task,      \* the tasks that send
  Mailbox,   \* 1..n: the cell's mailboxes (3)
  Depth,     \* CAN_TX_QUEUE_DEPTH (16)
  MaxMsg     \* bound: messages accepted

ASSUME CanTxAssumption ==
  /\ Mailbox # {} /\ Mailbox \subseteq Nat
  /\ Depth \in Nat \ {0}
  /\ MaxMsg \in Nat

VARIABLES
  cantxq,    \* the software queue
  tmeie,     \* the mailbox-empty interrupt is enabled
  inIsr,     \* usb_hp_can_tx_isr is running
  pending,   \* mailboxes with a transmit request (TME clear)
  rqcp,      \* mailboxes whose request completed and was not reused (RQCP)
  content,   \* the message last written to each mailbox, 0 for none
  pc,        \* where each task is in canbus_send
  msg,       \* the message a task holds in canbus_flush, 0 for none
  box,       \* the mailbox it picked
  accepted,  \* number of messages canbus_send returned 0 for
  sent       \* history: messages the hardware has transmitted

vars == <<cantxq, tmeie, inIsr, pending, rqcp, content, pc, msg, box,
          accepted, sent>>

hwVars == <<pending, rqcp, content, sent>>
taskVars == <<pc, msg, box>>

Init ==
  /\ cantxq = <<>> /\ tmeie = FALSE /\ inIsr = FALSE
  /\ pending = {} /\ rqcp = {}
  /\ content = [b \in Mailbox |-> 0]
  /\ pc = [t \in Task |-> "idle"]
  /\ msg = [t \in Task |-> 0]
  /\ box = [t \in Task |-> CHOOSE b \in Mailbox : TRUE]
  /\ accepted = 0 /\ sent = {}

Available == pending # Mailbox

(* can_transmit takes the first mailbox that is empty. *)
FirstEmpty(b) == b \in Mailbox \ pending /\ \A c \in Mailbox \ pending : b <= c

(* A transmit request. A mailbox that has one already is write-protected. *)
RequestTx(b) == pending' = pending \cup {b} /\ rqcp' = rqcp \ {b}

At(t, label) == ~inIsr /\ pc[t] = label
Goto(t, label) == pc' = [pc EXCEPT ![t] = label]

(*************************** canbus_send ***********************************)
(* Mutant: one message too many. *)
SendTooMany(t) ==
  /\ At(t, "idle") /\ accepted < MaxMsg
  /\ Len(cantxq) <= Depth
  /\ accepted' = accepted + 1
  /\ cantxq' = Append(cantxq, accepted + 1)
  /\ Goto(t, "check")
  /\ UNCHANGED <<tmeie, inIsr, hwVars, msg, box>>

(* xQueueSendToBack, and -1 when the queue is full. *)
Send(t) ==
  /\ At(t, "idle") /\ accepted < MaxMsg
  /\ Len(cantxq) < Depth
  /\ accepted' = accepted + 1
  /\ cantxq' = Append(cantxq, accepted + 1)
  /\ Goto(t, "check")
  /\ UNCHANGED <<tmeie, inIsr, hwVars, msg, box>>

(*************************** canbus_flush **********************************)
Check(t) ==
  /\ At(t, "check")
  /\ Goto(t, IF Available THEN "take" ELSE "test")
  /\ UNCHANGED <<cantxq, tmeie, inIsr, hwVars, msg, box, accepted>>

Take(t) ==
  /\ At(t, "take")
  /\ IF cantxq # <<>>
       THEN /\ msg' = [msg EXCEPT ![t] = Head(cantxq)]
            /\ cantxq' = Tail(cantxq)
            /\ Goto(t, "pick")
       ELSE Goto(t, "test") /\ UNCHANGED <<cantxq, msg>>
  /\ UNCHANGED <<tmeie, inIsr, hwVars, box, accepted>>

(* can_transmit, first part: without an empty mailbox it fails, and
   canbus_flush ignores that. *)
Pick(t) ==
  /\ At(t, "pick")
  /\ IF Available
       THEN /\ \E b \in Mailbox : FirstEmpty(b) /\ box' = [box EXCEPT ![t] = b]
            /\ Goto(t, "write")
            /\ UNCHANGED msg
       ELSE /\ Goto(t, "check")
            /\ msg' = [msg EXCEPT ![t] = 0]
            /\ UNCHANGED box
  /\ UNCHANGED <<cantxq, tmeie, inIsr, hwVars, accepted>>

(* can_transmit, second part: identifier, length and data. *)
Write(t) ==
  /\ At(t, "write")
  /\ content' = IF box[t] \in pending THEN content
                ELSE [content EXCEPT ![box[t]] = msg[t]]
  /\ Goto(t, "request")
  /\ UNCHANGED <<cantxq, tmeie, inIsr, pending, rqcp, sent, msg, box, accepted>>

(* can_transmit, last part: TXRQ. *)
Request(t) ==
  /\ At(t, "request")
  /\ RequestTx(box[t])
  /\ msg' = [msg EXCEPT ![t] = 0]
  /\ Goto(t, "check")
  /\ UNCHANGED <<cantxq, tmeie, inIsr, content, sent, box, accepted>>

(* Mutant: the queue is not looked at again. *)
TestNever(t) ==
  /\ At(t, "test")
  /\ Goto(t, "idle")
  /\ UNCHANGED <<cantxq, tmeie, inIsr, hwVars, msg, box, accepted>>

(* What the loop left in the queue is for the interrupt. *)
Test(t) ==
  /\ At(t, "test")
  /\ Goto(t, IF cantxq # <<>> THEN "enable" ELSE "idle")
  /\ UNCHANGED <<cantxq, tmeie, inIsr, hwVars, msg, box, accepted>>

Enable(t) ==
  /\ At(t, "enable")
  /\ tmeie' = TRUE
  /\ Goto(t, "idle")
  /\ UNCHANGED <<cantxq, inIsr, hwVars, msg, box, accepted>>

(*************************** usb_hp_can_tx_isr *****************************)
IsrEnter ==
  /\ ~inIsr /\ tmeie /\ rqcp # {}
  /\ inIsr' = TRUE
  /\ UNCHANGED <<cantxq, tmeie, hwVars, taskVars, accepted>>

IsrLoad ==
  /\ inIsr /\ Available /\ cantxq # <<>>
  /\ \E b \in Mailbox :
       /\ FirstEmpty(b)
       /\ content' = [content EXCEPT ![b] = Head(cantxq)]
       /\ RequestTx(b)
  /\ cantxq' = Tail(cantxq)
  /\ UNCHANGED <<tmeie, inIsr, sent, taskVars, accepted>>

(* Mutant: the interrupt is disabled with messages left in the queue. *)
IsrExitDisables ==
  /\ inIsr /\ ~(Available /\ cantxq # <<>>)
  /\ tmeie' = FALSE
  /\ inIsr' = FALSE
  /\ UNCHANGED <<cantxq, hwVars, taskVars, accepted>>

IsrExit ==
  /\ inIsr /\ ~(Available /\ cantxq # <<>>)
  /\ tmeie' = (tmeie /\ cantxq # <<>>)
  /\ inIsr' = FALSE
  /\ UNCHANGED <<cantxq, hwVars, taskVars, accepted>>

(*************************** hardware **************************************)
(* The cell retransmits until a frame is acknowledged on the bus. *)
Transmitted ==
  /\ \E b \in pending :
       /\ pending' = pending \ {b}
       /\ rqcp' = rqcp \cup {b}
       /\ sent' = sent \cup {content[b]}
  /\ UNCHANGED <<cantxq, tmeie, inIsr, content, taskVars, accepted>>

Flush(t) ==
  Check(t) \/ Take(t) \/ Pick(t) \/ Write(t) \/ Request(t) \/ Test(t) \/ Enable(t)

Isr == IsrEnter \/ IsrLoad \/ IsrExit

Next ==
  \/ \E t \in Task : Send(t) \/ Flush(t)
  \/ Isr
  \/ Transmitted

(* Tasks of equal priority share the processor, interrupts are taken, the
   bus is alive. *)
Fairness ==
  /\ \A t \in Task : WF_vars(Flush(t))
  /\ WF_vars(Isr)
  /\ WF_vars(Transmitted)

Spec == Init /\ [][Next]_vars
FairSpec == Spec /\ Fairness

-----------------------------------------------------------------------------
Labels == {"idle", "check", "take", "pick", "write", "request", "test", "enable"}
Early == {"check", "take", "pick", "write", "request"}

(* Type correctness of the queue, the registers and the tasks' locals. *)
TypeOK ==
  /\ cantxq \in Seq(Nat) /\ Len(cantxq) <= Depth
  /\ tmeie \in BOOLEAN /\ inIsr \in BOOLEAN
  /\ pending \subseteq Mailbox /\ rqcp \subseteq Mailbox
  /\ content \in [Mailbox -> Nat]
  /\ pc \in [Task -> Labels] /\ msg \in [Task -> Nat]
  /\ box \in [Task -> Mailbox]
  /\ accepted \in 0..MaxMsg /\ sent \subseteq Nat

(* Nobody waits for nobody: a queued message has a task on its way to the
   queue, or the interrupt enabled with a mailbox that will raise it
   (canbus_flush against usb_hp_can_tx_isr). *)
NotStranded ==
  cantxq # <<>> =>
    \/ \E t \in Task : pc[t] # "idle"
    \/ tmeie /\ pending \cup rqcp # {}

(* The software queue empties: what is queued leaves it for a mailbox, with
   any interleaving of the senders and the interrupt. *)
QueueDrains == cantxq # <<>> ~> cantxq = <<>>

(* canbus.h, of canbus_send: "Return 0 on success or -1 on failure". A message
   it returned 0 for is somewhere on its way or has been transmitted. *)
Where(m) ==
  \/ m \in sent
  \/ \E i \in DOMAIN cantxq : cantxq[i] = m
  \/ \E t \in Task : msg[t] = m
  \/ \E b \in pending : content[b] = m
AcceptedIsSent == \A m \in 1..accepted : Where(m)
=============================================================================
