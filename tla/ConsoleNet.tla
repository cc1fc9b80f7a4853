----------------------------- MODULE ConsoleNet -----------------------------
(***************************************************************************)
(* The CAN bus between one slot's firmware and the conman helpers that     *)
(* talk to it: what each side has sent and the other has not yet read.     *)
(***************************************************************************)
EXTENDS CanMsg, SequencesExt

CONSTANTS
  Slot,       \* CAN address of the slot's control processor
  Helper,     \* CAN addresses of the Linux nodes that may run a helper
  Mailboxes,  \* transmit mailboxes of the CAN cell (3 in the STM32)
  MaxFault    \* bound: frames lost plus sends refused in a behaviour

ASSUME NetAssumption ==
  /\ Slot \in 0..63 /\ Helper \subseteq 0..63  \* the dst and src fields have 6 bits
  /\ Slot \notin Helper
  /\ Mailboxes \in Nat \ {0}
  /\ MaxFault \in Nat

VARIABLES
  canrxq,     \* frames for the firmware, on the wire or in its receive queue
  bus,        \* frames the firmware queued: cantxq and the mailboxes
  sock,       \* sock[h]: frames in the receive buffer of h's CAN socket
  listening,  \* helpers whose socket is open
  faults      \* faults so far

netVars == <<canrxq, bus, sock, listening, faults>>

NetInit ==
  /\ canrxq = <<>>
  /\ bus = <<>>
  /\ sock = [h \in Helper |-> <<>>]
  /\ listening = {}
  /\ faults = 0

(* Among the frames the cell may hold in its mailboxes, frame i goes next
   when no frame that was queued earlier has as low an identifier. *)
Wins(i) ==
  /\ i <= Mailboxes
  /\ \A j \in 1..(i - 1) : IdEncode(bus[i]) < IdEncode(bus[j])

(* A frame crosses the bus. Each node's filters keep what is addressed to
   it; a frame for a node without an open socket is gone. *)
Deliver ==
  \E i \in 1..Len(bus) :
    /\ Wins(i)
    /\ bus' = RemoveAt(bus, i)
    /\ sock' = [h \in Helper |->
                  IF h = bus[i].dst /\ h \in listening
                    THEN Append(sock[h], OverTheWire(bus[i])) ELSE sock[h]]
    /\ UNCHANGED <<canrxq, listening, faults>>

(* A frame is dropped: a full canrxq (usb_lp_can_rx0_isr ignores the result
   of xQueueSendToBackFromISR), a full cantxq whose sender only traces the
   failure, or a full socket buffer. *)
LoseToFirmware ==
  /\ faults < MaxFault
  /\ canrxq # <<>>
  /\ canrxq' = Tail(canrxq)
  /\ faults' = faults + 1
  /\ UNCHANGED <<bus, sock, listening>>

LoseToHelper ==
  /\ faults < MaxFault
  /\ \E i \in 1..Len(bus) : Wins(i) /\ bus' = RemoveAt(bus, i)
  /\ faults' = faults + 1
  /\ UNCHANGED <<canrxq, sock, listening>>
=============================================================================
