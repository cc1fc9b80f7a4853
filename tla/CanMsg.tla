------------------------------- MODULE CanMsg -------------------------------
(***************************************************************************)
(* The CAN message of src/src/libbramble/canmsg.h: a 29-bit identifier     *)
(* that doubles as the arbitration priority, and up to 8 data bytes.       *)
(*                                                                         *)
(*   | pri:1 | dst:6 | src:6 | type:3 | object:8 | eot:1 | seq:4 |         *)
(*                                                                         *)
(* Both ends of the bus pack and unpack it with their own code             *)
(* (firmware/src/canbus.c and src/libbramble/canlinux.c).                  *)
(***************************************************************************)
EXTENDS Naturals, Sequences

RO == 0
WO == 1
WNA == 2
DAT == 3
ACK == 4
NAK == 6
SIG == 7

OBJ_ECHO == 0
OBJ_POWER == 1
OBJ_CONSOLECONN == 3
OBJ_CONSOLERECV == 4
OBJ_CONSOLESEND == 5
OBJ_CONSOLEDISC == 6
OBJ_SHUTDOWN == 7

ADDR_CONTROL == 16
ADDR_COMPUTE == 32

(* A message with the bitfields of struct canmsg; the data bytes are a
   sequence, whose length is dlen. *)
Message(src, dst, type, object, eot, seq, data) ==
  [pri |-> 1, dst |-> dst, src |-> src, type |-> type, object |-> object,
   eot |-> eot, seq |-> seq, data |-> data]

(* id_encode and the packing half of can_send: the identifier on the wire,
   field above field. The frame with the lowest identifier wins arbitration. *)
IdEncode(m) ==
  m.seq + 16 * (m.eot + 2 * (m.object + 256 * (m.type + 8 *
    (m.src + 64 * (m.dst + 64 * m.pri)))))

(* id_decode and the unpacking half of can_recv: each field is what the mask
   leaves of the identifier without the fields below. *)
IdDecode(id, data) ==
  LET eot == id \div 16
      object == eot \div 2
      type == object \div 256
      src == type \div 8
      dst == src \div 64
      pri == dst \div 64
  IN [pri |-> pri % 2, dst |-> dst % 64, src |-> src % 64, type |-> type % 8,
      object |-> object % 256, eot |-> eot % 2, seq |-> id % 16, data |-> data]

(* What the other end makes of a message. *)
OverTheWire(m) == IdDecode(IdEncode(m), m.data)

(* How the console and power handlers of canservices build their reply: a
   copy of the request, turned round, without data. *)
Reply(request, type) ==
  [request EXCEPT !.type = type, !.dst = request.src, !.src = request.dst,
                  !.data = <<>>]
=============================================================================
