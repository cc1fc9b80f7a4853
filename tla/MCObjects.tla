------------------------------ MODULE MCObjects ------------------------------
(* Small instances of Objects. *)
EXTENDS Objects

(* powerman-helper and shutdown run on the management node, canping on a
   compute node. *)
MCAddress == [p \in Process |-> IF p \in Pinger THEN 33 ELSE 2]

(* canping shares nothing but queue space with the others, and what a full
   queue does to them is LoseReply too. A helper gives two commands when it is
   alone, one beside a shutdown. *)
OneAtATime ==
  LET Asleep(P) == \A p \in P : pc[p] = "new"
  IN \/ Asleep(Pinger) /\ Asleep(Shutter)
     \/ Asleep(Pinger) /\ \A h \in Helper : call[h].n <= 1
     \/ Asleep(Helper) /\ Asleep(Shutter)
=============================================================================
