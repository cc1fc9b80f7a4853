------------------------------ MODULE MCConsole ------------------------------
(* Small instances of Console. *)
EXTENDS Console

(* What the Pi prints and what clients type share only queues, which a fault
   stands for: either the Pi prints, and there is one fault, or clients at
   different addresses type, and there are as many as MaxFault. *)
OneWayAtATime ==
  \/ (\A h \in Helper : typed[h] = 0) /\ faults <= 1
  \/ printed = 0 /\ \A h \in Helper : starts[h] <= 1
=============================================================================
