----------------------------- MODULE ConsolePipe -----------------------------
(***************************************************************************)
(* What a console connection promises: the bytes that enter it come out at *)
(* the other end, in order, none lost, none repeated, in pieces of any     *)
(* size.                                                                   *)
(***************************************************************************)
EXTENDS SequencesExt

CONSTANT Byte

VARIABLES
  in,   \* bytes that have entered
  out   \* bytes that have come out

Init == in = <<>> /\ out = <<>>

Enter == /\ \E b \in Byte : in' = Append(in, b)
         /\ UNCHANGED out

Leave == /\ out' # out
         /\ IsPrefix(out, out') /\ IsPrefix(out', in)
         /\ UNCHANGED in

Next == Enter \/ Leave

Spec == Init /\ [][Next]_<<in, out>>
=============================================================================
