------------------------------- MODULE MCBramble -------------------------------
(* Small instances of Bramble. *)
EXTENDS Bramble

(* The Pi sets 23:59:59 on 30 December 2099, shows one of two
   pictures, and writes characters, one of them unprintable. *)
MCByte(addr) ==
  CASE addr \in 0..6 -> {<<89, 89, 35, 7, 48, 18, 153>>[addr + 1]}
    [] addr \in 8..12 -> {65}
    [] addr = 13 -> {7, 65}
    [] OTHER -> {1}

MCFont(char) == [c \in Col |-> IF char = 32 THEN {} ELSE {0}]

(* Loads of none and of three sevenths of the time. *)
MCSample == 
  {[busy |-> 1, idle |-> 1, iowait |-> 0], [busy |-> 4, idle |-> 3, iowait |-> 2]}

MCLedArgs ==
  {[reg |-> NVRAM_MATRIX_CHAR_ADDR, bytes |-> <<c>>] : c \in {7, 65}}
  \cup {[reg |-> NVRAM_MATRIX_COLUMNS_ADDR, bytes |-> <<b, b, b, b, b>>] : b \in {193}}

(* The clock and the display have nothing to do with each other: one of them
   moves. Commands come two at a time, bramble version alone or first. *)
OneAtATime ==
  \/ bus = Anyone /\ events <= (IF base = 0 THEN 11 ELSE IF ticks = 0 THEN 9 ELSE 5)
     /\ mpc = "config" /\ ipc = "address" /\ pulses = 0 /\ reds = 0
  \/ bus = Anyone /\ ticks = 0 /\ base # 0 /\ events <= 4
  \/ bus # Anyone /\ ticks = 0 /\ pulses = 0 /\ reds = 0
     /\ events <= (IF bus # Nobody /\ bus.by = "version" THEN 26 - bus.wanted ELSE 16)
=============================================================================
