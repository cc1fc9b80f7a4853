------------------------------- MODULE Bramble -------------------------------
(***************************************************************************)
(* The bramble commands of a Pi that show something on its slot's matrix   *)
(* or ask the slot: led, usage-bargraph, slot and version (src/cmd,        *)
(* src/libbramble).  They reach the slot through the nvmem device of       *)
(* Linux's ds1307 driver, which makes one I2C transaction of every pread   *)
(* and pwrite, one after the other.                                        *)
(*                                                                         *)
(* With bus = Anyone no command runs, and any transactions occur.          *)
(***************************************************************************)
EXTENDS Nvram

CONSTANTS
  NR_CPUS,
  Sample,      \* counters /proc/stat may show of a CPU: [busy, idle, iowait]
  Temperature, \* degrees the thermal zone shows
  Garbled,     \* pixels that a temp_C nobody has set comes to
  LedArgs      \* arguments of bramble led: [reg, bytes]

NR_COLS == 5
NR_ROWS == 7
Cpu == 0..(NR_CPUS - 1)
Unread == [busy |-> 0, idle |-> 0, iowait |-> 0]

ASSUME BrambleAssumption ==
  /\ NR_CPUS \in 1..(NR_COLS - 1)
  /\ Sample \subseteq [busy : Nat, idle : Nat, iowait : Nat]
  /\ Temperature \subseteq Nat /\ Garbled \subseteq 0..NR_ROWS

VARIABLES
  bus,     \* the pread or pwrite under way
  bar,     \* the usage-bargraph process
  drawn    \* history: the picture meant by the last command, by columns

commandVars == <<bus, bar, drawn>>
allVars == <<vars, commandVars>>

(*************************** the nvmem device ******************************)
NVRAM_MATRIX_COLUMNS_ADDR == 0
NVRAM_MATRIX_CHAR_ADDR == 5
NVRAM_SLOT_ADDR == 6
NVRAM_VERSION_ADDR == 7

Anyone == [by |-> "anyone"]
Nobody == [by |-> "nobody"]
Blank == [c \in Col |-> {}]

(* A command starts when the bus is free and the slot has started up. bytes
   are to be sent, wanted is the number of bytes to be received. *)
Request(by, reg, bytes, wanted, picture) ==
  /\ bus = Nobody /\ ipc = "done"
  /\ bus' = [by |-> by, at |-> "start", reg |-> 8 + reg, bytes |-> bytes,
             wanted |-> wanted, picture |-> picture]
  /\ UNCHANGED <<vars, drawn>>

nvram_write(by, reg, bytes, picture) == Request(by, reg, bytes, 0, picture)
nvram_read(by, reg, len) == Request(by, reg, <<>>, len, drawn)

Going == bus \notin {Anyone, Nobody}

(* One byte, start or stop: A, and the next stage. *)
Transfer(from, A, to) ==
  /\ Going /\ bus.at = from /\ A
  /\ bus' = [bus EXCEPT !.at = to,
               !.bytes = IF to = "bytes" /\ from = to THEN Tail(@) ELSE @,
               !.wanted = IF to = "take" /\ from = to THEN @ - 1 ELSE @]
  /\ UNCHANGED <<bar, drawn>>

SendStart == Transfer("start", Addressed /\ phase' = "write", "register")
SendRegister ==
  \/ Transfer("register", bus.wanted = 0 /\ RxBase(bus.reg), "bytes")
  \/ Transfer("register", bus.wanted > 0 /\ RxBase(bus.reg), "repeat")
SendByte == Transfer("bytes", bus.bytes # <<>> /\ RxData(Head(bus.bytes)), "bytes")
RepeatStart == Transfer("repeat", Addressed /\ phase' = "read", "take")
TakeByte == Transfer("take", bus.wanted > 0 /\ TxData, "take")

(* The call returns after the end of the transaction. *)
Finish ==
  /\ Going /\ bus.at \in {"bytes", "take"} /\ bus.bytes = <<>> /\ bus.wanted = 0
  /\ StopOrNack
  /\ bus' = Nobody /\ drawn' = bus.picture
  /\ bar' = IF bus.by # "bar" THEN bar
            ELSE [bar EXCEPT !.pc = IF @ = "blanking" THEN "gone" ELSE "sample"]

(*************************** bramble usage-bargraph ************************)
(* A picture needs no more of a ratio than its whole sevenths. *)
floor7(part, whole) == (NR_ROWS * part) \div whole

cpu_idle(x) == x.idle + x.iowait
cpu_total(x) == cpu_idle(x) + x.busy

(* The pixels of proc_stat_calc_cpu_usage between two samples. *)
usage(s, t) ==
  LET total_delta == cpu_total(t) - cpu_total(s)
      idle_delta == cpu_idle(t) - cpu_idle(s)
  IN IF cpu_total(s) = 0 \/ cpu_total(t) = 0 \/ total_delta <= 0 THEN 0
     ELSE floor7(total_delta - idle_delta, total_delta)

(* Those of scale(30, 85, temp_C). *)
scale(degrees) ==
  IF degrees < 30 THEN 0 ELSE IF degrees > 85 THEN NR_ROWS
  ELSE floor7(degrees - 30, 85 - 30)

TopDown(n) == {j \in 0..(NR_ROWS - 1) : n < 0 \/ j < n}  \* mutant: j counts up
(* create_bargraphs: the bits of a column, from the bottom up until n, which
   counts down, is 0; the top row is 0. *)
Column(n) == {j \in 0..(NR_ROWS - 1) : n < 0 \/ NR_ROWS - 1 - j < n}

(* The byte with these bits set. *)
ByteOf(bits) == CHOOSE byte \in 0..255 : Bits(byte) = bits

(* A line that parses as a CPU's. *)
read_proc_stat_cpu == Sample

(* The counters of the first n CPUs; the line after them did not parse. With
   n = 0 that may have been the line of all CPUs. *)
proc_stat_get_cpus ==
  UNION {{[c \in Cpu |-> IF c < n THEN f[c] ELSE Unread] :
            f \in [0..(n - 1) -> read_proc_stat_cpu]} : n \in 0..NR_CPUS}

(* What a picture of the load means: a row is lit if the CPU was busy for the
   part of the time the row stands for. *)
BusyRows(s, t) ==
  LET busy == t.busy - s.busy
      time == cpu_total(t) - cpu_total(s)
  IN {r \in 0..(NR_ROWS - 1) : /\ Unread \notin {s, t} /\ time > 0
                              /\ NR_ROWS * busy >= (NR_ROWS - r) * time}

(* The pixels of temp_C, which temp_read leaves unset when it fails. *)
TempColumn == {scale(t) : t \in Temperature} \cup Garbled

(* The columns of the CPUs, then of the temperature. The first sample is only
   the next one's last. *)
Measure ==
  /\ bar.pc = "sample" /\ bus # Anyone
  /\ \E cur \in proc_stat_get_cpus :
       \/ /\ bar.last = <<>>
          /\ bar' = [bar EXCEPT !.last = cur]
       \/ /\ bar.last # <<>>
          /\ \E n \in TempColumn :
               LET bits == [c \in 0..(NR_COLS - 1) |->
                              IF c \in Cpu THEN Column(usage(bar.last[c], cur[c]))
                              ELSE IF c = NR_CPUS THEN Column(n) ELSE {}]
               IN bar' = [pc |-> "update", last |-> cur,
                    bytes |-> [i \in 1..NR_COLS |-> ByteOf(bits[i - 1])],
                    picture |-> [c \in Col |-> IF c \in Cpu THEN BusyRows(bar.last[c], cur[c])
                                               ELSE bits[c]]]
  /\ UNCHANGED <<vars, bus, drawn>>

BarAt(pc) == bar' = [bar EXCEPT !.pc = pc, !.bytes = <<>>, !.picture = Blank]
Fails(pc) == BarAt(pc) /\ UNCHANGED <<vars, bus, drawn>>

(* update_display warns of a nvram_open or nvram_write that fails. *)
update_display ==
  /\ bar.pc = "update"
  /\ \/ Fails("sample")
     \/ nvram_write("bar", NVRAM_MATRIX_COLUMNS_ADDR, bar.bytes, bar.picture)
        /\ BarAt("writing")

(* SIGTERM finds the process anywhere but in pwrite, which is seen to its end,
   and what the handler interrupted is not taken up again. *)
sighandler ==
  \/ bar.pc \in {"sample", "update"} /\ bus # Anyone /\ Fails("blank")
  \/ bar.pc = "blank" /\ Fails("gone")
  \/ /\ bar.pc = "blank"
     /\ nvram_write("bar", NVRAM_MATRIX_COLUMNS_ADDR, [i \in 1..NR_COLS |-> 0], Blank)
     /\ BarAt("blanking")

(*************************** bramble led, slot, version ********************)
(* The arguments of bramble led: one character, or a byte for each column. *)
ASSUME LedAssumption ==
  \A a \in LedArgs :
    /\ a.bytes \in Seq(0..255)
    /\ Len(a.bytes) = IF a.reg = NVRAM_MATRIX_CHAR_ADDR THEN 1 ELSE NR_COLS

(* led_main: a printable character, or columns of seven bits. *)
Accepts(a) ==
  \/ a.reg = NVRAM_MATRIX_CHAR_ADDR /\ a.bytes[1] \in 32..126
  \/ a.reg = NVRAM_MATRIX_COLUMNS_ADDR /\ \A i \in DOMAIN a.bytes : a.bytes[i] < 128

led_main ==
  \E a \in LedArgs :
    /\ Accepts(a)
    /\ nvram_write("led", a.reg, a.bytes,
         IF a.reg = NVRAM_MATRIX_CHAR_ADDR THEN Font(a.bytes[1])
         ELSE [c \in Col |-> Bits(a.bytes[c + 1])])
    /\ UNCHANGED bar

slot_get == nvram_read("slot", NVRAM_SLOT_ADDR, 1) /\ UNCHANGED bar
version_main == nvram_read("version", NVRAM_VERSION_ADDR, size[Version]) /\ UNCHANGED bar

-----------------------------------------------------------------------------
BrambleInit ==
  /\ Init
  /\ bus \in {Anyone, Nobody}
  /\ bar = [pc |-> "sample", last |-> <<>>, bytes |-> <<>>, picture |-> Blank]
  /\ drawn = Blank

Transaction ==
  \/ SendStart \/ SendRegister \/ SendByte \/ RepeatStart \/ TakeByte \/ Finish
Command == Measure \/ update_display \/ sighandler \/ led_main \/ slot_get \/ version_main

BrambleNext ==
  \/ Transaction \/ Command
  \/ bus = Anyone /\ I2c /\ UNCHANGED commandVars
  \/ SlotNext /\ UNCHANGED commandVars

BrambleSpec == BrambleInit /\ [][BrambleNext]_allVars /\ Fairness

(* Once everything has come to rest, the matrix shows what the last command
   was to show: across the processes that share the bus, the handler that cuts
   a bargraph short, the windows of the cache, the interrupt and matrix_task,
   which may be in the middle of an older picture. *)
DisplayIsLast ==
  /\ bus = Nobody /\ isr = Idle /\ ipc = "done"
  /\ mpc = "take" /\ ~mNotified
  => \A r \in Row : shown[r] = {c \in Col : r \in drawn[c]}
=============================================================================
