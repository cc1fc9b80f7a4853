-------------------------------- MODULE Nvram --------------------------------
(***************************************************************************)
(* The slot as its Pi sees it over I2C, firmware/src/i2c.c: a DS1307 clock *)
(* and 56 bytes of NVRAM, some of them windows on the matrix, the slot     *)
(* address and the version. A window is copied into nvram[] at the first   *)
(* access of a transaction (valid) and put back at its end (dirty).        *)
(*                                                                         *)
(* The interrupt keeps all tasks and equal interrupts out, but not the     *)
(* seconds interrupt, so an access that copies the clock takes two steps.  *)
(***************************************************************************)
EXTENDS Rtc, Matrix

CONSTANTS
  Base,        \* register addresses the Pi starts at
  Byte(_),     \* bytes it writes to an address
  MaxEvent     \* bound: I2C interrupts

ASSUME NvramAssumption ==
  /\ Base \subseteq 0..255 /\ MaxEvent \in Nat

VARIABLES
  nvram, valid, dirty,        \* nvram[] and the flags of nvtab, by first address
  base, offset, write_count,  \* statics of i2c2_ev_isr
  isr,        \* a word copy in progress
  phase,      \* the transaction as the Pi sees it
  events,     \* bound: interrupts so far
  heard,      \* history: bytes read since the slot was last addressed
  was,        \* history: what the clock was since then
  written,    \* history: bytes written since the last stop
  stores,     \* history: regions written, once per transaction
  puts        \* history: regions put

i2cVars == <<nvram, valid, dirty, base, offset, write_count, isr>>
busVars == <<phase, events, heard, was, written, stores, puts>>
vars == <<rtcVars, matrixVars, i2cVars, busVars>>

(*************************** nvtab *****************************************)
Clock == 0
Columns == 8
Char == 13
Slot == 14
Version == 15
Debug == 48

(* Regions by their first address. *)
Region == {Clock, 7, Columns, Char, Slot, Version, Debug}
size == [r \in Region |-> CASE r = Clock -> 7 [] r = Columns -> 5 [] r = Version -> 22
                             [] r = Debug -> 8 [] OTHER -> 1]
HasPut == {Clock, Columns, Char}
CopiesClock == {Clock, Debug}

NVRAM_SIZE == 64
Address == 0..(NVRAM_SIZE - 1)

find_region_containing(addr) == {r \in Region : addr \in r..(r + size[r] - 1)}

int_to_bcd(i) == (i % 10) + 16 * (i \div 10)
bcd_to_int(b) == (b % 16) + 10 * (b \div 16)

ClockBytes(t) ==
  <<int_to_bcd(t.sec), int_to_bcd(t.min), int_to_bcd(t.hour), t.day,
    int_to_bcd(t.date), int_to_bcd(t.month), int_to_bcd(t.year), t.set_count>>

ClockTime(mem, garbage) ==
  Time(bcd_to_int(mem[0]), bcd_to_int(mem[1]), bcd_to_int(mem[2]), mem[3],
       bcd_to_int(mem[4]), bcd_to_int(mem[5]), bcd_to_int(mem[6]), garbage)

(* version_get_from_isr: a constant text, zero terminated. *)
VersionByte(i) == IF i < size[Version] - 1 THEN 49 ELSE 0

(* What a get callback leaves at an address of its region, given the clock. *)
Get(r, addr, t) ==
  CASE r \in CopiesClock -> ClockBytes(t)[addr - r + 1]
    [] r = Slot -> SlotAddress
    [] r = Version -> VersionByte(addr - r)
    [] OTHER -> 0

Fetched(R, t) ==
  [a \in Address |-> IF find_region_containing(a) \cap R = {} THEN nvram[a]
                     ELSE Get(CHOOSE r \in find_region_containing(a) : TRUE, a, t)]

(*************************** nvram_get, nvram_put **************************)
Idle == [pc |-> "idle"]

With(f, a, byte) == [b \in DOMAIN f \cup {a} |-> IF b = a THEN byte ELSE f[b]]

(* The access itself, with the regions R now valid and mem in nvram[]. *)
ReadByte(addr, mem) ==
  /\ heard' = With(heard, addr, mem[addr])
  /\ nvram' = mem
  /\ UNCHANGED <<dirty, written, stores>>

Stored(r) == \E a \in DOMAIN written : r \in find_region_containing(a)

MakesDirty(addr) == find_region_containing(addr) \cap HasPut

WriteByte(addr, mem, val) ==
  LET D == MakesDirty(addr)
  IN /\ nvram' = [mem EXCEPT ![addr] = val]
     /\ dirty' = dirty \cup D
     /\ written' = With(written, addr, val)
     /\ stores' = [r \in HasPut |->
                     stores[r] + IF r \in D /\ ~Stored(r) THEN 1 ELSE 0]
     /\ UNCHANGED heard

Access(op, mem) ==
  IF op.read THEN ReadByte(op.addr, mem) ELSE WriteByte(op.addr, mem, op.val)

(* What an access has to fault in. *)
ToFetchAlways(addr) == find_region_containing(addr)  \* mutant: valid ignored
ToFetch(addr) == find_region_containing(addr) \ valid

Begin(op) ==
  LET R == ToFetch(op.addr)
  IN /\ valid' = valid \cup R
     /\ IF R \cap CopiesClock # {}
          THEN /\ isr' = [pc |-> "get", op |-> op, first |-> rtc_time]
               /\ UNCHANGED <<nvram, dirty, heard, written, stores>>
          ELSE /\ Access(op, Fetched(R, rtc_time))
               /\ UNCHANGED isr

(* rtc_get_from_isr copies the second word, the access goes on. *)
GetRest ==
  /\ isr.pc = "get"
  /\ Access(isr.op, Fetched(find_region_containing(isr.op.addr),
                            Words(isr.first, rtc_time)))
  /\ isr' = Idle
  /\ UNCHANGED <<rtcVars, matrixVars, valid, base, offset, write_count, phase,
                 events, was, puts>>

(*************************** i2c2_ev_isr ***********************************)
(* One interrupt, taken while no other one is being served. *)
Event(from, to) ==
  /\ isr = Idle /\ phase = from /\ events < MaxEvent
  /\ phase' = to /\ events' = events + 1

(* ADDR: the Pi addresses the slot, with a start or a repeated one. *)
Addressed ==
  /\ \/ \E dir \in {"write", "read"} : Event("free", dir)
     \/ Event("write", "read")
  /\ write_count' = 0
  /\ valid' = {}
  /\ heard' = <<>> /\ was' = <<rtc_time>>
  /\ UNCHANGED <<rtcVars, matrixVars, nvram, dirty, base, offset, isr, written,
                 stores, puts>>

(* RxNE, the first byte after ADDR. *)
RxBase(reg) ==
  /\ Event("write", "write") /\ write_count = 0
  /\ base' = reg /\ offset' = 0 /\ write_count' = 1
  /\ UNCHANGED <<rtcVars, matrixVars, nvram, valid, dirty, isr, heard, was,
                 written, stores, puts>>

Here == (base + offset) % NVRAM_SIZE

(* RxNE, data. *)
RxData(val) ==
  /\ Event("write", "write") /\ write_count # 0
  /\ Begin([read |-> FALSE, addr |-> Here, val |-> val])
  /\ offset' = (offset + 1) % 256
  /\ write_count' = (write_count + 1) % 256
  /\ UNCHANGED <<rtcVars, matrixVars, base, was, puts>>

(* TxE *)
TxData ==
  /\ Event("read", "read")
  /\ Begin([read |-> TRUE, addr |-> Here])
  /\ offset' = (offset + 1) % 256
  /\ UNCHANGED <<rtcVars, matrixVars, base, write_count, was, puts>>

(*************************** cache_flush ***********************************)
Bits(byte) == {k \in 0..7 : (byte \div 2^k) % 2 = 1}

(* The put callbacks of the matrix, in the order of nvtab. *)
PutPictures ==
  LET char == nvram[Char]
      cols == [c \in Col |-> Bits(nvram[Columns + c])]
  IN IF Char \in dirty /\ char \in 32..127 THEN matrix_set_from_isr(Font(char))
     ELSE IF Columns \in dirty THEN matrix_set_from_isr(cols)
     ELSE UNCHANGED matrixVars

FlushedKeepsDirty ==  \* mutant: dirty is not reset
  /\ dirty' = dirty /\ written' = <<>>
  /\ puts' = [r \in HasPut |-> puts[r] + IF r \in dirty THEN 1 ELSE 0]
Flushed ==
  /\ dirty' = {} /\ written' = <<>>
  /\ puts' = [r \in HasPut |-> puts[r] + IF r \in dirty THEN 1 ELSE 0]

(* STOPF after writing, AF after reading: cache_flush. The clock comes first
   in nvtab, and is put in two words. *)
StopOrNack ==
  /\ Event("write", "free") \/ Event("read", "free")
  /\ IF Clock \in dirty
       THEN /\ \E g \in Garbage :
                 LET t == ClockTime(nvram, g)
                 IN isr' = [pc |-> "put", time |-> t] /\ SetFirstWord(t)
            /\ UNCHANGED <<matrixVars, dirty, written, puts>>
       ELSE /\ PutPictures /\ Flushed
            /\ UNCHANGED <<rtcVars, isr>>
  /\ UNCHANGED <<nvram, valid, base, offset, write_count, heard, was, stores>>

PutRest ==
  /\ isr.pc = "put"
  /\ SetSecondWord(isr.time)
  /\ PutPictures /\ Flushed
  /\ isr' = Idle
  /\ UNCHANGED <<nvram, valid, base, offset, write_count, phase, events, heard,
                 was, stores>>

-----------------------------------------------------------------------------
(* The seconds interrupt preempts everything, but a copy of two words does not
   last a second: no two seconds end while it is in progress. *)
Second ==
  /\ isr.pc = "get" => rtc_time = isr.first
  /\ isr.pc = "put" => rtc_time.sec = isr.time.sec
  /\ rtc_isr
  /\ was' = Append(was, rtc_time')
  /\ UNCHANGED <<matrixVars, i2cVars, phase, events, heard, written, stores, puts>>

(* Tasks run when the I2C interrupt does not. *)
Tasks(A) == isr = Idle /\ A /\ UNCHANGED <<rtcVars, i2cVars, busVars>>

Init ==
  /\ RtcInit /\ MatrixInit
  /\ nvram = [a \in Address |-> 0] /\ valid = {} /\ dirty = {}
  /\ base = 0 /\ offset = 0 /\ write_count = 0 /\ isr = Idle
  /\ phase = "free" /\ events = 0
  /\ heard = <<>> /\ was = <<rtc_time>> /\ written = <<>>
  /\ stores = [r \in HasPut |-> 0] /\ puts = [r \in HasPut |-> 0]

(* Any transaction. *)
I2c ==
  \/ Addressed \/ TxData \/ StopOrNack
  \/ \E reg \in Base : RxBase(reg)
  \/ \E val \in Byte(Here) : RxData(val)

SlotNext ==
  \/ GetRest \/ PutRest
  \/ Second
  \/ Tasks(MatrixTask) \/ Tasks(GreenTask) \/ Tasks(InitTask)
  \/ Tasks(SetRed) \/ Tasks(RedSync) \/ Tasks(PulseGreen)

(* Tasks of equal priority share the processor; interrupts return. *)
Fairness ==
  /\ WF_vars(GetRest \/ PutRest)
  /\ WF_vars(Tasks(MatrixTask)) /\ WF_vars(Tasks(GreenTask))
  /\ WF_vars(Tasks(InitTask)) /\ WF_vars(Tasks(RedSync))

-----------------------------------------------------------------------------
(* A clock read in one go is one that was: each word was the clock's at a
   moment of the transaction, and the second word is at most one second newer
   than the first (nvram_get, rtc_get_from_isr). *)
ClockReadNear ==
  isr = Idle /\ 0..6 \subseteq DOMAIN heard /\ ~Stored(Clock) =>
    \E i, j \in DOMAIN was :
      /\ j \in {i, i + 1}
      /\ \A a \in 0..6 : heard[a] = ClockBytes(Words(was[i], was[j]))[a + 1]

(* What the Pi wrote to a window stays in the cache as long as it goes on
   writing: no later access loads the window again (nvram_put). Only a read
   behind a repeated start may. *)
CacheHoldsWrites ==
  isr = Idle /\ phase = "write" =>
    \A a \in DOMAIN written :
      find_region_containing(a) \cap HasPut # {} => nvram[a] = written[a]

(* A transaction that wrote to a window puts it exactly once, at its end. *)
EachWriteOnce == isr = Idle /\ phase = "free" => puts = stores
=============================================================================
