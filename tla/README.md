# TLA+ models of pi-cluster-two

pi-cluster-two is a crate of Raspberry Pi carriers. Each slot has an STM32
running FreeRTOS (`firmware/src`, the kernel in `firmware/librtos`), which
powers its Pi, listens to its serial console, emulates a clock and a display
over I2C, and sits on a CAN bus with the STM32s and the Linux nodes of the other
slots. On the Linux side (`src/`) the `bramble` command talks to its own slot
over I2C and to the others over SocketCAN; two of its subcommands,
`conman-helper` and `powerman-helper`, are what conman and powerman run.

## The system

| component | state | operations | talks to |
|---|---|---|---|
| console, slot side (`canservices.c`, `serial.c`) | `console`, the cancon task's `seq` and message, two stream buffers, the overrun latch | connect, disconnect, data in, ACK in (task canrx); read, pack, send, wait (task cancon); the USART interrupt | cantxq, the Pi's serial line, the helpers |
| console, helper (`cmd/console.c`) | `chunk[16]`, four libev watchers | CAN, stdin, two timers, start, exit | the slot, conman |
| message format (`canmsg.h`, `canbus.c`, `canlinux.c`) | none | pack and unpack the 29-bit identifier | both ends of the bus |
| CAN transmit (`canbus.c`) | `cantxq`, three mailboxes, TMEIE | `canbus_send`, `canbus_flush`, TX interrupt | all firmware tasks |
| CAN receive (`canbus.c`) | `canrxq` | RX interrupt, `canbus_recv` | canrx |
| power (`power.c`) | GLOBAL_EN, backup register 1, button, notification of shutdown_task | `power_set_state`, `power_shutdown`, button loop, `power_init` | the Pi, canrx |
| object requests (`canobj.c`, `cmd/power.c`, `cmd/shutdown.c`) and echo (`cmd/canping.c`) | one request, or a ring of time stamps | write, read with a timeout; timer and CAN callbacks | canrx of the slots |
| NVRAM over I2C (`i2c.c`) | region cache, valid and dirty flags, byte counters | five causes of the event interrupt, get and put callbacks | the Pi, clock, matrix |
| clock (`rtc.c`) | calendar | seconds interrupt, set from the interrupt | NVRAM |
| LED matrix and activity LED (`matrix.c`) | frame buffer, the chip, two notifications | `matrix_task`, `green_task`, start-up, red LED, setter from the interrupt | every sender on the bus |
| bramble commands on the slot (`cmd/led.c`, `usage_bargraph.c`, `slot.c`, `version.c`, `libbramble`) | the last sample of /proc/stat, the bar graph | pread and pwrite of the nvmem device, sampling, SIGTERM | NVRAM |
| kernel tasks (`tasks.c`, `list.c`) | ready, delayed, event lists, tick, priorities, notifications | every call the firmware makes, tick, context switch | everything in the firmware |
| kernel queues (`queue.c`) | items, locks, mutex holders | send, receive, peek, take, give, from tasks and interrupts | tasks, lists |
| kernel streams (`stream_buffer.c`) | a ring, trigger level, two waiters | send, receive, reset, trigger, from tasks and interrupts | tasks |
| kernel heap (`heap_4.c` and its alternatives) | the free list | malloc, free | task creation and deletion |
| trace (`trace.c`, `miniprintf.c`) | none that matters | debug output | ITM |

Behaviours that are hard: tasks of one priority that are time sliced and share
`canbus_send` and `power_set_state` without a lock; interrupts that do the same
moves as the tasks; a seconds interrupt no critical section masks; frames lost in
full queues; frames that overtake each other in the mailboxes; replies that say
nothing about their request; timeouts on both sides that race with what they
wait for; helpers that die and are started again at the same address;
connections taken over by a second client; I2C transactions with repeated
starts that outlast the data they read; a Pi that turns itself off; resets. In
the kernel: tasks switched between any two critical sections of a call, the tick
count's wrap, lock counts of queues at their limit, priorities lent and taken
back in the middle of waits that time out.

`PROJECT.json` lists the hazards with the line where each bites and the
properties that watch it.

## Modules

    CanMsg              the message and its identifier
      DataFacts         lemmas: identifiers, sequences, messages cut and put together
      ConsoleNet        the bus: what one side sent and the other has not read
        ConsoleFirmware the slot: USART, cancon, the console handlers of canrx
        ConsoleHelper   the helpers: every callback of console.c
          Console       both ends together, timeouts, fairness, properties
            MCConsole
            Console_proofs      (with DataFacts) types, connection
              ConsoleData_proofs  bytes, keys, acknowledgements, the pipe
      Objects           power, shutdown and echo requests to several slots
        MCObjects
        Objects_proofs  (with DataFacts)
    ConsolePipe         abstract: what goes in comes out, in order
    CanTx               canbus_send, canbus_flush and the TX interrupt
      CanTx_proofs
    Power               power_set_state, button, shutdown pulse, resets
      Power_proofs
    Rtc                 the clock and its calendar
    Matrix              the display and the activity LED
      Nvram             (with Rtc) the I2C interrupt, the cache, the callbacks
        Bramble         the bramble commands above it
          MCBramble
          Bramble_proofs  clock, display, cache, the last picture
    KernelList          list.c: the circular lists
      Tasks             ready and delayed lists, tick, notifications, events
        TaskControl     delay, suspend, priority, create, delete
        Queue           queues, semaphores, mutexes: what happens in one section
          StreamBuffer  the ring and its waiters
            StreamBuffer_proofs
    Heap                heap_4.c
      Heaps             heap_1.c, heap_2.c, heap_5.c and the choice among them
    KernelBase          (with all of these) start-up, switch, tick, interrupts
      QueueCalls        the calls on queues, section by section
        TaskCalls       those on tasks, streams and the heap
          Kernel        the system and its properties
            MCKernel

The two large compositions are Bramble (commands, bus, interrupt, cache, clock,
display) and Kernel (scheduler, queues, streams and heap under one another's
calls). ConsolePipe is the abstract specification Console implements.

### Console

A step of the model is what runs without another party's step making a
difference. canrx and cancon share one processor but are preempted by the tick,
so cancon's loop body is four steps: `ConRecv` (`serial_recv`), `ConPack` (the
header, which reads `console` and the stream buffer), `ConSend` or
`ConSendFails`, and `ConAcked` or `ConTimeout` (`ulTaskNotifyTake`), or
`ConWoken`: a task suspended during that wait and resumed by the next
connection does not go back to waiting. Each handler
of canrx is one step; a handler's steps commute with those of cancon between
its accesses to `console`, the USART and the task state. (`vTaskSuspend` takes
effect in the middle of cancon's loop; that is why `suspended` guards every one
of its steps.) A callback of the helper's event loop is a step.

Bytes the Pi prints are numbered, so that loss, repetition and disorder show;
keys carry the helper that read them. `accepted`, `toPi`, `out` and
`unanswered` are history variables. A frame goes through `id_encode` and
`can_recv` (or `can_send` and `id_decode`) when it crosses the bus
(`OverTheWire`). Frames leave the slot in the order their identifiers win
arbitration among the first `Mailboxes` of the queue (`Wins`), which is not
always the order they were sent in: within a chunk the sequence number makes
it so, but a seq 0 frame of the next chunk has the lower identifier than an
end-of-chunk frame before it. In the other direction the Linux node sends its
frames in order.

Timeouts are untimed. Each is a step that is allowed when what it waits for
cannot come any more, and also when it is on its way but somebody named in
`Slow` ("slot", "bus", "helper") is dawdling (`ReplyLate`, `ChunkLate`,
`AckLate`). canrx really is slow at times: it sleeps in `power_set_state` until
the Pi's power follows.

The refinement `PipeSpec` maps the bytes put in `serialrxq` to the abstract
pipe's input and the helper's stdout to its output.

### CanTx

Every step of `canbus_flush` between which another task or the interrupt may
run is a step: the test for a free mailbox, the dequeue, and the three parts of
libopencm3's `can_transmit` (choose a mailbox, write it, request transmission),
then the test of the queue and the enabling of TMEIE. The interrupt handler
runs to its end before any task goes on. libopencm3 is not in the repository;
`can_transmit` and the cell are external and follow its documented behaviour
(a mailbox with a request pending is write protected; RQCP stays until the
mailbox is used again).

### Power

`power_set_state` is one step for each access to GLOBAL_EN, RUN_PG and the
backup register, for each of its two callers. The regulator follows GLOBAL_EN
after a while, except that a Pi that has halted does not come on again before
GLOBAL_EN has been seen low. `vTaskDelay(100)` is that observation, provided
GLOBAL_EN stays low (`LongEnough`). The button is sampled by `PowerLoop`, with
the two thresholds counted in loops. `PowerOnReset` and `WarmReset` are
`power_init` with and without `por_flag`; GLOBAL_EN is an input, pulled up,
between reset and `power_init`, so a Pi that was off may come on.

Nothing in `power.c` keeps its callers apart, and nothing in the model does:
commands, presses, halts of the Pi and resets come at any step of a call, or
right behind one another. Two histories let the properties say what went before.
`joint` lists the calls since nobody was in `power_set_state`, so that a
call is `Alone` while it is the only one listed; calls for opposite states
(`Opposed`) stay listed until a reset, as the register may be wrong from
then on. `hasty` says that one of them was for on and began before the regulator
had followed GLOBAL_EN, or that the Pi halted during it.

### Objects

Processes on Linux nodes (powerman-helper, shutdown, canping) against several
slots. The interrupt fills `canrxq`, canrx handles one request to its end, except
that it sleeps in `power_set_state` (`cur`) until the Pi's power follows (`Settle`);
replies leave in the order of their identifiers (`Wins`) and may be lost in a
full queue or socket. A process skips what does not match its request
(`Matches`: source and object only, as in `canobj.c`), takes the first match, or
times out. A reply carries nothing that says what it answers; the `req` field
that each frame has here is there for the properties only. The Pi boots, halts
and turns itself off.

### Bramble: the slot as its Pi sees it

`Rtc` is the clock. A `struct rtc_time` is copied as two words, and the seconds
interrupt is not masked, so the accesses of the I2C interrupt to it are two
steps (`GetRest`, `PutRest`); one second may end between them, but not two
(`Second`: copying two words takes well under a second). `Matrix` keeps the frame buffer (`pending`), the
copy matrix_task clocks out (`visible`), the rows that differ (`update`) and what
the chip shows (`shown`); a task yields at every row. `Nvram` has an action for
each cause of the event interrupt (address, first byte, byte in, byte out, stop
or NACK); an access to a region that is not valid runs its get callback, the end
of a transaction the put callbacks of the dirty ones. `Bramble` adds the Linux side: one
transaction per pread or pwrite, a byte at a time, and the commands that make
them. A bar graph is drawn from two samples of `/proc/stat`, whose lines for the
later CPUs may be missing, and is wiped by the handler of SIGTERM.

With `bus = Anyone` no command runs and any sequence of transactions occurs;
otherwise the commands' transactions do.

`heard`, `was`, `written`, `stores`, `puts` and `drawn` are history: the bytes the
Pi got in this transaction, the values the clock had since, the bytes it wrote, and what the last
command meant to show. A picture is compared with its meaning (`BusyRows`), not
with the arithmetic of `create_bargraphs`.

### Kernel

The kernel's static variables and control blocks are one record, `k`, and a
kernel function is an operator on it; `Tasks`, `TaskControl`, `Queue` and
`StreamBuffer` are these functions, one for each critical section or stretch
with the scheduler suspended. `QueueCalls` and `TaskCalls` put the sections in
order, so that `pc[t]` says which call a task is in and how far it got;
`KernelBase` has what falls between them: PendSV, SysTick and the interrupts.
An interrupt runs to its end (none nests here) between any two steps, and its
switch is pended. FreeRTOS's
configuration is the firmware's: preemptive, time sliced, task selection by
bitmap, mutexes and notifications, heap_4.

The firmware decides which calls are made. A `load` is such a choice, made at the
start: tasks and priorities, each task's calls, the interrupts' calls, the
allocator. Some loads go beyond the firmware (message buffers, `vTaskDelayUntil`,
mutexes): it links that code and the next change may use it.

`Heap` and `Heaps` keep blocks as `[at, size]`, in units of the alignment, with the headers counted.
heap_1, heap_2 and heap_5 are not linked (`Makefile.am` lists them as extra files)
and stand behind the same calls.

## Runs

| run | asks | shows |
|---|---|---|
| `console_stream` | with no faults and prompt parties, is the console a pipe? | `PipeSpec`: the slot, bus and helper implement `ConsolePipe`; `BytesArrive`: every byte taken from the Pi is shown eventually; `OverrunEnds`; `TypeOK` |
| `console_faults` | what survives faults, two clients and slow parties, and does a helper know what the Pi has got? | `NoDuplicate`: no byte is ever shown twice, by one client or two; `ConnectedRuns`; `KeysReachPi`, `KeysInOrder`, `OneAckAwaited` |
| `cantx` | can the transmit path stick? | `NotStranded` in every state, `QueueDrains` under fairness |
| `power` | whatever comes when, is power control right? | `ResetRestores`, unless opposite calls met; `LowIsNoticed`: a halted Pi notices that GLOBAL_EN was low before a call that is alone raises it, unless the call before was for off; `HangsInHasteOnly`: `power_set_state` returns unless calls overlap, or one for on comes too soon or on a Pi about to halt; `ShutdownPulsed` |
| `objects` | is what a command prints or waits for true? | `OwnAnswer`: only a reply to a request given up, or to another process at the address, is mistaken for one's own; `ReportsWhatIs`; `ShutdownHonest`; `PingTimes`; `ShutdownEnds` |
| `slot_io` | is the slot's memory whole, whatever falls between its steps? | `ClockReadNear`: no clock is read that is not of two successive seconds; `ClockValid`: the clock leaves the calendar in no way but by counting its year past 99; `CacheHoldsWrites`; `EachWriteOnce`: a byte written reaches the device behind it once; `ShowsWhatIsPending`, `GreenRests`, `PulseEnds`; `DisplayIsLast`: when all is at rest the matrix shows what the last command meant |
| `kernel` | does the kernel keep its promises under the firmware's kinds of load? | `ListsAgree`, `UrgentRuns`, `SleepersInTime`, `NoWakeUpLost`, `QueuesKeepOrder`, `MutexPriorities`, `StreamWakes`, `StreamsKeepOrder`, `MessagesWhole`, `HeapSound` |
| `console_whole` | is every little problem fatal, as console.c says? | no: one lost or refused frame leaves a hole that nobody notices |
| `cantx_lost` | is a message `canbus_send` accepted sent? | no, when its mailbox is taken between the test and the load |
| `power_hang` | does `power_set_state` return? | not when the Pi halts between the test and the wait of an "on", nor when "on" comes right behind "off" on a Pi that had halted |
| `rtc_calendar` | is the day after midnight the next one? | no: month ends, December and leap years are wrong |
| `rtc_century` | is the year 00-99? | no: 100 follows 99 |

The last five are expected violations; `PROJECT.json` quotes the line each
contradicts.

### Bounds

Sizes are scaled so that each limit is reached.

*Console.* A chunk is 2 messages of 1 byte (16 of 8 in the code), `serialrxq`
holds 2 bytes (4096) with `RxResume = RxLen`, so that an overrun ends exactly at
the boundary, and the transmit buffer 2 or 3 (128). Five bytes give two whole
chunks and a rest. `MaxFault` bounds the lost frames, refused sends and socket
errors, which fall anywhere; `MaxStart` the processes started at one address,
`MaxProcess` those at all. `OneWayAtATime` (`MCConsole`) splits `console_faults`
in two: the Pi prints three bytes, with one fault, to two processes at two addresses
or one after the other at the same; or two processes, at different addresses, send
three keys, with two faults. (With a second process at the same address
`OneAckAwaited` fails: it may take its predecessor's ACK for its own.)

*CAN.* Mailboxes are 3 as in the hardware in the console and object runs, 2 in
`cantx`, where five messages fill the mailboxes and a queue of 2, and two tasks
and the interrupt compete.

*Power.* `Short = 1`, `Long = 3` loops keep the order of the two thresholds; 2
commands, 2 presses and 1 reset give each pair of requests in each order, from one
caller or both, behind each other or at once. `power_hang` has three
commands and neither presses nor resets, so that no overlap is to blame.

*Objects.* Two slots, `canrxq` of one frame (16), two time stamps (256) and three
pings, so that a stamp is used again; the target 16 stands for the slot number
that the parser lets through by mistake. `OneAtATime` keeps apart what shares
nothing: canping runs alone; a helper gives two commands alone, one beside a
shutdown.

*slot_io.* Rows 0 and 6 and columns 0 and 1 of the 7 by 5: the code treats all
alike, the outer rows differ in `create_bargraphs`. One CPU, two samples that
differ by 0 or 3/7 of the time, temperature at the top of the scale. The clock
starts at the last second of a day and ticks twice, so that a tear may fall at
midnight and a second one behind it. `OneAtATime` lets one part move at a time: a whole access to
the clock (11 events) with two ticks; any short accesses with the matrix's tasks
at work; or commands, two at a time, the longest (`bramble version`, whose reply is
over 20 bytes) first or alone. The pulse and the red LED come once. One clock starts
on 30/12/99, so that it turns to year 100. A start may be repeated anywhere, also
after data was written, which Linux's drivers do not do. A read behind it finds
the cache invalidated at `i2c.c:299` and loads it again over unflushed writes;
`CacheHoldsWrites` therefore speaks of the writing part of a transaction. What is
put may then be what was loaded, but each byte is put once.

*kernel.* `TickMod = 4` makes the tick count wrap within a few steps, and delays
and periods go past it. Three priorities, four tasks and the idle task, of which
a load uses at most three beside it. The queue holds two items, the serial stream
two bytes and the message buffer three. `MaxPended` and `MaxValue` cap pended
ticks and notification values, both unbounded only in name. The heap of 23 units has room for one of two tasks at
a time beside the others; heap_5 gets two regions. Fifteen loads each work one part: timing,
queues from an interrupt and to one, semaphores, mutexes with timeouts, streams
in, out and between tasks, messages, periods, and creation under each allocator.
About 650 thousand states.

### Fairness

Weak fairness of the tasks, the interrupts, the bus and the helper's event loop:
the FreeRTOS scheduler time slices tasks of equal priority, and these tasks are
all of the highest; interrupts are unmasked and end; a CAN cell retransmits until
acknowledged; libev serves what is ready. None for what people and other
programs do (printing, typing, pressing, starting, losing frames). In `Power`
the regulator is fair: it follows GLOBAL_EN unless the Pi halted itself. In
`Objects` so are the slots, their Pis (a boot or a halt ends) and the waiting
processes. In
`Nvram` the second half of a torn access and the slot's own tasks are; the Pi's
transactions are not, and need not go on. `Kernel` has no liveness property: what
a task waits for is up to the load.

## Proofs

`tlapm` checks the modules named `_proofs` and `DataFacts`. The theorems hold for
every value of the constants that the named assumptions allow: any number of
helpers, processes, slots and tasks, any sizes, any faults and tardiness.

*Facts about data* (`DataFacts`). `RoundTrip`: a message whose fields fit their
widths is unpacked as it was packed, by splitting off one field at a time. Then
what the sequence operators of the community modules do to the values of a
sequence and their order, and what a chunk cut into messages and put together
again is (`FlattenSeq`). The library's induction theorems cannot be
instantiated here; an induction is done as a proof by contradiction that takes a
least number or a shortest sequence.

*Console.*
- `Console_proofs!TypeCorrect`. `TypeInv` says what each channel may carry: a request
  comes from a helper and goes to the slot, what the slot sends carries bytes of
  the Pi or nothing, a chunk has the end `write_chunk_to_stdout` looks for.
- `Console_proofs!ConnectionConsistent`: the connection flag, the task's
  suspension and the receive interrupt agree.
- `ConsoleData_proofs!NoByteTwice`. `NoDuplicate` speaks of outputs only; `OnePlace`
  says that a byte is in at most one of the receive buffer, cancon's message, the
  frames on the bus, and each helper's socket, chunk and output, once, and in
  none before the interrupt takes it from the line. Each step moves bytes
  between places or drops them.
- `ConsoleData_proofs!KeysStayInOrder`. `KeyOrder`: the keys a helper's frames carry
  ascend from the head of the queue to its end, have all been typed, and are
  greater than what the Pi has from it.
- `ConsoleData_proofs!AckMeansKeysReached`, `OneTimerIsEnough`, from `MaxStart = 1`.
  `TokenInv`: of a process's request and its answer at most one is on its way; a
  frame with keys holds every key the Pi lacks; an ACK of keys is made when the Pi
  lacks none.
- `ConsoleData_proofs!ConsoleIsPipe`, from `FaultFree`: the console implements
  `ConsolePipe`. `PipeInv`: a connection is unused, calling, streaming or gone; while
  it is streaming, what has entered is the process's output, the text of the present
  chunk's pieces, what cancon holds and what is left in `serialrxq`, in this order
  (`Flow`). Each piece is either on the way or in `chunk[]` at its number. So a chunk
  is complete exactly when its last piece was sent and none is on the way, its
  ACK meets a cancon that waits for it, and the timeout of `recv_timeout_cb` never finds
  a chunk that has all its pieces but was not written. That a piece is on the way
  once is `OnePlace`.

*CAN transmit.*
- `CanTx_proofs!TypeCorrect`, `NeverStranded`. `NotStranded` is not inductive. The
  invariant splits it in two: a non-empty queue has TMEIE set or a task out of
  its idle state (`SomebodyCares`), and if no mailbox could raise the interrupt,
  a task still has its load of a mailbox before it (`BoxWillRing`). Only a task
  past its last test may rely on the interrupt, and only the interrupt that
  finds the queue empty turns itself off.

*Power.*
- `Power_proofs!TypeCorrect`; `BackupIsCurrent` and `ResetKeepsPower`, for calls that
  overlap as they like. `RegisterInv`: the calls under way are listed in `joint`
  (`Listed`); unless opposite ones met, a call that has written GLOBAL_EN finds
  its value there until it has saved it, or another one has lowered it and will
  raise it again (`EnableStays`); and with no call under way the register equals
  GLOBAL_EN (`BackupCurrent`). A warm reset copies the register to
  GLOBAL_EN, so at such a moment it changes nothing.
- `Power_proofs!HaltedPiNotices`, with requests as close to each other as they like and
  a Pi that halts at any step: a call that is alone raises GLOBAL_EN without a
  halted Pi noticing only if the register says off, that is, behind a call for off;
  that case is real, and hangs the call (run `power_hang`). `LowInv`: a call
  that is alone and has yet to write GLOBAL_EN finds it as the register says, so one
  that raises it although the register says on has lowered it and waited. What it
  takes for granted is that 100 ms are enough (`LongEnough`).

*Object requests* (`Objects_proofs`). Under all of them lies `Base`: types; every
frame on its way is a request of the kind its process makes, at the slot it is
addressed to, or an answer to such a request, and its number is one that process
has reached (`FramesOK`); the Pi's state is among those its asker has seen
(`SinceOK`). Every step is a `Flow`: it moves frames, makes answers of requests
(`Answers`) or sends new requests.
- `PingsAreTimed`. `Stamped`: entry `i` of the ring holds the last number sent that
  is `i` modulo the ring's size, so that it is the number itself as long as fewer
  than that many were sent since (`Timed`).
- `AnswersAreOwn` and `ReportsAreTrue`, from `HelperInv`. A helper's request is in
  one place at a time (`Once`: wire, queue, handler, reply, socket); one on its way is
  the request waited for or was given up (`Pending`); a reply to the request waited
  for says what has been done, or a state the Pi had since it was sent (`Tells`);
  and so does the answer taken (`Right`).
- `ShutdownIsHonest`, from `OneEach`: shutdown commands run at different addresses.
  Other processes may share the command's address, and it may take their answers.
  `Passes`: as long as the power has not been off since the command began, a reply
  that says off is not behind one that says the shutdown was obeyed, in any
  socket or queue, nor still at the slot once such a one has arrived. This is kept
  since of the two the bus takes the reply about power first (`PowerWins`). When
  the command reads its first answer it has left all such replies behind.

*The slot as its Pi sees it* (`Bramble_proofs`).
- `AdvanceStaysValid`, `TornStaysValid`, `StaysOnCalendar`: the interrupt skips days
  of the calendar (run `rtc_calendar`) but leaves it in one way only, from year 99 to
  year 100 (run `rtc_century`), since `month_days` gives no month too many days
  (`NoDayTooMany`); and the two words of a `struct rtc_time`
  share no field of the calendar, so that a torn copy is of a possible time, if
  of the wrong one. `SettingStaysValid` puts them together: a clock that is only set
  to possible times, years 00-99 (`SetsTime`), shows possible times until it counts
  past 99. Then every other field is still in its range (`DateOK`, the
  inductive part: the year is any 8 bits), and the end of a setting
  leads back to a possible time (`KeepsCalendar`).
- `ReadsWhatWas`. `ReadInv`: what the Pi has read of the clock is what the cache holds
  (`Cached`), which was copied once in the transaction, its second word at the
  moment of the first or one second later (`Near`, `CopyRecent`), also while the copy
  is under way (`Copying`).
- `NoUpdateLost`, `ActivityRests`. `DisplayInv` adds to the types
  that every row not marked in `update` is on the chip as in the copy
  (`CopyOnChip`), that the green bit is set only between its pulse's two writes
  (`GreenOnlyInPulse`), and that a frame buffer that differs from the copy has
  been announced: a notification is pending or a writer is about to give one
  (`Announced`). The last is the heart: `xTaskNotifyGive` after the write, and a
  copy after the take, in that order.
- `PutOnce`. `PutInv`: the dirty regions are those with a byte
  written and not put, the bytes' counts differ by one just for them, and
  nothing is dirty between transactions.
- `WritesStay`. `CacheInv` adds that a dirty region
  is valid as long as the transaction writes, so that no access loads it again,
  and that a load cut in half by the seconds interrupt is of a region that is
  not dirty.
- `ShowsLastCommand`, from `CountersGrow`, for any font whose space is blank
  (`FontAssumption`). `DrawnInv` follows a picture from the
  command to the chip, the invariant of the others not being enough: the bytes of a
  write that are already in `nvram[]` and those still to come make up the command's
  (`Whole`) and mean its picture (`Encodes`), where the command is says where the
  interrupt is (`Writing`, `Reading`), and what `usage_bargraph.c` is about to write
  means the load it sampled (`BarFits`, `ColumnOfLoad`). Between commands the frame
  buffer shows the last one (`RowsShow`); until it is also in the copy, a
  copy is on its way (`RowsAnnounced`). Every set of rows is the bits of a byte
  (`BitsOfByte`).

*Kernel.*
- `StreamBuffer_proofs!StreamTakesPrefix`, `MessageGoesInWhole`,
  `MessageComesOutWhole`: what the ring's functions do to the sequence of bytes
  in the ring (`Buffered`), for every size and wherever the ring wraps, from
  lemmas on the positions (`BytesSpan`), one write (`WriteAppends`) and one read
  (`ReadTakes`).

Only model-checked: the liveness properties (`BytesArrive`, `OverrunEnds`,
`QueueDrains`, `HangsInHasteOnly`, the two leads-to parts of `ShutdownPulsed`,
`PulseEnds`, `ShutdownEnds`), since liveness and fairness are out of the prover's
reach; `MidnightIsTomorrow`, which fails; and the properties of `Kernel`, whose
functions are proved only as far as the ring goes.


## Remarks on the code

What the models brought to light beside the findings; none of it contradicts a
line of the repository's own documents.

- `canobj.c:84` takes a stale reply: an answer to an earlier, timed-out request
  for the same object, or to another process at the node's address. `OwnAnswer`
  says that nothing else is mistaken. Two shutdown commands to one slot from one
  node take each other's answers, so that one of them may end well although its
  own request was never carried out; with one at a time this cannot be, not even
  with helpers at the same address (`ShutdownIsHonest`).
- `shutdown` is saved from stale answers by arbitration: at one slot a reply about
  power has a lower identifier than one about shutdown, so that none that was made
  before the answer to the first request can come after it. Were the objects'
  numbers the other way round, the command could end on an old answer.
- A helper started at the address of a dead one takes the late answer to its
  predecessor for its own (`console.c:223`): then an acknowledged key may be lost
  and two requests be out at once. `AckMeansKeysReached` and `OneTimerIsEnough`
  have the hypothesis that no address is used again.
- `canping.c` compares `seq > sequence` where `>=` was meant; slot 16 is accepted
  and is slot 0's address; a Pi that boots misses PI_HALT, so that `shutdown` may
  poll for ever; `read_power` prints `data[0]` of a reply without data.
- `power.c:90-96`: the 100 ms of a CAN command may be cut short by the power task,
  whose button is still down and which finds RUN_PG low and raises GLOBAL_EN; a
  halted Pi then need not notice, and both calls may wait for ever. Calls for
  opposite states that overlap may also end with the register wrong.
- `power.c:136`: a button still down 10 ms after it turned the Pi on asks for a
  shutdown. `serial.c:88`: an overrun that comes while its counter is reset is
  not counted, which nobody can tell.
- `usage_bargraph.c:131` uses `temp_C` unset when `temp_read` fails; `proc.c:80`
  leaks the file when the first line fails; counters that go back would draw a
  full bar.
- `queue.c:802-830`: a mutex given back to a lower waiter may drop the giver below
  a ready task that gave up waiting for it, without a switch; this is the
  exception (`GaveUp`) in `UrgentRuns`, to which the comment at line 823 comes near.
- `queue.c:1497` asserts that no priority was inherited when a take with no time
  left finds the mutex held; it was, if the waiter timed out, found it free, and
  another took it before the retry. With assertions on, the firmware would stop.
- `tasks.c:4187`: `vTaskPriorityDisinheritAfterTimeout` assigns the new priority
  before the old ready list's bit is cleared with it. It takes a waiter whose
  priority `vTaskPrioritySet` raised while it waited; the firmware uses neither
  call.
- `xQueueGenericReset` wakes one sender only (`queue.c:277`). `cTxLock` is 8 bits
  wide. `canbus.c` gives NULL for the woken flag, so the switch waits for the next
  tick. `xStreamBufferSetTriggerLevel` accepts a level one above what fits, which
  is never reached. `vTaskResume` wakes a task that waits for ever for a
  notification.
- Message buffers move the tail past a length and back when the message is too
  long or its length is asked for, so that a writer in an interrupt in between
  may reuse those bytes; the loads have writers in tasks only. A reset between
  a preempted writer's length and its data leaves a torn message, since
  `xStreamBufferReset` looks at waiters only.

## Not modelled

Trace output, `miniprintf.c`, GPIO and clock set-up, the order of the calls in
`main`; the FIFO of the CAN cell (frames for the slot are one queue); the contents
of fields nobody looks at; the file descriptors' modes in the helper. A helper's
failure to write to stdout is not distinguished from its other deaths. `seq` is
an unbounded int in the model as it is, for all purposes, in the code.

Of the Linux side: `cansnoop`, which prints what it reads, the choice of the command in
`bramble.c`, parsing of slot names, `die` and `warn`, the drivers and scripts. A slot that resets
under a running Pi (the matrix then goes blank and the last command's picture with it)
is left out of `Bramble`, whose commands start when the slot is up; a pwrite that
fails sends nothing. `rtc_get` and `rtc_set` have no callers.

Of the kernel: static allocation, event groups, software timers, queue sets,
co-routines, MPU wrappers, run-time statistics and what `FreeRTOSConfig.h`
switches off; overwriting and recursive mutexes, resetting a queue in use and
notification actions with values, which the firmware does not use;
`vStreamBufferDelete`; two tasks that create the same task at once; `heap_3.c`,
which is malloc. Nested interrupts. The port's assembly is what the context
switch of `KernelBase` says.

Some theorems have hypotheses that the code does not grant by itself, named in
their statements: `SetsTime` (`SettingStaysValid`: the code
takes any time from the Pi), `CountersGrow` (`ShowsLastCommand`: otherwise
`create_bargraphs` counts down from below 0 and lights the whole column), `MaxStart = 1` (`AckMeansKeysReached`,
`OneTimerIsEnough`), `OneEach` (`ShutdownIsHonest`) and `FaultFree`
(`ConsoleIsPipe`: no fault, no party slower than a timeout, one process at one
address, as in run `console_stream`; without it bytes are lost, and `NoDuplicate` is
what remains).

## Plan

1. Proofs: that the kernel's lists agree (`ListsAgree`: a task is on one list,
   the bit of a ready list is set when it is not empty) through the functions of
   `Tasks` and `Queue`; the order of streams and of messages through the calls
   (`StreamsKeepOrder`, `MessagesWhole`) from the ring's lemmas.
2. `ConsoleFirmware` on top of `StreamBuffer` instead of sequences, and `CanTx` on
   top of `Queue`, by refinement of the queue's contents.
3. The remaining kernel calls: event groups and software timers, if the firmware
   comes to use them.
