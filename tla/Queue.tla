------------------------------- MODULE Queue -------------------------------
(***************************************************************************)
(* The kernel's queues, semaphores and mutexes (firmware/librtos/queue.c). *)
(* A queue is a ring of Length[q] slots with a write and a read position;  *)
(* a semaphore is a queue whose items have no size, and a mutex is one of  *)
(* length one that knows its holder and is full when it is free.           *)
(* The queues are kept in the kernel's record, as k.queue.                 *)
(*                                                                         *)
(* These are the critical sections of the functions; Kernel.tla puts them  *)
(* in order.  A count in tx or rx of a locked queue tells how many items   *)
(* interrupts sent or received meanwhile; -1 is queueUNLOCKED.             *)
(***************************************************************************)
EXTENDS TaskControl

CONSTANTS
  QueueId,
  Semaphore,     \* those of them that are semaphores
  Mutex,         \* those of these that are mutexes
  Length,        \* the slots of a queue
  Item           \* what is sent

ASSUME QueueAssumption ==
  /\ Mutex \subseteq Semaphore /\ Semaphore \subseteq QueueId /\ Item # {}
  /\ Length \in [QueueId -> Nat \ {0}] /\ \A m \in Mutex : Length[m] = 1
  /\ EventList = QueueId \X {"send", "receive"}

Unlocked == -1

Position(q) == 0 .. Length[q] - 1
Storage(q)  == IF q \in Semaphore THEN {} ELSE Position(q)

Queue_t(q) ==
  [buf: [Storage(q) -> Item], write: Position(q), read: Position(q),
   n: 0 .. Length[q], tx: Nat \cup {Unlocked}, rx: Nat \cup {Unlocked},
   holder: Task \cup {NULL}]

\* A new queue is empty, its next item to be read the first to be written.
xQueueGenericReset(q, storage) ==
  [buf |-> storage, write |-> 0, read |-> Length[q] - 1, n |-> 0,
   tx |-> Unlocked, rx |-> Unlocked, holder |-> NULL]

\* The queues are created before any task runs.
xQueueGenericCreate(q) ==
  xQueueGenericReset(q, [i \in Storage(q) |-> CHOOSE x \in Item : TRUE])

\* prvInitialiseMutex gives the new mutex once.
xQueueCreateMutex(q) == [xQueueGenericCreate(q) EXCEPT !.n = 1]

KernelReset ==
  Reset @@ [queue |-> [q \in QueueId |-> IF q \in Mutex THEN xQueueCreateMutex(q)
                                         ELSE xQueueGenericCreate(q)]]

prvIsQueueEmpty(k, q) == k.queue[q].n = 0
prvIsQueueFull(k, q)  == k.queue[q].n = Length[q]

\* What the queue holds, first to be received first.
Contents(k, q) ==
  LET r == k.queue[q]
  IN  [i \in 1 .. r.n |-> r.buf[(r.read + i) % Length[q]]]

----------------------------------------------------------------------------
\* A send to the front goes to the slot read last; overwriting, which nothing
\* asks for, is left out.
prvCopyDataToQueue(k, q, x, position) ==
  LET r    == k.queue[q]
      give == xTaskPriorityDisinherit(k, r.holder)
      back == [r EXCEPT !.buf[r.write] = x, !.n = @ + 1,
                        !.write = (@ + 1) % Length[q]]
      front == [r EXCEPT !.buf[r.read] = x, !.n = @ + 1,
                         !.read = (@ - 1) % Length[q]]
  IN  IF q \in Semaphore
      THEN [k |-> [give.k EXCEPT !.queue[q] = [r EXCEPT !.n = @ + 1,
                                                        !.holder = NULL]],
            ret |-> give.ret]
      ELSE [k |-> [k EXCEPT !.queue[q] = IF position = "back" THEN back
                                         ELSE front],
            ret |-> FALSE]

\* The read position moves on to the item that is copied out.
NotAdvanced(k, q) == k                     \* a mutant
prvCopyDataFromQueue(k, q) ==
  [k EXCEPT !.queue[q].read = (@ + 1) % Length[q]]

\* The first critical section of xQueueGenericSend, when there is room.
SendNow(k, q, x, position) ==
  LET c == prvCopyDataToQueue(k, q, x, position)
      w == WakeOne(c.k, <<q, "receive">>)
  IN  YieldIf(IF c.k.event[<<q, "receive">>] = <<>> THEN c.ret ELSE w.ret, w.k)

\* Those of xQueueReceive, xQueuePeek and xQueueSemaphoreTake, when there is
\* an item: a peek puts the read position back and passes the word on.
ReceiveNow(k, q) ==
  LET c == [prvCopyDataFromQueue(k, q) EXCEPT !.queue[q].n = @ - 1]
      w == WakeOne(c, <<q, "send">>)
  IN  YieldIf(w.ret, w.k)

PeekNow(k, q) ==
  LET c == [prvCopyDataFromQueue(k, q) EXCEPT
              !.queue[q].read = k.queue[q].read]
      w == WakeOne(c, <<q, "receive">>)
  IN  YieldIf(w.ret, w.k)

TakeNow(k, q) ==
  LET m == [k EXCEPT !.queue[q].n = @ - 1]
      c == IF q \in Mutex
           THEN [m EXCEPT !.queue[q].holder = k.cur, !.held[k.cur] = @ + 1]
           ELSE m
      w == WakeOne(c, <<q, "send">>)
  IN  YieldIf(w.ret, w.k)

----------------------------------------------------------------------------
(* From interrupts: a locked queue only counts what happened to it.        *)

xQueueGenericSendFromISR(k, q, x, position) ==
  LET c == prvCopyDataToQueue(k, q, x, position).k
  IN  IF prvIsQueueFull(k, q) THEN [k |-> k, ret |-> FALSE]
      ELSE IF k.queue[q].tx = Unlocked THEN WakeOne(c, <<q, "receive">>)
      ELSE [k |-> [c EXCEPT !.queue[q].tx = @ + 1], ret |-> FALSE]

\* A mutex is not given from an interrupt.
xQueueGiveFromISR(k, q) ==
  LET c == [k EXCEPT !.queue[q].n = @ + 1]
  IN  IF prvIsQueueFull(k, q) THEN [k |-> k, ret |-> FALSE]
      ELSE IF k.queue[q].tx = Unlocked THEN WakeOne(c, <<q, "receive">>)
      ELSE [k |-> [c EXCEPT !.queue[q].tx = @ + 1], ret |-> FALSE]

xQueueReceiveFromISR(k, q) ==
  LET c == [prvCopyDataFromQueue(k, q) EXCEPT !.queue[q].n = @ - 1]
  IN  IF prvIsQueueEmpty(k, q) THEN [k |-> k, ret |-> FALSE]
      ELSE IF k.queue[q].rx = Unlocked THEN WakeOne(c, <<q, "send">>)
      ELSE [k |-> [c EXCEPT !.queue[q].rx = @ + 1], ret |-> FALSE]

----------------------------------------------------------------------------
(* Locking.                                                                *)

NotLocked(k, q) == k                       \* a mutant
prvLockQueue(k, q) ==
  [k EXCEPT !.queue[q].rx = IF @ = Unlocked THEN 0 ELSE @,
            !.queue[q].tx = IF @ = Unlocked THEN 0 ELSE @]

\* One waiter for each item counted, as long as there are any; a preemption
\* this calls for is left for xTaskResumeAll.
WakeCounted(k, e, count) ==
  FoldLeft(LAMBDA a, i : WakeOne(a, e).k, k, [i \in 1 .. count |-> i])

\* prvUnlockQueue's two critical sections.
UnlockTx(k, q) ==
  [WakeCounted(k, <<q, "receive">>, k.queue[q].tx)
    EXCEPT !.queue[q].tx = Unlocked]

UnlockRx(k, q) ==
  [WakeCounted(k, <<q, "send">>, k.queue[q].rx)
    EXCEPT !.queue[q].rx = Unlocked]

\* The priority of the first task waiting for the mutex; the idle task's if none.
prvGetDisinheritPriorityAfterTimeout(k, m) ==
  LET waiting == k.event[<<m, "receive">>]
  IN  IF waiting = <<>> THEN 0 ELSE MaxPriority - k.key[Head(waiting)]
=============================================================================
