------------------------------- MODULE Kernel -------------------------------
(***************************************************************************)
(* The kernel as a whole, and what it promises the firmware's tasks.       *)
(***************************************************************************)
EXTENDS TaskCalls

Next ==
  \/ main \/ StartScheduler
  \/ xPortPendSVHandler \/ xPortSysTickHandler \/ Interrupt
  \/ QueueCall \/ TaskCall \/ StreamCall

Spec == Init /\ [][Next]_vars

----------------------------------------------------------------------------
(* The lists.                                                              *)

Ready(t) == Holds(k.ready[k.prio[t]], t)

\* The tasks on the state lists one list after the other, and so those on the
\* event lists and the list of the pending.
StateItems ==
  FlattenSeq([i \in 1 .. MaxPriority |-> k.ready[i - 1].items])
    \o k.delayed \o k.overflow \o k.dying \o SetToSeq(k.suspended)
EventItems == FoldSet(LAMBDA e, s : s \o k.event[e], k.pending, EventList)

\* Every task is on exactly one of the state lists, on the ready list of its
\* priority when it is ready, and the bitmap marks the ready lists in use; a
\* task that waits for an event is on one event list, and blocked.  (A pending
\* one may be ready: its wait for a notification had timed out.)
ListsAgree ==
  /\ LET items == StateItems
     IN  ToSet(items) = k.tasks /\ Len(items) = Cardinality(k.tasks)
  /\ \A p \in Priority : \A t \in ToSet(k.ready[p].items) : k.prio[t] = p
  /\ k.top = {p \in Priority : k.ready[p].items # <<>>}
  /\ LET items == EventItems
     IN  /\ ToSet(items) \subseteq k.tasks /\ Len(items) = Cardinality(ToSet(items))
         /\ \A t \in ToSet(items) :
              ~Contains(k.dying, t) /\ (Ready(t) => Contains(k.pending, t))

\* Unless the scheduler is suspended or a switch is on its way, the task that
\* runs is ready and no ready task is more urgent, with one exception: when a
\* mutex is given back to a waiter its giver may drop below a task whose own
\* wait for the mutex has run out, and queue.c asks for no switch.
GaveUp(t) == "entered" \in DOMAIN pc[t] /\ pc[t].fn = "take" /\ pc[t].entered
UrgentRuns ==
  k.running /\ k.susp = 0 /\ ~k.pendsv /\ ~k.missed =>
    /\ Ready(k.cur)
    /\ \A t \in k.tasks : Ready(t) /\ k.prio[t] > k.prio[k.cur] => GaveUp(t)

\* Across the wrap of the tick count: a sleeper on the delayed list is to wake
\* later in this round of the count and one on the overflow list in the next,
\* both in the order of their times, and the tick looks when the first is due.
SleepersInTime ==
  /\ \A t \in ToSet(k.delayed)  : k.tick < k.wake[t]
  /\ \A t \in ToSet(k.overflow) : k.wake[t] < k.tick
  /\ \A l \in {k.delayed, k.overflow} : \A i, j \in DOMAIN l :
       i < j => k.wake[l[i]] <= k.wake[l[j]]
  /\ k.running /\ k.delayed # <<>> => k.unblock <= k.wake[Head(k.delayed)]

----------------------------------------------------------------------------
(* Queues and mutexes.                                                     *)

\* Tasks that were released from a wait on q and have not looked at it since.
Receiving(t, q) ==
  "q" \in DOMAIN pc[t] /\ pc[t].q = q /\ pc[t].fn # "send" /\ pc[t].at \in {"try", "resume"}
Sending(t, q) ==
  "q" \in DOMAIN pc[t] /\ pc[t].q = q /\ pc[t].fn = "send" /\ pc[t].at \in {"try", "resume"}
OnList(t, e) == Contains(k.event[e], t)
Settled(q) == k.queue[q].tx = Unlocked /\ k.queue[q].rx = Unlocked

\* No wake-up is lost, whatever interrupts do while a task is about to wait:
\* when a queue that nobody has locked holds an item and a task waits for one,
\* then another was released to take it; and so for a free slot.
NoWakeUpLost ==
  \A q \in QueueId : Settled(q) =>
    /\ ~prvIsQueueEmpty(k, q) /\ k.event[<<q, "receive">>] # <<>> =>
         \E t \in k.tasks : Receiving(t, q) /\ ~OnList(t, <<q, "receive">>)
    /\ ~prvIsQueueFull(k, q) /\ k.event[<<q, "send">>] # <<>> =>
         \E t \in k.tasks : Sending(t, q) /\ ~OnList(t, <<q, "send">>)

\* A queue changes only by an item put at its end or its front or by the first
\* one taken, and never holds more than it has room for.
QueueStep(old, new, length) ==
  /\ Len(new) <= length
  /\ \/ new = old
     \/ old # <<>> /\ new = Tail(old)
     \/ \E x \in Item : new \in {Append(old, x), <<x>> \o old}
QueuesKeepOrder ==
  [][\A q \in QueueId \ Semaphore :
       QueueStep(Contents(k, q), Contents(k', q), Length[q])]_vars

\* A mutex's holder runs at no lower priority than any task waiting for it, and
\* a task that holds none at its own.
MutexPriorities ==
  /\ \A m \in Mutex : k.queue[m].holder # NULL =>
       \A t \in ToSet(k.event[<<m, "receive">>]) :
         k.prio[t] <= k.prio[k.queue[m].holder]
  /\ \A t \in k.tasks : (\A m \in Mutex : k.queue[m].holder # t) =>
       k.prio[t] = k.base[t]

----------------------------------------------------------------------------
(* Stream buffers.                                                         *)

Asleep(t) == ~Ready(t) /\ ~Contains(k.pending, t)
Busy(s, stages) ==
  \E t \in k.tasks : "s" \in DOMAIN pc[t] /\ pc[t].s = s /\ pc[t].at \in stages
\* A reader never sleeps on a buffer with as many bytes as it waits for, unless
\* the writer is about to tell it; nor a writer on an empty one, unless the
\* reader is.
StreamWakes ==
  \A t \in k.tasks : \A s \in StreamId :
    Asleep(t) /\ "s" \in DOMAIN pc[t] /\ pc[t].s = s =>
      /\ pc[t].at = "woken read" /\ k.stream[s].trigger <= prvBytesInBuffer(k, s) =>
           Busy(s, {"write message", "write done", "tell reader"})
      /\ pc[t].at = "woken room" /\ xStreamBufferIsEmpty(k, s) =>
           Busy(s, {"read done", "tell writer"})

\* The bytes in a stream change only by some more at the end, when the head
\* moves, or fewer at the front, though writer and reader each know the other's
\* position from before; or all of them go in a reset.
Written == UNION {{SubSeq(d, 1, n) : n \in DOMAIN d} : d \in load.data \cup {<<b>> : b \in Byte}}
StreamStep(s, old, new) ==
  /\ Len(new) <= Size[s]
  /\ IF k.stream[s].head = k'.stream[s].head THEN IsSuffix(new, old)
     ELSE (\E d \in Written : new = old \o d) \/ (new = <<>> /\ k'.stream[s].head = 0)
StreamsKeepOrder ==
  [][\A s \in StreamId \ MessageBuffer : StreamStep(s, Buffered(k, s), Buffered(k, s)')]_vars

\* Unless a task is half-way in or out, a message buffer holds whole messages,
\* each behind its own length: no message is cut short to fit, and one that was
\* too long for its reader is back in its place.
Framed(d) == <<Len(d)>> \o d
MessagesWhole ==
  \A s \in MessageBuffer :
    \/ Busy(s, {"write message", "read message", "put back"})
    \/ \E ms \in BoundedSeq(load.data, Size[s]) :
         Buffered(k, s) = FlattenSeq([i \in DOMAIN ms |-> Framed(ms[i])])

----------------------------------------------------------------------------
(* Memory.                                                                 *)

\* Blocks a call has taken and not yet given to a task.
InHand == UNION {pc[t].own : t \in {u \in Task : "own" \in DOMAIN pc[u]}}
Blocks == ToSet(heap.free) \cup heap.used
Regions ==
  IF heap.scheme = "heap_5" THEN {Usable(r) : r \in ToSet(HeapRegions)}
  ELSE {[at |-> 0, size |-> HeapSize]}
Units(blocks) == UNION {b.at .. Ends(b) - 1 : b \in blocks}
SumOfSizes(blocks) == FoldSet(LAMBDA b, n : b.size + n, 0, blocks)

\* The blocks tile the heap's regions, the count of free units is right, and
\* every block in use belongs to a task or to a call.  heap_4 and heap_5 have
\* merged free neighbours; heap_2 keeps the smallest first.
HeapSound ==
  LET blocks == Blocks
  IN  /\ Units(blocks) = Units(Regions)
      /\ Cardinality(Units(blocks)) = SumOfSizes(blocks)
      /\ heap.left = Cardinality(Units(ToSet(heap.free)))
      /\ heap.used = UNION {mem[t] : t \in Task} \cup InHand
      /\ \A i \in 1 .. Len(heap.free) - 1 :
           LET b == heap.free[i]
               c == heap.free[i + 1]
           IN  IF heap.scheme = "heap_2" THEN b.size <= c.size
               ELSE Ends(b) < c.at \/ (Ends(b) = c.at /\ 0 \in {b.size, c.size})
=============================================================================
