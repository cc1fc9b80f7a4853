----------------------------- MODULE KernelBase -----------------------------
(***************************************************************************)
(* The FreeRTOS kernel at work: its state, the start, the interrupts and   *)
(* the context switch; the tasks' calls are in QueueCalls and TaskCalls.   *)
(* One processor runs k.cur.  An interrupt falls between any two of its    *)
(* steps, and its next step waits for a switch that is pended (PendSV has  *)
(* the lowest priority).  A step is a critical section, or what runs with  *)
(* the scheduler suspended on data that interrupts leave alone; two such   *)
(* in a row are one step where nothing an interrupt does can tell them     *)
(* apart.                                                                  *)
(*                                                                         *)
(* What the tasks and the interrupts ask for is load, chosen at the start: *)
(* the tasks main creates, the calls each task makes, in any order, the    *)
(* calls interrupts make, and the allocator that was linked.               *)
(* pc[t] is the call that t is in and how far it got; heap is the          *)
(* allocator's state and mem[t] the blocks of t's stack and control block. *)
(***************************************************************************)
EXTENDS StreamBuffer, Heaps

CONSTANTS
  Load,          \* the loads: records of tasks, calls and interrupts
  StackSize, TcbSize,
  MaxPended,     \* the most ticks that pass while the scheduler is suspended
  MaxValue       \* the most notifications a task has not taken yet

VARIABLES k, pc, heap, mem, load
vars == <<k, pc, heap, mem, load>>

me == k.cur
App == [at |-> "app"]
Resting(t) == pc[t] = App

Init ==
  /\ k = WithStreams(KernelReset)
  /\ pc = [t \in Task |-> App]
  /\ load \in Load
  /\ heap = HeapInit(load.heap)
  /\ mem = [t \in Task |-> {}]

----------------------------------------------------------------------------
(* Start, context switch and interrupts.                                   *)

\* Stack and control block at once: nothing else runs yet.
BootMemory(t) ==
  LET s == Malloc(heap, StackSize)
      b == Malloc(s.h, TcbSize)
  IN  heap' = b.h /\ mem' = [mem EXCEPT ![t] = s.got \cup b.got]

main ==
  /\ ~k.running
  /\ \E t \in ToSet(load.boot) \ k.tasks :
       /\ \A i, j \in DOMAIN load.boot : load.boot[j] = t /\ i < j => load.boot[i] \in k.tasks
       /\ k' = xTaskCreate(k, t)
       /\ BootMemory(t)
  /\ UNCHANGED <<pc, load>>

StartScheduler ==
  /\ ~k.running /\ ToSet(load.boot) \subseteq k.tasks
  /\ k' = vTaskStartScheduler(k)
  /\ BootMemory(Idle)
  /\ UNCHANGED <<pc, load>>

xPortPendSVHandler ==
  /\ k.pendsv
  /\ k' = vTaskSwitchContext([k EXCEPT !.pendsv = FALSE])
  /\ UNCHANGED <<pc, heap, mem, load>>

xPortSysTickHandler ==
  /\ k.running /\ (k.susp > 0 => k.pended < MaxPended)
  /\ LET r == xTaskIncrementTick(k) IN k' = YieldIf(r.ret, r.k)
  /\ UNCHANGED <<pc, heap, mem, load>>

\* An interrupt handler that passes NULL for pxHigherPriorityTaskWoken leaves
\* the switch to the next tick; one that passes a flag asks for it.
Handled(i, r) == k' = YieldIf(r.ret /\ i.yields, r.k)

Interrupt ==
  /\ k.running
  /\ \E i \in load.interrupts :
       \/ /\ i.fn = "send"
          /\ Handled(i, xQueueGenericSendFromISR(k, i.q, i.x, "back"))
       \/ /\ i.fn = "receive"
          /\ Handled(i, xQueueReceiveFromISR(k, i.q))
       \/ /\ i.fn = "give semaphore"
          /\ Handled(i, xQueueGiveFromISR(k, i.q))
       \/ /\ i.fn = "give" /\ i.t \in k.tasks /\ k.value[i.t] < MaxValue
          /\ Handled(i, vTaskNotifyGiveFromISR(k, i.t))
       \/ /\ i.fn = "resume" /\ i.t \in k.tasks
          /\ Handled(i, xTaskResumeFromISR(k, i.t))
       \/ /\ i.fn = "byte in"
          /\ \E b \in Byte : Handled(i, xStreamBufferSendFromISR(k, i.s, <<b>>))
       \/ /\ i.fn = "byte out"
          /\ Handled(i, xStreamBufferReceiveFromISR(k, i.s, 1))
       \/ /\ i.fn = "sent"
          /\ Handled(i, xStreamBufferSendCompletedFromISR(k, i.s))
       \/ /\ i.fn = "received"
          /\ Handled(i, xStreamBufferReceiveCompletedFromISR(k, i.s))
  /\ UNCHANGED <<pc, heap, mem, load>>

----------------------------------------------------------------------------
(* Steps of the current task.                                              *)

Running == k.running /\ ~k.pendsv
At(stage) == Running /\ pc[me].at = stage
Continue(c) == pc' = [pc EXCEPT ![me] = c] /\ UNCHANGED <<heap, mem, load>>
Return == Continue(App)
Proceed(stage) == Continue([pc[me] EXCEPT !.at = stage])

\* The calls of fn the task may make now.
New(fn) ==
  IF Running /\ pc[me] = App THEN {c \in load.calls[me] : c.fn = fn} ELSE {}
=============================================================================
