------------------------------- MODULE Tasks -------------------------------
(***************************************************************************)
(* The scheduler of the FreeRTOS kernel under the firmware                 *)
(* (firmware/librtos/tasks.c), as it is configured: preemptive and time    *)
(* sliced, with mutexes and notifications, tasks selected by a bitmap.     *)
(*                                                                         *)
(* The kernel's static variables and the tasks' control blocks are one     *)
(* record, k, and a kernel function is an operator from k to the k it      *)
(* leaves behind.  One that also returns a flag yields [k, ret].  A        *)
(* function is one such step because it runs in a critical section or with *)
(* the scheduler suspended; Kernel.tla says where interrupts fall.         *)
(***************************************************************************)
EXTENDS Integers, FiniteSets, KernelList

CONSTANTS
  Task,          \* the tasks that may exist, the idle task among them
  Idle,
  NULL,          \* no task
  MaxPriority,   \* configMAX_PRIORITIES
  CreatedAt,     \* the priority a task is created with
  TickMod,       \* 2 to the width of TickType_t
  EventList      \* the lists tasks wait for an event on

ASSUME TasksAssumption ==
  /\ Idle \in Task /\ NULL \notin Task
  /\ MaxPriority \in Nat \ {0} /\ TickMod \in Nat \ {0, 1}
  /\ CreatedAt \in [Task -> 0 .. MaxPriority - 1]

Priority == 0 .. MaxPriority - 1
MaxDelay == TickMod - 1                    \* portMAX_DELAY

\* The static variables at reset: the current task, whether the scheduler
\* runs, the tasks that exist, the bitmap of the ready lists in use, xTickCount,
\* xNextTaskUnblockTime, uxPendedTicks, uxSchedulerSuspended, xYieldPending,
\* and whether PendSV is pended.
Statics ==
  [cur |-> NULL, running |-> FALSE, tasks |-> {}, top |-> {},
   tick |-> 0, unblock |-> 0, pended |-> 0, susp |-> 0,
   missed |-> FALSE, pendsv |-> FALSE]

\* The ready lists, the delayed list and the one for wake times past the wrap,
\* the tasks readied while the scheduler was suspended, the suspended and the
\* dying; and the lists of queues.
prvInitialiseTaskLists ==
  [ready |-> [p \in Priority |-> EmptyList],
   delayed |-> <<>>, overflow |-> <<>>, pending |-> <<>>,
   suspended |-> {}, dying |-> <<>>, event |-> [e \in EventList |-> <<>>]]

\* Control blocks, none of them in use yet: priority, base priority, mutexes
\* held, values of the event and of the state item (0 when it is on no list of
\* sleepers), the notification.
Unset(x) == [t \in Task |-> x]
TCB ==
  [prio |-> Unset(0), base |-> Unset(0), held |-> Unset(0), key |-> Unset(0),
   wake |-> Unset(0), notify |-> Unset("idle"), value |-> Unset(0)]

\* Locals of tasks that kernel functions change: the time a wait was entered
\* (xOverflowCount is only compared for equality, so wrapped says whether the
\* tick count has wrapped since), and vTaskDelayUntil's previous wake time.
NoTimeOut == [wrapped |-> TRUE, at |-> 0]
Locals == [entered |-> Unset(NoTimeOut), until |-> Unset(0)]

Reset == Statics @@ prvInitialiseTaskLists @@ TCB @@ Locals

Yield(k) == [k EXCEPT !.pendsv = TRUE]
YieldIf(b, k) == IF b THEN Yield(k) ELSE k

----------------------------------------------------------------------------
(* Moving a task between lists.                                            *)

RemoveState(k, t) ==
  [k EXCEPT !.ready     = [p \in Priority |-> uxListRemove(@[p], t)],
            !.delayed   = Remove(@, t),
            !.overflow  = Remove(@, t),
            !.suspended = @ \ {t},
            !.dying     = Remove(@, t),
            !.wake[t]   = 0]

RemoveEvent(k, t) ==
  [k EXCEPT !.pending = Remove(@, t),
            !.event   = [e \in EventList |-> Remove(@[e], t)]]

OnEventList(k, t) ==
  Contains(k.pending, t) \/ \E e \in EventList : Contains(k.event[e], t)

prvAddTaskToReadyList(k, t) ==
  [k EXCEPT !.top = @ \cup {k.prio[t]},
            !.ready[k.prio[t]] = vListInsertEnd(@, t)]

BitStays(k, p) == k                        \* a mutant
taskRESET_READY_PRIORITY(k, p) ==
  IF k.ready[p].items = <<>> THEN [k EXCEPT !.top = @ \ {p}] ELSE k

prvResetNextTaskUnblockTime(k) ==
  [k EXCEPT !.unblock = IF k.delayed = <<>> THEN MaxDelay
                        ELSE k.wake[Head(k.delayed)]]

\* From wherever it waits to its ready list.
Unblock(k, t) == prvAddTaskToReadyList(RemoveState(k, t), t)

prvAddCurrentTaskToDelayedList(k, ticks, indefinitely) ==
  LET t == k.cur
      r == taskRESET_READY_PRIORITY(RemoveState(k, t), k.prio[t])
      w == (k.tick + ticks) % TickMod
      s == [r EXCEPT !.wake[t] = w]
  IN  IF ticks = MaxDelay /\ indefinitely
      THEN [r EXCEPT !.suspended = @ \cup {t}]
      ELSE IF w < k.tick
      THEN [s EXCEPT !.overflow = vListInsert(@, t, s.wake)]
      ELSE [s EXCEPT !.delayed  = vListInsert(@, t, s.wake),
                     !.unblock  = IF w < @ THEN w ELSE @]

----------------------------------------------------------------------------
(* Choosing the task that runs, and the tick.                              *)

\* The highest priority in the bitmap, and the next task of its list.
taskSELECT_HIGHEST_PRIORITY_TASK(k) ==
  LET p == Max(k.top)
      l == NextEntry(k.ready[p])
  IN  [k EXCEPT !.ready[p] = l, !.cur = l.items[l.index]]

vTaskSwitchContext(k) ==
  IF k.susp > 0 THEN [k EXCEPT !.missed = TRUE]
  ELSE taskSELECT_HIGHEST_PRIORITY_TASK([k EXCEPT !.missed = FALSE])

UnblockTimeStays(k) ==                     \* a mutant
  [k EXCEPT !.delayed = k.overflow, !.overflow = k.delayed,
            !.entered = [t \in Task |-> [@[t] EXCEPT !.wrapped = TRUE]]]
taskSWITCH_DELAYED_LISTS(k) ==
  prvResetNextTaskUnblockTime(
    [k EXCEPT !.delayed = k.overflow, !.overflow = k.delayed,
              !.entered = [t \in Task |-> [@[t] EXCEPT !.wrapped = TRUE]]])

\* Wakes the head of the delayed list as long as its time has come.
xTaskIncrementTick(k) ==
  IF k.susp > 0
  THEN [k |-> [k EXCEPT !.pended = @ + 1], ret |-> k.missed]
  ELSE LET now   == (k.tick + 1) % TickMod
           n     == [k EXCEPT !.tick = now]
           s     == IF now = 0 THEN taskSWITCH_DELAYED_LISTS(n) ELSE n
           late  == SelectInSeq(s.delayed, LAMBDA t : now < s.wake[t])
           due   == IF now < s.unblock THEN <<>>
                    ELSE IF late = 0 THEN s.delayed
                    ELSE SubSeq(s.delayed, 1, late - 1)
           woken == FoldLeft(LAMBDA a, t : Unblock(RemoveEvent(a, t), t),
                             s, due)
       IN  [k   |-> IF now < s.unblock THEN s
                    ELSE prvResetNextTaskUnblockTime(woken),
            ret |-> \/ \E t \in ToSet(due) : k.prio[t] >= k.prio[k.cur]
                    \/ Len(woken.ready[k.prio[k.cur]].items) > 1
                    \/ k.missed]

vTaskSuspendAll(k) == [k EXCEPT !.susp = @ + 1]

\* At the outermost level, readies the tasks that events released and
\* replays the ticks; ret tells that it has already yielded.
xTaskResumeAll(k) ==
  LET Ready(a, t) ==
        LET b == Unblock(RemoveEvent(a, t), t)
        IN  IF b.prio[t] >= b.prio[b.cur] THEN [b EXCEPT !.missed = TRUE] ELSE b
      Replay(a, i) ==
        LET b == xTaskIncrementTick(a)
        IN  IF b.ret THEN [b.k EXCEPT !.missed = TRUE] ELSE b.k
      in     == [k EXCEPT !.susp = @ - 1]
      moved  == FoldLeft(Ready, in, k.pending)
      reset  == IF k.pending = <<>> THEN moved
                ELSE prvResetNextTaskUnblockTime(moved)
      ticked == FoldLeft(Replay, reset, [i \in 1 .. k.pended |-> i])
      out    == [ticked EXCEPT !.pended = 0]
  IN  IF in.susp > 0 THEN [k |-> in, ret |-> FALSE]
      ELSE [k |-> YieldIf(out.missed, out), ret |-> out.missed]

----------------------------------------------------------------------------
(* Waiting for events and for time to pass.                                *)

vTaskPlaceOnEventList(k, e, ticks) ==
  prvAddCurrentTaskToDelayedList(
    [k EXCEPT !.event[e] = vListInsert(@, k.cur, k.key)], ticks, TRUE)

YieldForgotten(k, e) ==                    \* a mutant
  LET t == Head(k.event[e])
      r == RemoveEvent(k, t)
  IN  [k   |-> IF k.susp = 0 THEN Unblock(r, t)
               ELSE [r EXCEPT !.pending = Append(@, t)],
       ret |-> k.prio[t] > k.prio[k.cur]]

\* The head of the list is released; ret says it should preempt.
xTaskRemoveFromEventList(k, e) ==
  LET t == Head(k.event[e])
      r == RemoveEvent(k, t)
      s == IF k.susp = 0 THEN Unblock(r, t)
           ELSE [r EXCEPT !.pending = Append(@, t)]
      high == k.prio[t] > k.prio[k.cur]
  IN  [k |-> IF high THEN [s EXCEPT !.missed = TRUE] ELSE s, ret |-> high]

\* What the queue's functions do with it: release a waiter, if there is one.
WakeOne(k, e) ==
  IF k.event[e] = <<>> THEN [k |-> k, ret |-> FALSE]
  ELSE xTaskRemoveFromEventList(k, e)

vTaskInternalSetTimeOutState(k) ==
  [k EXCEPT !.entered[k.cur] = [wrapped |-> FALSE, at |-> k.tick]]

\* A call that waited returns.
Forget(k) == [k EXCEPT !.entered[k.cur] = NoTimeOut]

\* ret: the wait has timed out.  Otherwise ticks is what is left of it.
xTaskCheckForTimeOut(k, ticks) ==
  LET e       == k.entered[k.cur]
      elapsed == (k.tick - e.at) % TickMod
  IN  IF ticks = MaxDelay THEN [k |-> k, ticks |-> ticks, ret |-> FALSE]
      ELSE IF e.wrapped /\ k.tick >= e.at
      THEN [k |-> k, ticks |-> ticks, ret |-> TRUE]
      ELSE IF elapsed < ticks
      THEN [k |-> vTaskInternalSetTimeOutState(k),
            ticks |-> ticks - elapsed, ret |-> FALSE]
      ELSE [k |-> k, ticks |-> 0, ret |-> TRUE]

\* vTaskDelay's body under the suspended scheduler.
vTaskDelay(k, ticks) ==
  prvAddCurrentTaskToDelayedList(vTaskSuspendAll(k), ticks, FALSE)

\* Until a fixed time after the last wake-up was due; not at all when that has
\* passed, and the count may have wrapped before it, before now, or before
\* both.
vTaskDelayUntil(k, increment) ==
  LET was  == k.until[k.cur]
      wake == (was + increment) % TickMod
      s    == [vTaskSuspendAll(k) EXCEPT !.until[k.cur] = wake]
      wait == IF k.tick < was THEN wake < was /\ k.tick < wake
              ELSE wake < was \/ k.tick < wake
  IN  IF wait
      THEN prvAddCurrentTaskToDelayedList(s, (wake - k.tick) % TickMod, FALSE)
      ELSE s
=============================================================================
