---------------------------- MODULE TaskControl ----------------------------
(***************************************************************************)
(* The rest of tasks.c: starting the scheduler, creating and deleting      *)
(* tasks, suspending and resuming them, priorities and what mutexes do to  *)
(* them, and task notifications.  The functions that tasks call leave a    *)
(* yield pended (YieldIf); the ones interrupts call return it.             *)
(***************************************************************************)
EXTENDS Tasks

prvInitialiseNewTask(k, t) ==
  LET p == CreatedAt[t]
  IN  [k EXCEPT !.prio[t] = p, !.base[t] = p, !.held[t] = 0,
                !.key[t] = MaxPriority - p, !.wake[t] = 0,
                !.value[t] = 0, !.notify[t] = "idle"]

\* Before the scheduler runs the latest of the highest priority is current.
prvAddNewTaskToReadyList(k, t) ==
  LET first == k.cur = NULL \/ (~k.running /\ k.prio[k.cur] <= k.prio[t])
      s == [k EXCEPT !.tasks = @ \cup {t}, !.cur = IF first THEN t ELSE @]
  IN  YieldIf(k.running /\ s.prio[s.cur] < s.prio[t],
              prvAddTaskToReadyList(s, t))

xTaskCreate(k, t) == prvAddNewTaskToReadyList(prvInitialiseNewTask(k, t), t)

vTaskStartScheduler(k) ==
  [xTaskCreate(k, Idle) EXCEPT !.unblock = MaxDelay, !.running = TRUE,
                               !.tick = 0]

\* A task that deletes itself is left for the idle task to clean up.
vTaskDelete(k, t) ==
  LET r == taskRESET_READY_PRIORITY(RemoveEvent(RemoveState(k, t), t), k.prio[t])
  IN  IF t = k.cur
      THEN Yield([r EXCEPT !.dying = Append(@, t)])
      ELSE prvResetNextTaskUnblockTime([r EXCEPT !.tasks = @ \ {t}])

\* prvCheckTasksWaitingTermination takes the first of the dying off the books.
CleanUp(k) ==
  [k EXCEPT !.dying = Tail(@), !.tasks = @ \ {Head(k.dying)}]

vTaskSuspend(k, t) ==
  LET r == taskRESET_READY_PRIORITY(RemoveEvent(RemoveState(k, t), t), k.prio[t])
      s == [r EXCEPT !.suspended = @ \cup {t},
                     !.notify[t] = IF @ = "waiting" THEN "idle" ELSE @]
      u == IF k.running THEN prvResetNextTaskUnblockTime(s) ELSE s
  IN  IF t # k.cur THEN u
      ELSE IF k.running THEN Yield(u)
      ELSE IF u.suspended = u.tasks THEN [u EXCEPT !.cur = NULL]
      ELSE vTaskSwitchContext(u)

prvTaskIsTaskSuspended(k, t) == t \in k.suspended /\ ~OnEventList(k, t)

vTaskResume(k, t) ==
  IF t = k.cur \/ ~prvTaskIsTaskSuspended(k, t) THEN k
  ELSE YieldIf(k.prio[t] >= k.prio[k.cur], Unblock(k, t))

xTaskResumeFromISR(k, t) ==
  IF ~prvTaskIsTaskSuspended(k, t) THEN [k |-> k, ret |-> FALSE]
  ELSE IF k.susp = 0
  THEN [k |-> Unblock(k, t), ret |-> k.prio[t] >= k.prio[k.cur]]
  ELSE [k |-> [k EXCEPT !.pending = Append(@, t)], ret |-> FALSE]

----------------------------------------------------------------------------
(* Priorities.                                                             *)

\* Gives t the priority p; a ready task moves from the list of its old one,
\* and the bit of reset is cleared if that list is empty.
Reprioritise(k, t, old, p, reset) ==
  IF Holds(k.ready[old], t)
  THEN prvAddTaskToReadyList(
         [taskRESET_READY_PRIORITY(RemoveState(k, t), reset)
           EXCEPT !.prio[t] = p], t)
  ELSE [k EXCEPT !.prio[t] = p]

vTaskPrioritySet(k, t, p) ==
  LET was   == k.base[t]
      yield == IF p > was THEN t # k.cur /\ p >= k.prio[k.cur] ELSE t = k.cur
      new   == IF was = k.prio[t] THEN p ELSE k.prio[t]
      s     == [k EXCEPT !.base[t] = p, !.key[t] = MaxPriority - p]
  IN  IF was = p THEN k
      ELSE YieldIf(yield, Reprioritise(s, t, k.prio[t], new, k.prio[t]))

\* The holder of a mutex runs at the priority of the task about to wait.
xTaskPriorityInherit(k, h) ==
  LET p == k.prio[k.cur]
  IN  IF h = NULL THEN [k |-> k, ret |-> FALSE]
      ELSE IF k.prio[h] < p
      THEN [k |-> Reprioritise([k EXCEPT !.key[h] = MaxPriority - p],
                               h, k.prio[h], p, k.prio[h]),
            ret |-> TRUE]
      ELSE [k |-> k, ret |-> k.base[h] < p]

\* On giving its last mutex a task drops back to its base priority.
xTaskPriorityDisinherit(k, h) ==
  LET s == [k EXCEPT !.held[h] = @ - 1]
  IN  IF h = NULL THEN [k |-> k, ret |-> FALSE]
      ELSE IF k.prio[h] = k.base[h] \/ s.held[h] > 0
      THEN [k |-> s, ret |-> FALSE]
      ELSE [k |-> Reprioritise([s EXCEPT !.key[h] = MaxPriority - k.base[h]],
                               h, k.prio[h], k.base[h], k.prio[h]),
            ret |-> TRUE]

OthersForgotten(k, h, highest) ==          \* a mutant
  IF h = NULL \/ k.prio[h] = k.base[h] \/ k.held[h] # 1 THEN k
  ELSE Reprioritise([k EXCEPT !.key[h] = MaxPriority - k.base[h]],
                    h, k.prio[h], k.base[h], k.base[h])

\* A waiter gave up: the holder keeps no more than the rest of them need.  The
\* code has set the new priority by the time it clears a bit.
vTaskPriorityDisinheritAfterTimeout(k, h, highest) ==
  LET p == IF h # NULL /\ k.base[h] < highest THEN highest ELSE k.base[h]
  IN  IF h = NULL \/ k.prio[h] = p \/ k.held[h] # 1 THEN k
      ELSE Reprioritise([k EXCEPT !.key[h] = MaxPriority - p],
                        h, k.prio[h], p, p)

----------------------------------------------------------------------------
(* Task notifications.                                                     *)

\* The first half of ulTaskNotifyTake: blocks unless there is a count.
ulTaskNotifyTake(k, ticks) ==
  LET s == [k EXCEPT !.notify[k.cur] = "waiting"]
  IN  IF k.value[k.cur] # 0 THEN k
      ELSE IF ticks = 0 THEN s
      ELSE Yield(prvAddCurrentTaskToDelayedList(s, ticks, TRUE))

\* Its second half, once the task runs again: takes the count.
NotifyTaken(k, clear) ==
  [k EXCEPT !.notify[k.cur] = "idle",
            !.value[k.cur] = IF @ = 0 \/ clear THEN 0 ELSE @ - 1]

\* The two halves of xTaskNotifyWait, with no bits to clear.
xTaskNotifyWait(k, ticks) ==
  LET s == [k EXCEPT !.notify[k.cur] = "waiting"]
  IN  IF k.notify[k.cur] = "received" THEN k
      ELSE IF ticks = 0 THEN s
      ELSE Yield(prvAddCurrentTaskToDelayedList(s, ticks, TRUE))

NotifyWaited(k) == [k EXCEPT !.notify[k.cur] = "idle"]

xTaskNotifyStateClear(k, t) ==
  [k EXCEPT !.notify[t] = IF @ = "received" THEN "idle" ELSE @]

\* The actions eIncrement and eNoAction, those that the code asks for.
Notified(k, t, action) ==
  [k EXCEPT !.notify[t] = "received",
            !.value[t] = IF action = "eIncrement" THEN @ + 1 ELSE @]

xTaskGenericNotify(k, t, action) ==
  LET s == Notified(k, t, action)
  IN  IF k.notify[t] # "waiting" THEN s
      ELSE YieldIf(k.prio[t] > k.prio[k.cur], Unblock(s, t))

\* Also vTaskNotifyGiveFromISR, whose action is eIncrement.
xTaskGenericNotifyFromISR(k, t, action) ==
  LET s    == Notified(k, t, action)
      u    == IF k.susp = 0 THEN Unblock(s, t)
              ELSE [s EXCEPT !.pending = Append(@, t)]
      high == k.prio[t] > k.prio[k.cur]
  IN  IF k.notify[t] # "waiting" THEN [k |-> s, ret |-> FALSE]
      ELSE [k |-> IF high THEN [u EXCEPT !.missed = TRUE] ELSE u,
            ret |-> high]

vTaskNotifyGiveFromISR(k, t) == xTaskGenericNotifyFromISR(k, t, "eIncrement")
=============================================================================
