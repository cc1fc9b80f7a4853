----------------------------- MODULE QueueCalls -----------------------------
(***************************************************************************)
(* What a task does in xQueueGenericSend, xQueueReceive, xQueuePeek and    *)
(* xQueueSemaphoreTake (firmware/librtos/queue.c).  Each begins with an    *)
(* attempt; when it fails and the caller would wait, the steps that follow *)
(* are the same for all: suspend the scheduler, lock the queue, see        *)
(* whether time is up and whether there is still nothing to do, go on the  *)
(* queue's list, unlock, resume.                                           *)
(***************************************************************************)
EXTENDS KernelBase

\* New calls of fn, and the one the task is to retry.
Begin(c) == c @@ [at |-> "try", entered |-> FALSE, inherited |-> FALSE,
                  way |-> "none"]
Attempts(fn) ==
  {Begin(c) : c \in New(fn)}
    \cup (IF At("try") /\ pc[me].fn = fn THEN {pc[me]} ELSE {})

Attempt(c, possible, done) ==
  IF possible THEN k' = Forget(done) /\ Return
  ELSE IF c.ticks = 0 THEN k' = Forget(k) /\ Return
  ELSE /\ k' = IF c.entered THEN k ELSE vTaskInternalSetTimeOutState(k)
       /\ Continue([c EXCEPT !.at = "suspend", !.entered = TRUE])

\* A mutex is given back by the task that holds it.
xQueueGenericSend ==
  /\ Running
  /\ \E c \in Attempts("send") :
       /\ c.q \in Mutex => k.queue[c.q].holder = me
       /\ Attempt(c, ~prvIsQueueFull(k, c.q), SendNow(k, c.q, c.x, c.position))

xQueueReceive ==
  /\ Running
  /\ \E c \in Attempts("receive") :
       Attempt(c, ~prvIsQueueEmpty(k, c.q), ReceiveNow(k, c.q))

xQueuePeek ==
  /\ Running
  /\ \E c \in Attempts("peek") :
       Attempt(c, ~prvIsQueueEmpty(k, c.q), PeekNow(k, c.q))

xQueueSemaphoreTake ==
  /\ Running
  /\ \E c \in Attempts("take") :
       /\ k.queue[c.q].holder # me
       /\ Attempt(c, ~prvIsQueueEmpty(k, c.q), TakeNow(k, c.q))

Leave(way) == Continue([pc[me] EXCEPT !.at = "unlock", !.way = way])

SuspendToWait ==
  /\ At("suspend") /\ k' = vTaskSuspendAll(k) /\ Proceed("lock")

\* The tick count stands still meanwhile.
LockToWait ==
  /\ At("lock")
  /\ LET r == xTaskCheckForTimeOut(prvLockQueue(k, pc[me].q), pc[me].ticks)
     IN  /\ k' = r.k
         /\ Continue([pc[me] EXCEPT !.ticks = r.ticks,
                        !.at = IF r.ret THEN "unlock" ELSE "look",
                        !.way = IF r.ret THEN "expired" ELSE "none"])

\* Whether it still has to wait.  A task that waits for a mutex first lends
\* its priority to the holder.
LookAgain ==
  /\ At("look")
  /\ LET c    == pc[me]
         wait == IF c.fn = "send" THEN prvIsQueueFull(k, c.q)
                 ELSE prvIsQueueEmpty(k, c.q)
         lend == xTaskPriorityInherit(k, k.queue[c.q].holder)
     IN  IF ~wait THEN UNCHANGED k /\ Leave("retry")
         ELSE IF c.fn # "take" THEN UNCHANGED k /\ Proceed("place")
         ELSE k' = lend.k /\ Continue([c EXCEPT !.at = "place",
                                                !.inherited = lend.ret])

\* The queue's lock keeps what interrupts do to it since the look.
PlaceOnEventList ==
  /\ At("place")
  /\ LET c == pc[me]
         side == IF c.fn = "send" THEN "send" ELSE "receive"
     IN  k' = vTaskPlaceOnEventList(k, <<c.q, side>>, c.ticks)
  /\ Leave("waiting")

\* prvUnlockQueue's two critical sections.
UnlockTxAfter == At("unlock") /\ k' = UnlockTx(k, pc[me].q) /\ Proceed("unlock rx")
UnlockRxAfter == At("unlock rx") /\ k' = UnlockRx(k, pc[me].q) /\ Proceed("resume")

\* A task that has put itself on the list gives up the processor; one whose
\* time is up returns from a send, and looks once more otherwise.
ResumeAfter ==
  /\ At("resume")
  /\ LET r == xTaskResumeAll(k)
         c == [pc[me] EXCEPT !.way = "none"]
     IN  \/ /\ pc[me].way = "waiting"
            /\ k' = Yield(r.k) /\ Continue([c EXCEPT !.at = "try"])
         \/ /\ pc[me].way = "retry"
            /\ k' = r.k /\ Continue([c EXCEPT !.at = "try"])
         \/ /\ pc[me].way = "expired"
            /\ IF c.fn = "send" THEN k' = Forget(r.k) /\ Return
               ELSE k' = r.k /\ Continue([c EXCEPT !.at = "expired"])

Expired ==
  /\ At("expired")
  /\ IF ~prvIsQueueEmpty(k, pc[me].q) THEN UNCHANGED k /\ Proceed("try")
     ELSE IF pc[me].inherited THEN UNCHANGED k /\ Proceed("disinherit")
     ELSE k' = Forget(k) /\ Return

Disinherit ==
  /\ At("disinherit")
  /\ LET m == pc[me].q
     IN  k' = Forget(vTaskPriorityDisinheritAfterTimeout(k, k.queue[m].holder,
                       prvGetDisinheritPriorityAfterTimeout(k, m)))
  /\ Return

QueueCall ==
  \/ xQueueGenericSend \/ xQueueReceive \/ xQueuePeek \/ xQueueSemaphoreTake
  \/ SuspendToWait \/ LockToWait \/ LookAgain \/ PlaceOnEventList
  \/ UnlockTxAfter \/ UnlockRxAfter \/ ResumeAfter
  \/ Expired \/ Disinherit
=============================================================================
