----------------------------- MODULE TaskCalls -----------------------------
(***************************************************************************)
(* The other calls a task makes: delays, notifications, suspending and     *)
(* resuming, priorities, creating and deleting tasks (tasks.c, heap_4.c),  *)
(* and the stream buffers (stream_buffer.c).  The idle task's loop is here *)
(* too.                                                                    *)
(***************************************************************************)
EXTENDS QueueCalls

\* The first step of a call: at is where it goes on.
Call(c, at) == Continue(c @@ [at |-> at])

Alive(t) == t \in k.tasks /\ ~Contains(k.dying, t)

Delay ==
  \E c \in New("delay") :
     IF c.ticks = 0 THEN k' = Yield(k) /\ Return
     ELSE k' = vTaskDelay(k, c.ticks) /\ Call(c, "resume delay")

DelayUntil ==
  \E c \in New("delay until") :
     k' = vTaskDelayUntil(k, c.ticks) /\ Call(c, "resume delay")

\* If resuming the scheduler has not yielded, the delay does.
ResumeDelay ==
  At("resume delay") /\ k' = Yield(xTaskResumeAll(k).k) /\ Return

NotifyTake ==
  \/ \E c \in New("notify take") :
        k' = ulTaskNotifyTake(k, c.ticks) /\ Call(c, "taken")
  \/ At("taken") /\ k' = NotifyTaken(k, pc[me].clear) /\ Return

\* Calls of one critical section that name another task.
NotifyGive ==
  \E c \in New("notify") :
     /\ Alive(c.t) /\ k.value[c.t] < MaxValue
     /\ k' = xTaskGenericNotify(k, c.t, "eIncrement") /\ Return

Suspend ==
  \E c \in New("suspend") : Alive(c.t) /\ k' = vTaskSuspend(k, c.t) /\ Return

Resume ==
  \E c \in New("resume") : Alive(c.t) /\ k' = vTaskResume(k, c.t) /\ Return

PrioritySet ==
  \E c \in New("priority"), p \in Priority :
     Alive(c.t) /\ k' = vTaskPrioritySet(k, c.t, p) /\ Return

----------------------------------------------------------------------------
(* Creating and deleting tasks.  The allocator works with the scheduler    *)
(* suspended; own is the blocks a call has got so far.                     *)

CreateStack ==
  \E c \in New("create") :
     LET m == Malloc(heap, StackSize)
     IN  /\ c.t \notin k.tasks /\ mem[c.t] = {}
         /\ k' = vTaskSuspendAll(k) /\ heap' = m.h
         /\ pc' = [pc EXCEPT ![me] = c @@ [at |-> "resume create", own |-> m.got]]
         /\ UNCHANGED <<mem, load>>

ResumeCreate ==
  /\ At("resume create") /\ k' = xTaskResumeAll(k).k
  /\ LET own == pc[me].own
     IN  \/ own = {} /\ Return
         \/ Cardinality(own) = 1 /\ Proceed("control block")
         \/ Cardinality(own) = 2 /\ Proceed("enter")

\* Without a control block the stack is freed again.
CreateControlBlock ==
  /\ At("control block")
  /\ LET m   == Malloc(heap, TcbSize)
         own == pc[me].own
     IN  /\ heap' = IF m.got # {} THEN m.h
                    ELSE Free(heap, CHOOSE b \in own : TRUE)
         /\ pc' = [pc EXCEPT ![me].at = "resume create",
                     ![me].own = IF m.got # {} THEN own \cup m.got ELSE {}]
  /\ k' = vTaskSuspendAll(k) /\ UNCHANGED <<mem, load>>

EnterTask ==
  /\ At("enter")
  /\ k' = xTaskCreate(k, pc[me].t)
  /\ mem' = [mem EXCEPT ![pc[me].t] = pc[me].own]
  /\ pc' = [pc EXCEPT ![me] = App, ![pc[me].t] = App]
  /\ UNCHANGED <<heap, load>>

\* Another task's memory is freed in the same critical section, where the
\* allocator's xTaskResumeAll performs a yield that was missed.
Delete ==
  \E c \in New("delete") :
     /\ Alive(c.t) /\ k' = YieldIf(c.t # me /\ k.missed, vTaskDelete(k, c.t))
     /\ IF c.t = me THEN UNCHANGED <<heap, mem>>
        ELSE /\ heap' = FoldSet(LAMBDA b, h : Free(h, b), heap, mem[c.t])
             /\ mem' = [mem EXCEPT ![c.t] = {}]
     /\ pc' = [pc EXCEPT ![c.t] = App] /\ UNCHANGED load

----------------------------------------------------------------------------
(* The idle task: first the dying tasks, then whoever shares its priority. *)

IdleCleanUp ==
  /\ At("app") /\ me = Idle /\ k.dying # <<>>
  /\ k' = CleanUp(k)
  /\ Continue([at |-> "free", t |-> Head(k.dying)])

\* The stack, then the control block: two blocks alike to the model, which
\* frees them in either order.
IdleFree ==
  /\ At("free")
  /\ \E b \in mem[pc[me].t] :
       /\ heap' = Free(heap, b)
       /\ mem' = [mem EXCEPT ![pc[me].t] = @ \ {b}]
  /\ k' = vTaskSuspendAll(k)
  /\ pc' = [pc EXCEPT ![me].at = "resume free"] /\ UNCHANGED load

IdleResumeFree ==
  /\ At("resume free") /\ k' = xTaskResumeAll(k).k
  /\ IF mem[pc[me].t] = {} THEN Return ELSE Proceed("free")

IdleYield ==
  /\ At("app") /\ me = Idle /\ k.dying = <<>>
  /\ Len(k.ready[0].items) > 1
  /\ k' = Yield(k) /\ Return

----------------------------------------------------------------------------
(* Stream buffers.                                                         *)

\* serial_recv sets the trigger level, then reads.
SetTriggerLevel ==
  \E c \in New("level") :
     k' = xStreamBufferSetTriggerLevel(k, c.s, c.level) /\ Return

\* A reader that would wait signs up if there is nothing to read.
StreamReceive ==
  \E c \in New("stream receive") :
     IF c.ticks = 0 THEN UNCHANGED k /\ Call(c, "read")
     ELSE /\ k' = AwaitBytes(k, c.s)
          /\ Call(c, IF prvBytesInBuffer(k, c.s) > LengthBytes(c.s) THEN "read"
                     ELSE "wait read")

\* A writer signs up as long as there is too little room, until time is up.
StreamSend ==
  \/ \E c \in New("stream send"), d \in load.data :
        LET b == c @@ [data |-> d, space |-> 0]
        IN  IF c.ticks = 0 THEN UNCHANGED k /\ Call(b, "write")
            ELSE k' = vTaskInternalSetTimeOutState(k) /\ Call(b, "room")
  \/ /\ At("room")
     /\ LET c == pc[me]
            space == xStreamBufferSpacesAvailable(k, c.s)
            required == Len(c.data) + LengthBytes(c.s)
        IN  /\ k' = AwaitSpace(k, c.s, required)
            /\ Continue([c EXCEPT !.space = space,
                 !.at = IF space < required THEN "wait room" ELSE "write"])

StreamWait ==
  \/ At("wait read") /\ k' = xTaskNotifyWait(k, pc[me].ticks) /\ Proceed("woken read")
  \/ At("wait room") /\ k' = xTaskNotifyWait(k, pc[me].ticks) /\ Proceed("woken room")

StreamWoken ==
  \/ At("woken read") /\ k' = NotifyWaited(k) /\ Proceed("forget read")
  \/ At("woken room") /\ k' = NotifyWaited(k) /\ Proceed("forget room")

\* The handle is withdrawn outside of any critical section.
StreamForget ==
  \/ /\ At("forget read")
     /\ k' = [k EXCEPT !.stream[pc[me].s].receiver = NULL]
     /\ Proceed("read")
  \/ /\ At("forget room")
     /\ k' = [k EXCEPT !.stream[pc[me].s].sender = NULL]
     /\ Proceed("room timeout")

StreamTimeOut ==
  /\ At("room timeout")
  /\ LET r == xTaskCheckForTimeOut(k, pc[me].ticks)
     IN  k' = r.k /\ Continue([pc[me] EXCEPT !.ticks = r.ticks,
                                 !.at = IF r.ret THEN "write" ELSE "room"])

StreamRead ==
  /\ At("read") /\ pc[me].s \notin MessageBuffer
  /\ LET c == pc[me]
         r == prvReadBytesFromBuffer(k, c.s, c.max, prvBytesInBuffer(k, c.s))
     IN  k' = r.k /\ IF r.ret = <<>> THEN Return ELSE Proceed("read done")

\* A mutant: what is too long for the reader is not put back.
NotPutBack ==
  \/ /\ At("read") /\ pc[me].s \in MessageBuffer
     /\ LET c == pc[me]
            l == prvReadLength(k, c.s)
        IN  IF prvBytesInBuffer(k, c.s) <= LengthBytes(c.s) THEN UNCHANGED k /\ Return
            ELSE k' = l.k /\ Continue([c EXCEPT !.at = "read message"] @@
                              [tail |-> k.stream[c.s].tail, length |-> l.ret])
  \/ /\ At("read message")
     /\ LET c == pc[me]
            r == prvReadBytesFromBuffer(k, c.s, c.length, prvBytesInBuffer(k, c.s))
        IN  IF c.length <= c.max THEN k' = r.k /\ Proceed("read done")
            ELSE UNCHANGED k /\ Return

\* Of a message the length is taken out first, and put back when the reader
\* has no room for the rest.
MessageRead ==
  \/ /\ At("read") /\ pc[me].s \in MessageBuffer
     /\ LET c == pc[me]
            l == prvReadLength(k, c.s)
        IN  IF prvBytesInBuffer(k, c.s) <= LengthBytes(c.s) THEN UNCHANGED k /\ Return
            ELSE k' = l.k /\ Continue([c EXCEPT !.at = "read message"] @@
                              [tail |-> k.stream[c.s].tail, length |-> l.ret])
  \/ /\ At("read message")
     /\ LET c == pc[me]
            r == prvReadBytesFromBuffer(k, c.s, c.length, prvBytesInBuffer(k, c.s))
        IN  IF c.length <= c.max THEN k' = r.k /\ Proceed("read done")
            ELSE k' = [k EXCEPT !.stream[c.s].tail = c.tail] /\ Return

\* So it is to learn the length of the next message.
xStreamBufferNextMessageLengthBytes ==
  \/ \E c \in New("next length") :
        IF prvBytesInBuffer(k, c.s) <= LengthBytes(c.s) THEN UNCHANGED k /\ Return
        ELSE /\ k' = prvReadLength(k, c.s).k
             /\ Call(c @@ [tail |-> k.stream[c.s].tail], "put back")
  \/ /\ At("put back")
     /\ k' = [k EXCEPT !.stream[pc[me].s].tail = pc[me].tail] /\ Return

StreamReset ==
  \E c \in New("reset") : k' = xStreamBufferReset(k, c.s) /\ Return

WriteData(c, d) ==
  LET w == Forget(prvWriteBytesToBuffer(k, c.s, d))
  IN  /\ k' = w
      /\ IF prvBytesInBuffer(w, c.s) >= w.stream[c.s].trigger
         THEN Proceed("write done") ELSE Return

\* The space is the one found before the wait ended, unless that was none.
StreamWrite ==
  /\ At("write")
  /\ LET c == pc[me]
         space == IF c.space = 0 THEN xStreamBufferSpacesAvailable(k, c.s)
                  ELSE c.space
         d == Admitted(c.s, c.data, space)
     IN  IF d = <<>> THEN k' = Forget(k) /\ Return
         ELSE IF c.s \notin MessageBuffer THEN WriteData(c, d)
         ELSE /\ k' = prvWriteLength(k, c.s, Len(c.data))
              /\ Continue([c EXCEPT !.at = "write message", !.data = d])

MessageWrite == At("write message") /\ WriteData(pc[me], pc[me].data)

\* The other side is told with the scheduler suspended.
StreamDone ==
  \/ At("read done")  /\ k' = vTaskSuspendAll(k) /\ Proceed("tell writer")
  \/ At("write done") /\ k' = vTaskSuspendAll(k) /\ Proceed("tell reader")

StreamTell ==
  \/ At("tell writer") /\ k' = sbRECEIVE_COMPLETED(k, pc[me].s) /\ Proceed("told")
  \/ At("tell reader") /\ k' = sbSEND_COMPLETED(k, pc[me].s) /\ Proceed("told")

StreamResume == At("told") /\ k' = xTaskResumeAll(k).k /\ Return

TaskCall ==
  \/ Delay \/ DelayUntil \/ ResumeDelay \/ NotifyTake \/ NotifyGive \/ Suspend \/ Resume
  \/ PrioritySet
  \/ CreateStack \/ ResumeCreate \/ CreateControlBlock \/ EnterTask \/ Delete
  \/ IdleCleanUp \/ IdleFree \/ IdleResumeFree \/ IdleYield

StreamCall ==
  \/ SetTriggerLevel \/ StreamReceive \/ StreamSend \/ StreamWait \/ StreamWoken
  \/ StreamForget \/ StreamTimeOut \/ StreamRead \/ MessageRead
  \/ xStreamBufferNextMessageLengthBytes \/ StreamReset
  \/ StreamWrite \/ MessageWrite \/ StreamDone \/ StreamTell \/ StreamResume
=============================================================================
