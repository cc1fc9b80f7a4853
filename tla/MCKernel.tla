------------------------------ MODULE MCKernel ------------------------------
(* Loads for checking Kernel: each works one part of the kernel.           *)
EXTENDS Kernel

CONSTANTS ta, tb, tc, td, idle, null, cantxq, mutex, signal, serial, mail

MCTask == {ta, tb, tc, td, idle}
MCCreatedAt == [t \in MCTask |-> IF t \in {idle, tb} THEN 0 ELSE IF t = tc THEN 2 ELSE 1]
MCQueueId == {cantxq, mutex, signal}
MCLength == [q \in MCQueueId |-> IF q = cantxq THEN 2 ELSE 1]
MCEventList == MCQueueId \X {"send", "receive"}
MCSize == [s \in {serial, mail} |-> IF s = mail THEN 3 ELSE 2]
Forever == TickMod - 1

Calls(f) == [t \in MCTask |-> IF t \in DOMAIN f THEN f[t] ELSE {}]
Delays(ns) == {[fn |-> "delay", ticks |-> n] : n \in ns}
OnQueue(fn, q, ns) == {[fn |-> fn, q |-> q, ticks |-> n] : n \in ns}
Sends(q, ns, x, where) ==
  {[fn |-> "send", q |-> q, ticks |-> n, x |-> x, position |-> where] : n \in ns}
Gives == Sends(mutex, {0}, 1, "back")
OnTask(fn, ts) == {[fn |-> fn, t |-> t] : t \in ts}

\* Delays, notifications, suspending and priorities.
Timing ==
  [boot |-> <<ta, tc>>, heap |-> "heap_4", data |-> {},
   calls |-> Calls(
     ta :> (Delays({0, 2}) \cup OnTask("notify", {tc}) \cup OnTask("suspend", {ta, tc})
            \cup OnTask("resume", {tc}) \cup OnTask("priority", {ta, tc}))
     @@ tc :> (Delays({1})
            \cup {[fn |-> "notify take", ticks |-> 2, clear |-> FALSE],
                  [fn |-> "notify take", ticks |-> Forever, clear |-> TRUE]})),
   interrupts |-> {[fn |-> "give", t |-> tc, yields |-> FALSE],
                   [fn |-> "resume", t |-> ta, yields |-> TRUE]}]

\* A queue that an interrupt fills and tasks empty.
Readers ==
  [boot |-> <<ta, tc>>, heap |-> "heap_4", data |-> {},
   calls |-> Calls(ta :> OnQueue("receive", cantxq, {0, Forever})
                   @@ tc :> OnQueue("peek", cantxq, {1})),
   interrupts |-> {[fn |-> "send", q |-> cantxq, x |-> 1, yields |-> TRUE]}]

\* A queue that tasks fill and an interrupt empties.
Writers ==
  [boot |-> <<ta, tc>>, heap |-> "heap_4", data |-> {},
   calls |-> Calls(ta :> Sends(cantxq, {2}, 1, "back")
                   @@ tc :> (Sends(cantxq, {0}, 2, "front") \cup Delays({1}))),
   interrupts |-> {[fn |-> "receive", q |-> cantxq, yields |-> FALSE]}]

\* A semaphore that an interrupt gives.
Signals ==
  [boot |-> <<ta, tc>>, heap |-> "heap_4", data |-> {},
   calls |-> Calls(ta :> OnQueue("take", signal, {Forever})
                   @@ tc :> (OnQueue("take", signal, {1}) \cup Delays({1}))),
   interrupts |-> {[fn |-> "give semaphore", q |-> signal, yields |-> TRUE]}]

\* Two periods, the longer one nearly all of the tick count.
Periods ==
  [boot |-> <<ta, tc>>, heap |-> "heap_4", data |-> {},
   calls |-> Calls(ta :> {[fn |-> "delay until", ticks |-> 2]}
                   @@ tc :> ({[fn |-> "delay until", ticks |-> 3]} \cup Delays({1}))),
   interrupts |-> {}]

\* A mutex that tasks of three priorities want, and may give up waiting for; the
\* first to have it creates one of the others.
Locking ==
  [boot |-> <<tb, tc>>, heap |-> "heap_4", data |-> {},
   calls |-> Calls(tb :> (OnQueue("take", mutex, {Forever}) \cup Gives \cup OnTask("create", {ta}))
                   @@ ta :> (OnQueue("take", mutex, {Forever}) \cup Gives)
                   @@ tc :> (OnQueue("take", mutex, {1}) \cup Delays({1}))),
   interrupts |-> {}]

\* The serial port's two streams.
Input ==
  [boot |-> <<ta>>, heap |-> "heap_4", data |-> {},
   calls |-> Calls(ta :> ({[fn |-> "level", s |-> serial, level |-> l] : l \in {0, 2, 4}}
       \cup {[fn |-> "stream receive", s |-> serial, max |-> 2, ticks |-> n] : n \in {0, 2}}
       \cup {[fn |-> "reset", s |-> serial]})),
   interrupts |-> {[fn |-> "byte in", s |-> serial, yields |-> TRUE]}]

Output ==
  [boot |-> <<ta>>, heap |-> "heap_4", data |-> {<<2, 1>>},
   calls |-> Calls(ta :> {[fn |-> "stream send", s |-> serial, ticks |-> 1]}),
   interrupts |-> {[fn |-> "byte out", s |-> serial, yields |-> TRUE]}]

\* Two tasks at the ends of a stream, and interrupts that wake them for nothing.
Pipe ==
  [boot |-> <<ta, tc>>, heap |-> "heap_4", data |-> {<<1>>, <<2, 1>>},
   calls |-> Calls(ta :> {[fn |-> "stream send", s |-> serial, ticks |-> n] : n \in {0, Forever}}
                   @@ tc :> {[fn |-> "stream receive", s |-> serial, max |-> 2, ticks |-> Forever]}),
   interrupts |-> {[fn |-> "sent", s |-> serial, yields |-> TRUE],
                   [fn |-> "received", s |-> serial, yields |-> FALSE]}]

\* Messages of two lengths, for a reader that does not always make room for the
\* longer: one that a writer fills the buffer for, and one that interrupts the
\* writer when its wait runs out.
Messages(reader, ticks) ==
  [boot |-> <<ta, reader>>, heap |-> "heap_4", data |-> {<<1>>, <<2, 1>>},
   calls |-> Calls(ta :> {[fn |-> "stream send", s |-> mail, ticks |-> n] : n \in {0, Forever}}
                   @@ reader :> ({[fn |-> "stream receive", s |-> mail, max |-> n, ticks |-> ticks] : n \in {1, 2}}
                                 \cup {[fn |-> "next length", s |-> mail]})),
   interrupts |-> {}]

\* Tasks that come and go, with memory for one of tb and td at a time, under
\* the allocator linked and under those that could be.
Creating ==
  [boot |-> <<ta, tc>>, heap |-> "heap_4", data |-> {},
   calls |-> Calls(ta :> (OnTask("create", {tb, td}) \cup OnTask("delete", {tc}) \cup Delays({1}))
                   @@ tb :> (OnTask("delete", {tb}) \cup Delays({0}))
                   @@ tc :> (OnTask("delete", {tc}) \cup Delays({1}))
                   @@ td :> OnTask("delete", {td})),
   interrupts |-> {}]

CreatingWith(scheme) ==
  [Creating EXCEPT !.heap = scheme, !.boot = <<ta>>,
     !.calls = Calls(ta :> (OnTask("create", {tb, tc}) \cup OnTask("delete", {tb}) \cup Delays({1}))
                     @@ tc :> OnTask("delete", {tc}))]

\* heap_1 never gets memory back, so nothing may be deleted.
Growing ==
  [Creating EXCEPT !.heap = "heap_1",
     !.calls = Calls(ta :> (OnTask("create", {tb}) \cup Delays({1}))
                     @@ tc :> (OnTask("create", {td}) \cup Delays({1})))]

MCHeapRegions == <<[at |-> 0, size |-> 9], [at |-> 11, size |-> 17]>>

MCLoad == {Timing, Readers, Writers, Locking, Input, Output, Pipe, Creating,
           Signals, Periods, Messages(tb, Forever), Messages(tc, 1),
           CreatingWith("heap_2"), CreatingWith("heap_5"), Growing}
=============================================================================
