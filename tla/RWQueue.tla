------------------------------ MODULE RWQueue ------------------------------
(***************************************************************************)
(* RWQueue (src/src/misc/rwqueue.cpp), the blocking queue between the      *)
(* emulator's threads: a deque, a mutex and two condition variables.       *)
(*                                                                         *)
(* A method is a sequence of critical sections, each of which is an        *)
(* action; the condition variables are notified after the mutex is given   *)
(* up, which is an action of its own.  Waits may also end for no reason.   *)
(*                                                                         *)
(* Enqueue and Dequeue do what BulkEnqueue and BulkDequeue do for a batch  *)
(* of one, except that a Dequeue that finds a stopped and empty queue      *)
(* notifies has_room: a producer woken by it finds the queue stopped, as   *)
(* after a wake-up without a reason.                                       *)
(***************************************************************************)
EXTENDS Integers, Sequences

CONSTANTS
  Producers, Consumers,  \* the threads at the two ends
  Owners,                \* the threads that start, stop, clear and resize it
  Capacity,              \* the capacity given to the constructor
  Resizes,               \* the capacities given to Resize
  Batches,               \* the batches given to Enqueue and BulkEnqueue
  TryBatches,            \* ... to NonblockingEnqueue, NonblockingBulkEnqueue
  Requests,              \* the quantities asked of Dequeue and BulkDequeue
  SizeRange,             \* how many values size_t has
  MaxItems               \* bound: how many items are ever made

ASSUME ThreadsAssumption ==
  /\ Producers \cap Consumers = {}
  /\ Owners \cap (Producers \cup Consumers) = {}

ASSUME SizesAssumption ==
  /\ Capacity \in Nat \ {0}
  /\ \A S \in {Resizes, Batches, TryBatches, Requests} : S \subseteq Nat \ {0}
  /\ MaxItems \in Nat
  /\ SizeRange \in Nat /\ SizeRange > MaxItems

VARIABLES
  queue, capacity, is_running,
  pc,        \* see TypeOK
  chunk,     \* chunk[t]: num_items, when thread t went to sleep
  todo,      \* todo[p]: the items from source_start on
  wanted,    \* wanted[c]: num_remaining
  made,      \* items are numbered as they are made: 1 .. made
  received,  \* history: the items each consumer got, in order
  dropped    \* history: the items cleared, or refused by a stopped queue

vars == <<queue, capacity, is_running, pc, chunk, todo, wanted, made, received, dropped>>

Workers == Producers \cup Consumers
Threads == Workers \cup Owners

Items == 1 .. MaxItems

\* A thread is outside, about to lock the mutex, in the wait set of its
\* condition variable, out of it again, or about to notify after it unlocked.
TypeOK ==
  /\ queue \in Seq(Items)
  /\ capacity \in Nat \ {0}
  /\ is_running \in BOOLEAN
  /\ pc \in [Threads -> {"idle", "enter", "asleep", "awake", "notify", "notify_room"}]
  /\ chunk \in [Workers -> Nat \ {0}]
  /\ todo \in [Producers -> Seq(Items)]
  /\ wanted \in [Consumers -> Nat]
  /\ made \in 0 .. MaxItems
  /\ received \in [Consumers -> Seq(Items)]
  /\ dropped \in SUBSET Items

Goto(t, place) == pc' = [pc EXCEPT ![t] = place]

Elements(s) == {s[i] : i \in DOMAIN s}

New(n) == [i \in 1 .. n |-> made + i]

\* Mutant: one place too many is counted as free.
FreeInclusive ==
  IF Len(queue) <= capacity THEN capacity - Len(queue) + 1
                            ELSE SizeRange + capacity - Len(queue)

\* capacity - queue.size(), in size_t
FreeCapacity ==
  IF Len(queue) <= capacity THEN capacity - Len(queue)
                            ELSE SizeRange + capacity - Len(queue)

\* std::clamp(available, 1, remaining)
NumItems(available, remaining) ==
  IF available < 1 THEN 1 ELSE IF available > remaining THEN remaining ELSE available

----------------------------------------------------------------------------
(* Producers.                                                              *)

\* No caller blocks on a queue that holds more than it may.
BulkEnqueue(p, n) ==
  /\ pc[p] = "idle"
  /\ Len(queue) <= capacity
  /\ made + n <= MaxItems
  /\ Goto(p, "enter")
  /\ todo' = [todo EXCEPT ![p] = New(n)]
  /\ made' = made + n
  /\ UNCHANGED <<queue, capacity, is_running, chunk, wanted, received, dropped>>

EnqueueQuantity(p) ==
  IF pc[p] = "enter" THEN NumItems(FreeCapacity, Len(todo[p])) ELSE chunk[p]

EnqueueWait(p) ==
  /\ pc[p] \in {"enter", "awake"} /\ is_running
  /\ FreeCapacity < EnqueueQuantity(p)
  /\ Goto(p, "asleep")
  /\ chunk' = [chunk EXCEPT ![p] = EnqueueQuantity(p)]
  /\ UNCHANGED <<queue, capacity, is_running, todo, wanted, made, received, dropped>>

\* Mutant: the items of the next chunk are taken from the start again.
EnqueueFromStart(p) ==
  LET n == EnqueueQuantity(p) IN
  /\ pc[p] \in {"enter", "awake"} /\ is_running
  /\ FreeCapacity >= n
  /\ queue' = queue \o SubSeq(todo[p], 1, n)
  /\ todo' = [todo EXCEPT ![p] = SubSeq(@, 1, Len(@) - n)]
  /\ Goto(p, "notify")
  /\ UNCHANGED <<capacity, is_running, chunk, wanted, made, received, dropped>>

EnqueueChunk(p) ==
  LET n == EnqueueQuantity(p) IN
  /\ pc[p] \in {"enter", "awake"} /\ is_running
  /\ FreeCapacity >= n
  /\ queue' = queue \o SubSeq(todo[p], 1, n)
  /\ todo' = [todo EXCEPT ![p] = SubSeq(@, n + 1, Len(@))]
  /\ Goto(p, "notify")
  /\ UNCHANGED <<capacity, is_running, chunk, wanted, made, received, dropped>>

EnqueueStopped(p) ==
  /\ pc[p] \in {"enter", "awake"} /\ ~is_running
  /\ Goto(p, "idle")
  /\ todo' = [todo EXCEPT ![p] = <<>>]
  /\ dropped' = dropped \cup Elements(todo[p])
  /\ UNCHANGED <<queue, capacity, is_running, chunk, wanted, made, received>>

\* What does not fit stays with the caller; a stopped or full queue takes
\* nothing, which changes nothing.
NonblockingBulkEnqueue(p, n) ==
  LET num_items == IF FreeCapacity < n THEN FreeCapacity ELSE n IN
  /\ pc[p] = "idle" /\ is_running
  /\ Len(queue) < capacity
  /\ made + num_items <= MaxItems
  /\ queue' = queue \o New(num_items)
  /\ made' = made + num_items
  /\ Goto(p, "notify")
  /\ UNCHANGED <<capacity, is_running, chunk, todo, wanted, received, dropped>>

----------------------------------------------------------------------------
(* Consumers.                                                              *)

BulkDequeue(c, n) ==
  /\ pc[c] = "idle"
  /\ Goto(c, "enter")
  /\ wanted' = [wanted EXCEPT ![c] = n]
  /\ UNCHANGED <<queue, capacity, is_running, chunk, todo, made, received, dropped>>

DequeueQuantity(c) ==
  IF pc[c] = "enter" THEN NumItems(Len(queue), wanted[c]) ELSE chunk[c]

DequeueWait(c) ==
  /\ pc[c] \in {"enter", "awake"} /\ is_running
  /\ Len(queue) < DequeueQuantity(c)
  /\ Goto(c, "asleep")
  /\ chunk' = [chunk EXCEPT ![c] = DequeueQuantity(c)]
  /\ UNCHANGED <<queue, capacity, is_running, todo, wanted, made, received, dropped>>

\* Mutant: one item too many is counted.
DequeueOneTooMany(c) ==
  LET n == DequeueQuantity(c) IN
  /\ pc[c] \in {"enter", "awake"}
  /\ IF is_running THEN Len(queue) >= n ELSE queue # <<>>
  /\ received' = [received EXCEPT ![c] = @ \o SubSeq(queue, 1, n)]
  /\ queue' = SubSeq(queue, n + 1, Len(queue))
  /\ wanted' = [wanted EXCEPT ![c] = @ - n - 1]
  /\ Goto(c, "notify")
  /\ UNCHANGED <<capacity, is_running, chunk, todo, made, dropped>>

\* Even if the queue has stopped, it is drained.
DequeueChunk(c) ==
  LET n == DequeueQuantity(c) IN
  /\ pc[c] \in {"enter", "awake"}
  /\ IF is_running THEN Len(queue) >= n ELSE queue # <<>>
  /\ received' = [received EXCEPT ![c] = @ \o SubSeq(queue, 1, n)]
  /\ queue' = SubSeq(queue, n + 1, Len(queue))
  /\ wanted' = [wanted EXCEPT ![c] = @ - n]
  /\ Goto(c, "notify")
  /\ UNCHANGED <<capacity, is_running, chunk, todo, made, dropped>>

\* Mutant: a stopped queue is not drained.
DequeueNotDrained(c) ==
  /\ pc[c] \in {"enter", "awake"} /\ ~is_running
  /\ Goto(c, "idle")
  /\ wanted' = [wanted EXCEPT ![c] = 0]
  /\ UNCHANGED <<queue, capacity, is_running, chunk, todo, made, received, dropped>>

DequeueStopped(c) ==
  /\ pc[c] \in {"enter", "awake"} /\ ~is_running
  /\ queue = <<>>
  /\ Goto(c, "idle")
  /\ wanted' = [wanted EXCEPT ![c] = 0]
  /\ UNCHANGED <<queue, capacity, is_running, chunk, todo, made, received, dropped>>

----------------------------------------------------------------------------
(* Condition variables: producers wait on has_room, consumers on has_items. *)

Asleep(S) == {t \in S : pc[t] = "asleep"}

\* the rest of a call once a chunk is moved and the other side notified
Onward(t) ==
  IF t \in Producers
  THEN IF todo[t] = <<>> THEN "idle" ELSE "enter"
  ELSE IF wanted[t] = 0 THEN "idle" ELSE "enter"

\* Mutant: nobody is notified.
NotifyNobody(t, S) ==
  /\ pc[t] = "notify"
  /\ Goto(t, Onward(t))
  /\ UNCHANGED <<queue, capacity, is_running, chunk, todo, wanted, made, received, dropped>>

\* t calls notify_one on the condition variable the threads of S wait on
NotifyOne(t, S) ==
  /\ pc[t] = "notify"
  /\ \/ Asleep(S) = {} /\ Goto(t, Onward(t))
     \/ \E u \in Asleep(S) : pc' = [pc EXCEPT ![t] = Onward(t), ![u] = "awake"]
  /\ UNCHANGED <<queue, capacity, is_running, chunk, todo, wanted, made, received, dropped>>

SpuriousWake(t) ==
  /\ pc[t] = "asleep"
  /\ Goto(t, "awake")
  /\ UNCHANGED <<queue, capacity, is_running, chunk, todo, wanted, made, received, dropped>>

\* t calls notify_all on the condition variable the threads of S wait on
NotifyAll(t, S, next) ==
  /\ pc' = [u \in Threads |-> IF u = t THEN next
                              ELSE IF u \in Asleep(S) THEN "awake" ELSE pc[u]]
  /\ UNCHANGED <<queue, capacity, is_running, chunk, todo, wanted, made, received, dropped>>

----------------------------------------------------------------------------
(* Owners.                                                                 *)

Start(o) ==
  /\ pc[o] = "idle"
  /\ is_running' = TRUE
  /\ UNCHANGED <<queue, capacity, pc, chunk, todo, wanted, made, received, dropped>>

\* Mutant: Stop notifies nobody.
StopQuietly(o) ==
  /\ pc[o] = "idle" /\ is_running
  /\ is_running' = FALSE
  /\ UNCHANGED <<queue, capacity, pc, chunk, todo, wanted, made, received, dropped>>

Stop(o) ==
  /\ pc[o] = "idle" /\ is_running
  /\ is_running' = FALSE
  /\ Goto(o, "notify")
  /\ UNCHANGED <<queue, capacity, chunk, todo, wanted, made, received, dropped>>

Clear(o) ==
  /\ pc[o] = "idle"
  /\ queue' = <<>>
  /\ dropped' = dropped \cup Elements(queue)
  /\ Goto(o, "notify_room")
  /\ UNCHANGED <<capacity, is_running, chunk, todo, wanted, made, received>>

\* Mutant: what no longer fits is cut off.
ResizeTruncates(o, n) ==
  /\ pc[o] = "idle"
  /\ \A p \in Producers : todo[p] = <<>>
  /\ capacity' = n
  /\ queue' = SubSeq(queue, 1, IF Len(queue) < n THEN Len(queue) ELSE n)
  /\ UNCHANGED <<is_running, pc, chunk, todo, wanted, made, received, dropped>>

\* A queue is resized before its producer runs, if that one blocks; the queues
\* of the sound devices at any time.
Resize(o, n) ==
  /\ pc[o] = "idle"
  /\ \A p \in Producers : todo[p] = <<>>
  /\ capacity' = n
  /\ UNCHANGED <<queue, is_running, pc, chunk, todo, wanted, made, received, dropped>>

\* Stop: has_items.notify_all()
NotifyItems(o) == pc[o] = "notify" /\ NotifyAll(o, Consumers, "notify_room")

\* Stop and Clear: has_room.notify_all()
NotifyRoom(o) == pc[o] = "notify_room" /\ NotifyAll(o, Producers, "idle")

----------------------------------------------------------------------------
Init ==
  /\ queue = <<>> /\ capacity = Capacity /\ is_running = TRUE
  /\ pc = [t \in Threads |-> "idle"]
  /\ chunk = [t \in Workers |-> 1]
  /\ todo = [p \in Producers |-> <<>>]
  /\ wanted = [c \in Consumers |-> 0]
  /\ made = 0
  /\ received = [c \in Consumers |-> <<>>]
  /\ dropped = {}

\* what a thread does inside a call
ProducerStep(p) ==
  EnqueueWait(p) \/ EnqueueChunk(p) \/ EnqueueStopped(p) \/ NotifyOne(p, Consumers)

ConsumerStep(c) ==
  DequeueWait(c) \/ DequeueChunk(c) \/ DequeueStopped(c) \/ NotifyOne(c, Producers)

OwnerStep(o) == NotifyItems(o) \/ NotifyRoom(o)

Next ==
  \/ \E p \in Producers :
       \/ ProducerStep(p)
       \/ \E n \in Batches : BulkEnqueue(p, n)
       \/ \E n \in TryBatches : NonblockingBulkEnqueue(p, n)
  \/ \E c \in Consumers :
       \/ ConsumerStep(c)
       \/ \E n \in Requests : BulkDequeue(c, n)
  \/ \E t \in Workers : SpuriousWake(t)
  \/ \E o \in Owners :
       \/ OwnerStep(o) \/ Start(o) \/ Stop(o) \/ Clear(o)
       \/ \E n \in Resizes : Resize(o, n)

Spec == Init /\ [][Next]_vars

\* The host schedules every thread that can run and its mutexes starve nobody;
\* no thread has to call anything, and no wait has to end without a reason.
FairSpec ==
  /\ Spec
  /\ \A p \in Producers : WF_vars(ProducerStep(p))
  /\ \A c \in Consumers : WF_vars(ConsumerStep(c))
  /\ \A o \in Owners : WF_vars(OwnerStep(o))

----------------------------------------------------------------------------
(* Properties.                                                             *)

\* How the program uses the class: one thread at each end.  Some properties
\* need it.
AsUsed ==
  /\ \A p, q \in Producers : p = q
  /\ \A c, d \in Consumers : c = d

\* What a consumer got and what is still on its way to it is in the order it
\* was made, each item once: bulk calls neither repeat nor reorder.
InOrder ==
  \A c \in Consumers, p \in Producers :
    LET s == received[c] \o queue \o todo[p] IN
    \A i, j \in DOMAIN s : i < j => s[i] < s[j]

\* An item is lost only by Clear, or by a call that a stopped queue refuses.
NothingLost ==
  1 .. made = dropped \cup Elements(queue)
              \cup (UNION {Elements(todo[p]) : p \in Producers})
              \cup (UNION {Elements(received[c]) : c \in Consumers})

\* t is about to notify the threads that wait for items (for room)
WillNotifyItems == \E t \in Producers \cup Owners : pc[t] = "notify"
WillNotifyRoom ==
  \/ \E t \in Consumers \cup Owners : pc[t] = "notify"
  \/ \E t \in Owners : pc[t] = "notify_room"

\* Nobody sleeps who could go on, unless a thread is about to wake it: the
\* notifications after the unlock are not too early, too late or too few.
NoLostWakeup ==
  /\ \A c \in Consumers :
       pc[c] = "asleep" /\ (queue # <<>> \/ ~is_running) => WillNotifyItems
  /\ \A p \in Producers :
       pc[p] = "asleep" /\ (Len(queue) < capacity \/ ~is_running) => WillNotifyRoom

\* No step moves in items above the capacity, also after Resize made it
\* smaller than what is queued.
CapacityKept == [][Len(queue') > Len(queue) => Len(queue') <= capacity']_vars

\* A call on a queue that stays stopped comes back: whoever stops a queue may
\* join the threads at its ends.
StopEndsCalls ==
  \A t \in Workers : ~is_running /\ pc[t] # "idle" ~> is_running \/ pc[t] = "idle"

Promise == INSTANCE ThreadQueue WITH calling <- {t \in Workers : pc[t] # "idle"}

\* The mutex, the condition variables and the chunks implement the promise,
\* with its fairness: every call that could go on does.
ImplementsThreadQueue == Promise!QSpec
============================================================================
