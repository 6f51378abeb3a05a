--------------------------- MODULE RWQueueProofs ---------------------------
(***************************************************************************)
(* Proofs about RWQueue as the program uses it (AsUsed), for any capacity, *)
(* any sizes of batches and requests and any number of owners: no wake-up  *)
(* is lost, the capacity is kept, items are neither lost nor reordered,    *)
(* and the queue implements ThreadQueue.                                   *)
(***************************************************************************)
EXTENDS RWQueue, SequenceTheorems, TLAPS

----------------------------------------------------------------------------
(* The inductive invariant.                                                *)

\* Where threads can be, and what they carry there.
Places ==
  /\ \A t \in Workers :
       /\ pc[t] # "notify_room"
       /\ pc[t] \in {"asleep", "awake"} => chunk[t] = 1
  /\ \A o \in Owners : pc[o] \in {"idle", "notify", "notify_room"}
  /\ \A p \in Producers : pc[p] \in {"enter", "asleep", "awake"} => Len(todo[p]) > 0
  /\ \A c \in Consumers : pc[c] \in {"enter", "asleep", "awake"} => wanted[c] > 0

\* While a producer blocks, the queue holds no more than its capacity.
Fits == \A p \in Producers : todo[p] # <<>> => Len(queue) <= capacity

IInv == TypeOK /\ Places /\ Fits /\ NoLostWakeup

\* The two parts of a list.
LEMMA Parts ==
  ASSUME NEW S, NEW s \in Seq(S), NEW n \in 0 .. Len(s)
  PROVE  /\ SubSeq(s, 1, n) \in Seq(S) /\ Len(SubSeq(s, 1, n)) = n
         /\ SubSeq(s, n + 1, Len(s)) \in Seq(S)
         /\ Len(SubSeq(s, n + 1, Len(s))) = Len(s) - n
  OBVIOUS

\* Items that are made are within the bound.
LEMMA NewItems ==
  ASSUME NEW n \in Nat, made \in Nat, MaxItems \in Nat, made + n <= MaxItems
  PROVE  New(n) \in Seq(Items) /\ Len(New(n)) = n
<1>1. \A i \in 1 .. n : made + i \in Items
  BY DEF Items
<1>2. New(n) \in [1 .. n -> Items]
  BY <1>1 DEF New
<1>3. QED
  BY <1>2

\* What clamp returns.
LEMMA NumItemsBounds ==
  ASSUME NEW a \in Nat, NEW r \in Nat \ {0}
  PROVE  /\ NumItems(a, r) \in 1 .. r
         /\ NumItems(a, r) > a <=> a = 0
  BY DEF NumItems

\* The quantity of a producer that holds the mutex: it waits only for a full
\* queue, and free capacity does not wrap around.
LEMMA EnqueueBounds ==
  ASSUME AsUsed, IInv, NEW p \in Producers, pc[p] \in {"enter", "awake"}
  PROVE  /\ FreeCapacity = capacity - Len(queue) /\ FreeCapacity \in Nat
         /\ EnqueueQuantity(p) \in 1 .. Len(todo[p])
         /\ FreeCapacity < EnqueueQuantity(p) <=> FreeCapacity = 0
<1>1. todo[p] # <<>>
  BY DEF IInv, Places, TypeOK
<1>2. /\ Len(queue) \in Nat /\ capacity \in Nat /\ Len(queue) <= capacity
      /\ Len(todo[p]) \in Nat \ {0}
  BY <1>1 DEF IInv, TypeOK, Fits, Places
<1>3. FreeCapacity = capacity - Len(queue) /\ FreeCapacity \in Nat
  BY <1>2 DEF FreeCapacity
<1>4. CASE pc[p] = "enter"
  BY <1>2, <1>3, <1>4, NumItemsBounds DEF EnqueueQuantity
<1>5. CASE pc[p] = "awake"
  <2>1. EnqueueQuantity(p) = 1
    BY <1>5 DEF EnqueueQuantity, IInv, Places, Workers
  <2>2. QED
    BY <1>2, <1>3, <2>1
<1>6. QED
  BY <1>3, <1>4, <1>5

\* The same for a consumer: it waits only for an empty queue.
LEMMA DequeueBounds ==
  ASSUME IInv, NEW c \in Consumers, pc[c] \in {"enter", "awake"}
  PROVE  /\ DequeueQuantity(c) \in 1 .. wanted[c]
         /\ Len(queue) < DequeueQuantity(c) <=> Len(queue) = 0
<1>1. Len(queue) \in Nat /\ wanted[c] \in Nat \ {0}
  BY DEF IInv, TypeOK, Places
<1>2. CASE pc[c] = "enter"
  BY <1>1, <1>2, NumItemsBounds DEF DequeueQuantity
<1>3. CASE pc[c] = "awake"
  <2>1. DequeueQuantity(c) = 1
    BY <1>3 DEF DequeueQuantity, IInv, Places, Workers
  <2>2. QED
    BY <1>1, <2>1
<1>4. QED
  BY <1>2, <1>3

----------------------------------------------------------------------------
(* Every step keeps the invariant.                                         *)

\* A new queue is empty and everybody is outside.
LEMMA InitInvariant == Init => IInv
<1> SUFFICES ASSUME Init PROVE IInv
  OBVIOUS
<1>1. is_running \in BOOLEAN
  BY Zenon DEF Init
<1>2. queue = <<>> /\ Len(queue) = 0 /\ capacity \in Nat \ {0}
  BY SizesAssumption DEF Init
<1>3. TypeOK
  BY <1>1, <1>2, SizesAssumption DEF Init, TypeOK, Workers, Threads, Items
<1>4. \A t \in Threads : pc[t] = "idle"
  BY DEF Init
<1>5. Places /\ Fits /\ NoLostWakeup
  BY <1>2, <1>4 DEF Places, Fits, NoLostWakeup, Workers, Threads
<1>6. QED
  BY <1>3, <1>5 DEF IInv

\* A producer's call begins.
LEMMA BulkEnqueueInvariant ==
  ASSUME AsUsed, IInv, NEW p \in Producers, NEW n \in Batches, BulkEnqueue(p, n)
  PROVE  IInv'
<1> USE DEF IInv
<1>1. n \in Nat \ {0} /\ p \in Threads /\ p \notin Owners /\ p \notin Consumers
  BY SizesAssumption, ThreadsAssumption DEF Threads, Workers
<1>2. New(n) \in Seq(Items) /\ Len(New(n)) = n
  BY <1>1, NewItems, SizesAssumption DEF BulkEnqueue, TypeOK
<1>3. TypeOK'
  BY <1>1, <1>2, SizesAssumption DEF BulkEnqueue, TypeOK, Goto
<1>4. Places'
  BY <1>1, <1>2 DEF BulkEnqueue, Places, TypeOK, Goto, Workers
<1>5. Fits'
  BY <1>1 DEF BulkEnqueue, Fits
<1>6. NoLostWakeup'
  BY <1>1 DEF BulkEnqueue, NoLostWakeup, WillNotifyItems, WillNotifyRoom, TypeOK, Goto, Threads, Workers
<1>7. QED
  BY <1>3, <1>4, <1>5, <1>6

\* A producer finds no room.
LEMMA EnqueueWaitInvariant ==
  ASSUME AsUsed, IInv, NEW p \in Producers, EnqueueWait(p)
  PROVE  IInv'
<1> USE DEF IInv
<1>1. p \in Threads /\ p \in Workers /\ p \notin Owners /\ p \notin Consumers
  BY ThreadsAssumption DEF Threads, Workers
<1>2. pc[p] \in {"enter", "awake"} /\ is_running
  BY DEF EnqueueWait
<1>3. /\ FreeCapacity = 0 /\ Len(queue) >= capacity
      /\ EnqueueQuantity(p) = 1
  <2>1. FreeCapacity = 0 /\ FreeCapacity = capacity - Len(queue)
    BY <1>2, EnqueueBounds DEF EnqueueWait
  <2>2. EnqueueQuantity(p) = 1
    BY <1>2, <2>1 DEF EnqueueQuantity, NumItems, Places, Workers
  <2>3. QED
    BY <2>1, <2>2 DEF TypeOK
<1>4. TypeOK'
  BY <1>1, <1>3 DEF EnqueueWait, TypeOK, Goto
<1>5. Places'
  BY <1>1, <1>2, <1>3 DEF EnqueueWait, Places, TypeOK, Goto, Workers
<1>6. Fits'
  BY <1>1, <1>2 DEF EnqueueWait, Fits
<1>7. NoLostWakeup'
  <2>1. /\ pc' = [pc EXCEPT ![p] = "asleep"]
        /\ UNCHANGED <<queue, capacity, is_running>>
    BY DEF EnqueueWait, Goto
  <2>2. WillNotifyItems => WillNotifyItems'
    BY <1>1, <1>2, <2>1 DEF WillNotifyItems, TypeOK, Threads, Workers
  <2>3. \A c \in Consumers : pc'[c] = pc[c]
    BY <1>1, <2>1 DEF TypeOK
  <2>4. \A q \in Producers : q = p
    BY DEF AsUsed
  <2>5. QED
    BY <1>2, <1>3, <2>1, <2>2, <2>3, <2>4 DEF NoLostWakeup, TypeOK
<1>8. QED
  BY <1>4, <1>5, <1>6, <1>7

\* A producer moves a chunk in.
LEMMA EnqueueChunkInvariant ==
  ASSUME AsUsed, IInv, NEW p \in Producers, EnqueueChunk(p)
  PROVE  IInv'
<1> USE DEF IInv
<1> DEFINE n == EnqueueQuantity(p)
<1>1. p \in Threads /\ p \in Workers /\ p \notin Owners /\ p \notin Consumers
  BY ThreadsAssumption DEF Threads, Workers
<1>2. pc[p] \in {"enter", "awake"} /\ is_running
  BY DEF EnqueueChunk
<1>3. n \in 1 .. Len(todo[p]) /\ n <= capacity - Len(queue)
  BY <1>2, EnqueueBounds DEF EnqueueChunk
<1> HIDE DEF n
<1>4. /\ queue' = queue \o SubSeq(todo[p], 1, n)
      /\ todo' = [todo EXCEPT ![p] = SubSeq(@, n + 1, Len(@))]
      /\ pc' = [pc EXCEPT ![p] = "notify"]
      /\ UNCHANGED <<capacity, is_running, chunk, wanted, made, received, dropped>>
  BY DEF EnqueueChunk, Goto, n
<1>5. /\ SubSeq(todo[p], 1, n) \in Seq(Items) /\ Len(SubSeq(todo[p], 1, n)) = n
      /\ SubSeq(todo[p], n + 1, Len(todo[p])) \in Seq(Items)
  <2>1. todo[p] \in Seq(Items) /\ n \in 0 .. Len(todo[p])
    BY <1>3 DEF TypeOK
  <2>2. QED
    BY <2>1, Parts
<1>6. queue' \in Seq(Items) /\ Len(queue') = Len(queue) + n
  BY <1>4, <1>5 DEF TypeOK
<1>7. TypeOK'
  BY <1>1, <1>4, <1>5, <1>6 DEF TypeOK
<1>8. Places'
  BY <1>1, <1>4 DEF Places, TypeOK, Workers
<1>9. Fits'
  BY <1>1, <1>3, <1>4, <1>6 DEF Fits, TypeOK
<1>10. NoLostWakeup'
  <2>1. WillNotifyItems'
    BY <1>1, <1>4 DEF WillNotifyItems, TypeOK
  <2>2. ASSUME NEW q \in Producers PROVE pc'[q] # "asleep"
    BY <1>1, <1>4 DEF AsUsed, TypeOK
  <2>3. QED
    BY <2>1, <2>2 DEF NoLostWakeup
<1>11. QED
  BY <1>7, <1>8, <1>9, <1>10

\* A producer finds the queue stopped.
LEMMA EnqueueStoppedInvariant ==
  ASSUME AsUsed, IInv, NEW p \in Producers, EnqueueStopped(p)
  PROVE  IInv'
<1> USE DEF IInv
<1>1. p \in Threads /\ p \in Workers /\ p \notin Owners /\ p \notin Consumers
  BY ThreadsAssumption DEF Threads, Workers
<1>2. Elements(todo[p]) \subseteq Items
  BY DEF Elements, TypeOK
<1>3. TypeOK'
  BY <1>1, <1>2 DEF EnqueueStopped, TypeOK, Goto
<1>4. Places'
  BY <1>1 DEF EnqueueStopped, Places, TypeOK, Goto, Workers
<1>5. Fits'
  BY <1>1 DEF EnqueueStopped, Fits, Goto, TypeOK
<1>6. NoLostWakeup'
  BY <1>1 DEF EnqueueStopped, NoLostWakeup, WillNotifyItems, WillNotifyRoom, TypeOK, Goto, Threads, Workers
<1>7. QED
  BY <1>3, <1>4, <1>5, <1>6

\* A call that does not block.
LEMMA NonblockingInvariant ==
  ASSUME AsUsed, IInv, NEW p \in Producers, NEW n \in TryBatches,
         NonblockingBulkEnqueue(p, n)
  PROVE  IInv'
<1> USE DEF IInv
<1> DEFINE m == IF FreeCapacity < n THEN FreeCapacity ELSE n
<1>1. p \in Threads /\ p \in Workers /\ p \notin Owners /\ p \notin Consumers
  BY ThreadsAssumption DEF Threads, Workers
<1>2. m \in Nat /\ Len(queue) + m <= capacity
  BY SizesAssumption DEF NonblockingBulkEnqueue, FreeCapacity, TypeOK
<1> HIDE DEF m
<1>3. /\ queue' = queue \o New(m) /\ made' = made + m /\ made + m <= MaxItems
      /\ pc' = [pc EXCEPT ![p] = "notify"]
      /\ UNCHANGED <<capacity, is_running, chunk, todo, wanted, received, dropped>>
  BY DEF NonblockingBulkEnqueue, Goto, m
<1>4. New(m) \in Seq(Items) /\ Len(New(m)) = m
  BY <1>2, <1>3, NewItems, SizesAssumption DEF TypeOK
<1>5. queue' \in Seq(Items) /\ Len(queue') = Len(queue) + m
  <2>1. PICK s \in Seq(Items) : s = New(m) /\ Len(s) = m
    BY <1>4
  <2>2. queue' = queue \o s /\ queue \in Seq(Items)
    BY <1>3, <2>1 DEF TypeOK
  <2>3. QED
    BY <2>1, <2>2
<1>6. TypeOK'
  BY <1>1, <1>2, <1>3, <1>5, SizesAssumption DEF TypeOK
<1>7. Places'
  BY <1>1, <1>3 DEF Places, TypeOK, Workers
<1>8. Fits'
  BY <1>1, <1>2, <1>3, <1>5 DEF Fits, TypeOK
<1>9. NoLostWakeup'
  <2>1. WillNotifyItems'
    BY <1>1, <1>3 DEF WillNotifyItems, TypeOK
  <2>2. ASSUME NEW q \in Producers PROVE pc'[q] # "asleep"
    BY <1>1, <1>3 DEF AsUsed, TypeOK
  <2>3. QED
    BY <2>1, <2>2 DEF NoLostWakeup
<1>10. QED
  BY <1>6, <1>7, <1>8, <1>9

\* A producer notifies the consumer, if it sleeps.
LEMMA NotifyConsumerInvariant ==
  ASSUME AsUsed, IInv, NEW p \in Producers, NotifyOne(p, Consumers)
  PROVE  IInv'
<1> USE DEF IInv
<1>1. p \in Threads /\ p \in Workers /\ p \notin Owners /\ p \notin Consumers
  BY ThreadsAssumption DEF Threads, Workers
<1>2. /\ pc[p] = "notify"
      /\ UNCHANGED <<queue, capacity, is_running, chunk, todo, wanted, made, received, dropped>>
      /\ Onward(p) \in {"idle", "enter"}
      /\ Onward(p) = "enter" => todo[p] # <<>>
  BY <1>1 DEF NotifyOne, Onward
<1>3. /\ \A c \in Consumers : pc'[c] # "asleep" /\ pc'[c] \in {pc[c], "awake"}
      /\ \A c \in Consumers : pc'[c] # pc[c] => pc[c] = "asleep"
      /\ pc'[p] = Onward(p)
      /\ \A o \in Owners : pc'[o] = pc[o]
      /\ pc' \in [Threads -> {"idle", "enter", "asleep", "awake", "notify", "notify_room"}]
  <2>1. CASE Asleep(Consumers) = {} /\ Goto(p, Onward(p))
    BY <1>1, <1>2, <2>1 DEF Asleep, Goto, TypeOK, Threads, Workers
  <2>2. ASSUME NEW c \in Asleep(Consumers),
               pc' = [pc EXCEPT ![p] = Onward(p), ![c] = "awake"]
        PROVE  <1>3!1 /\ <1>3!2 /\ <1>3!3 /\ <1>3!4 /\ <1>3!5
    <3>1. c \in Consumers /\ c \in Threads /\ c # p /\ c \notin Owners /\ pc[c] = "asleep"
      BY <1>1, ThreadsAssumption DEF Asleep, Threads, Workers
    <3>2. \A d \in Consumers : d = c
      BY <3>1 DEF AsUsed
    <3>3. QED
      BY <1>1, <1>2, <2>2, <3>1, <3>2 DEF TypeOK, Threads, Workers
  <2>3. QED
    BY <2>1, <2>2 DEF NotifyOne
<1>4. \A q \in Producers : q = p
  BY DEF AsUsed
<1>5. TypeOK'
  BY <1>2, <1>3 DEF TypeOK
<1>6. Places'
  <2>1. todo[p] # <<>> => Len(todo[p]) > 0
    BY DEF TypeOK
  <2>2. QED
    BY <1>2, <1>3, <1>4, <2>1 DEF Places, Workers
<1>7. Fits'
  BY <1>2 DEF Fits
<1>8. NoLostWakeup'
  BY <1>2, <1>3, <1>4 DEF NoLostWakeup
<1>9. QED
  BY <1>5, <1>6, <1>7, <1>8

----------------------------------------------------------------------------
(* The consumer's steps.                                                   *)

\* A consumer's call begins.
LEMMA BulkDequeueInvariant ==
  ASSUME AsUsed, IInv, NEW c \in Consumers, NEW n \in Requests, BulkDequeue(c, n)
  PROVE  IInv'
<1> USE DEF IInv
<1>1. n \in Nat \ {0} /\ c \in Threads /\ c \notin Owners /\ c \notin Producers
  BY SizesAssumption, ThreadsAssumption DEF Threads, Workers
<1>2. TypeOK'
  BY <1>1 DEF BulkDequeue, TypeOK, Goto
<1>3. Places'
  BY <1>1 DEF BulkDequeue, Places, TypeOK, Goto, Workers
<1>4. Fits'
  BY <1>1 DEF BulkDequeue, Fits, Goto, TypeOK, Threads, Workers
<1>5. NoLostWakeup'
  BY <1>1 DEF BulkDequeue, NoLostWakeup, WillNotifyItems, WillNotifyRoom, TypeOK, Goto, Threads, Workers
<1>6. QED
  BY <1>2, <1>3, <1>4, <1>5

\* A consumer finds no items.
LEMMA DequeueWaitInvariant ==
  ASSUME AsUsed, IInv, NEW c \in Consumers, DequeueWait(c)
  PROVE  IInv'
<1> USE DEF IInv
<1>1. c \in Threads /\ c \in Workers /\ c \notin Owners /\ c \notin Producers
  BY ThreadsAssumption DEF Threads, Workers
<1>2. pc[c] \in {"enter", "awake"} /\ is_running
  BY DEF DequeueWait
<1>3. Len(queue) = 0 /\ queue = <<>> /\ DequeueQuantity(c) = 1
  <2>1. Len(queue) = 0
    BY <1>2, DequeueBounds DEF DequeueWait
  <2>2. queue = <<>>
    BY <2>1 DEF TypeOK
  <2>3. DequeueQuantity(c) = 1
    BY <1>2, <2>1 DEF DequeueQuantity, NumItems, Places, Workers
  <2>4. QED
    BY <2>1, <2>2, <2>3
<1>4. TypeOK'
  BY <1>1, <1>3 DEF DequeueWait, TypeOK, Goto
<1>5. Places'
  BY <1>1, <1>2, <1>3 DEF DequeueWait, Places, TypeOK, Goto, Workers
<1>6. Fits'
  BY <1>1 DEF DequeueWait, Fits, Goto, TypeOK, Threads, Workers
<1>7. NoLostWakeup'
  <2>1. /\ pc' = [pc EXCEPT ![c] = "asleep"]
        /\ UNCHANGED <<queue, capacity, is_running>>
    BY DEF DequeueWait, Goto
  <2>2. WillNotifyRoom => WillNotifyRoom'
    BY <1>1, <1>2, <2>1 DEF WillNotifyRoom, TypeOK, Threads, Workers
  <2>3. \A p \in Producers : pc'[p] = pc[p]
    BY <1>1, <2>1 DEF TypeOK, Threads, Workers
  <2>4. \A d \in Consumers : d = c
    BY DEF AsUsed
  <2>5. QED
    BY <1>2, <1>3, <2>1, <2>2, <2>3, <2>4 DEF NoLostWakeup, TypeOK
<1>8. QED
  BY <1>4, <1>5, <1>6, <1>7

\* A consumer moves a chunk out.
LEMMA DequeueChunkInvariant ==
  ASSUME AsUsed, IInv, NEW c \in Consumers, DequeueChunk(c)
  PROVE  IInv'
<1> USE DEF IInv
<1> DEFINE n == DequeueQuantity(c)
<1>1. c \in Threads /\ c \in Workers /\ c \notin Owners /\ c \notin Producers
  BY ThreadsAssumption DEF Threads, Workers
<1>2. pc[c] \in {"enter", "awake"}
  BY DEF DequeueChunk
<1>3. n \in 1 .. wanted[c] /\ n \in 0 .. Len(queue)
  <2>1. Len(queue) \in Nat /\ (queue = <<>> <=> Len(queue) = 0)
    BY DEF TypeOK
  <2>2. QED
    BY <1>2, <2>1, DequeueBounds DEF DequeueChunk
<1> HIDE DEF n
<1>4. /\ queue' = SubSeq(queue, n + 1, Len(queue))
      /\ received' = [received EXCEPT ![c] = @ \o SubSeq(queue, 1, n)]
      /\ wanted' = [wanted EXCEPT ![c] = @ - n]
      /\ pc' = [pc EXCEPT ![c] = "notify"]
      /\ UNCHANGED <<capacity, is_running, chunk, todo, made, dropped>>
  BY DEF DequeueChunk, Goto, n
<1>5. /\ SubSeq(queue, 1, n) \in Seq(Items)
      /\ queue' \in Seq(Items) /\ Len(queue') = Len(queue) - n
  <2>1. queue \in Seq(Items)
    BY DEF TypeOK
  <2>2. QED
    BY <1>3, <1>4, <2>1, Parts
<1>6. received' \in [Consumers -> Seq(Items)]
  <2>1. received[c] \o SubSeq(queue, 1, n) \in Seq(Items)
    BY <1>5 DEF TypeOK
  <2>2. QED
    BY <1>4, <2>1 DEF TypeOK
<1>7. TypeOK'
  <2>1. wanted[c] \in Nat /\ n \in Nat /\ n <= wanted[c]
    BY <1>3 DEF TypeOK
  <2>2. wanted' \in [Consumers -> Nat]
    BY <1>4, <2>1 DEF TypeOK
  <2>3. pc' \in [Threads -> {"idle", "enter", "asleep", "awake", "notify", "notify_room"}]
    BY <1>1, <1>4 DEF TypeOK
  <2>4. QED
    BY <1>4, <1>5, <1>6, <2>2, <2>3 DEF TypeOK
<1>8. Places'
  BY <1>1, <1>4 DEF Places, TypeOK, Workers, Threads
<1>9. Fits'
  BY <1>1, <1>3, <1>4, <1>5 DEF Fits, TypeOK, Threads, Workers
<1>10. NoLostWakeup'
  <2>1. WillNotifyRoom'
    BY <1>1, <1>4 DEF WillNotifyRoom, TypeOK
  <2>2. ASSUME NEW d \in Consumers PROVE pc'[d] # "asleep"
    BY <1>1, <1>4 DEF AsUsed, TypeOK
  <2>3. QED
    BY <2>1, <2>2 DEF NoLostWakeup
<1>11. QED
  BY <1>7, <1>8, <1>9, <1>10

\* A consumer finds the queue stopped and drained.
LEMMA DequeueStoppedInvariant ==
  ASSUME AsUsed, IInv, NEW c \in Consumers, DequeueStopped(c)
  PROVE  IInv'
<1> USE DEF IInv
<1>1. c \in Threads /\ c \in Workers /\ c \notin Owners /\ c \notin Producers
  BY ThreadsAssumption DEF Threads, Workers
<1>2. TypeOK'
  BY <1>1 DEF DequeueStopped, TypeOK, Goto
<1>3. Places'
  BY <1>1 DEF DequeueStopped, Places, TypeOK, Goto, Workers
<1>4. Fits'
  BY <1>1 DEF DequeueStopped, Fits, Goto, TypeOK, Threads, Workers
<1>5. NoLostWakeup'
  BY <1>1 DEF DequeueStopped, NoLostWakeup, WillNotifyItems, WillNotifyRoom, TypeOK, Goto, Threads, Workers
<1>6. QED
  BY <1>2, <1>3, <1>4, <1>5

\* A consumer notifies the producer, if it sleeps.
LEMMA NotifyProducerInvariant ==
  ASSUME AsUsed, IInv, NEW c \in Consumers, NotifyOne(c, Producers)
  PROVE  IInv'
<1> USE DEF IInv
<1>1. c \in Threads /\ c \in Workers /\ c \notin Owners /\ c \notin Producers
  BY ThreadsAssumption DEF Threads, Workers
<1>2. /\ pc[c] = "notify"
      /\ UNCHANGED <<queue, capacity, is_running, chunk, todo, wanted, made, received, dropped>>
      /\ Onward(c) \in {"idle", "enter"}
      /\ Onward(c) = "enter" => wanted[c] > 0
  BY <1>1 DEF NotifyOne, Onward, TypeOK
<1>3. /\ \A p \in Producers : pc'[p] # "asleep" /\ pc'[p] \in {pc[p], "awake"}
      /\ \A p \in Producers : pc'[p] # pc[p] => pc[p] = "asleep"
      /\ pc'[c] = Onward(c)
      /\ \A o \in Owners : pc'[o] = pc[o]
      /\ pc' \in [Threads -> {"idle", "enter", "asleep", "awake", "notify", "notify_room"}]
  <2>1. CASE Asleep(Producers) = {} /\ Goto(c, Onward(c))
    BY <1>1, <1>2, <2>1 DEF Asleep, Goto, TypeOK, Threads, Workers
  <2>2. ASSUME NEW p \in Asleep(Producers),
               pc' = [pc EXCEPT ![c] = Onward(c), ![p] = "awake"]
        PROVE  <1>3!1 /\ <1>3!2 /\ <1>3!3 /\ <1>3!4 /\ <1>3!5
    <3>1. p \in Producers /\ p \in Threads /\ p # c /\ p \notin Owners /\ pc[p] = "asleep"
      BY <1>1, ThreadsAssumption DEF Asleep, Threads, Workers
    <3>2. \A q \in Producers : q = p
      BY <3>1 DEF AsUsed
    <3>3. QED
      BY <1>1, <1>2, <2>2, <3>1, <3>2 DEF TypeOK, Threads, Workers
  <2>3. QED
    BY <2>1, <2>2 DEF NotifyOne
<1>4. \A d \in Consumers : d = c
  BY DEF AsUsed
<1>5. TypeOK'
  BY <1>2, <1>3 DEF TypeOK
<1>6. Places'
  BY <1>2, <1>3, <1>4 DEF Places, Workers
<1>7. Fits'
  BY <1>2, <1>3, <1>4 DEF Fits
<1>8. NoLostWakeup'
  BY <1>2, <1>3, <1>4 DEF NoLostWakeup
<1>9. QED
  BY <1>5, <1>6, <1>7, <1>8

----------------------------------------------------------------------------
(* The owners' steps, and waits that end without a reason.                 *)

\* A wait ends without a reason.
LEMMA SpuriousWakeInvariant ==
  ASSUME AsUsed, IInv, NEW t \in Workers, SpuriousWake(t)
  PROVE  IInv'
<1> USE DEF IInv
<1>1. t \in Threads /\ t \notin Owners
  BY ThreadsAssumption DEF Threads, Workers
<1>2. TypeOK'
  BY <1>1 DEF SpuriousWake, TypeOK, Goto
<1>3. Places'
  BY <1>1 DEF SpuriousWake, Places, TypeOK, Goto, Workers, Threads
<1>4. Fits'
  BY <1>1 DEF SpuriousWake, Fits, Goto, TypeOK, Threads, Workers
<1>5. NoLostWakeup'
  <2>1. /\ pc[t] = "asleep" /\ pc' = [pc EXCEPT ![t] = "awake"]
        /\ UNCHANGED <<queue, capacity, is_running>>
    BY DEF SpuriousWake, Goto
  <2>2. \A u \in Threads : pc'[u] = IF u = t THEN "awake" ELSE pc[u]
    BY <1>1, <2>1 DEF TypeOK
  <2>3. (WillNotifyItems => WillNotifyItems') /\ (WillNotifyRoom => WillNotifyRoom')
    BY <2>1, <2>2 DEF WillNotifyItems, WillNotifyRoom, Threads, Workers
  <2>4. \A u \in Workers : pc'[u] = "asleep" => pc[u] = "asleep"
    BY <2>2 DEF Threads
  <2>5. QED
    BY <2>1, <2>3, <2>4 DEF NoLostWakeup, Workers
<1>6. QED
  BY <1>2, <1>3, <1>4, <1>5

\* What the owners do at once: Start, Resize.
LEMMA StartResizeInvariant ==
  ASSUME AsUsed, IInv, NEW o \in Owners,
         Start(o) \/ \E n \in Resizes : Resize(o, n)
  PROVE  IInv'
<1> USE DEF IInv
<1>1. CASE Start(o)
  <2>1. is_running' \in BOOLEAN
    BY <1>1, Zenon DEF Start
  <2>2. TypeOK' /\ Places' /\ Fits'
    BY <1>1, <2>1 DEF Start, TypeOK, Places, Fits
  <2>3. NoLostWakeup'
    BY <1>1 DEF Start, NoLostWakeup, WillNotifyItems, WillNotifyRoom
  <2>4. QED
    BY <2>2, <2>3
<1>2. ASSUME NEW n \in Resizes, Resize(o, n) PROVE IInv'
  <2>1. n \in Nat \ {0}
    BY SizesAssumption
  <2>2. TypeOK' /\ Places' /\ Fits'
    BY <1>2, <2>1 DEF Resize, TypeOK, Places, Fits
  <2>3. \A p \in Producers : pc'[p] # "asleep"
    BY <1>2 DEF Resize, Places
  <2>4. NoLostWakeup'
    BY <1>2, <2>3 DEF Resize, NoLostWakeup, WillNotifyItems
  <2>5. QED
    BY <2>2, <2>4
<1>3. QED
  BY <1>1, <1>2

\* Stop, before it notifies.
LEMMA StopInvariant ==
  ASSUME AsUsed, IInv, NEW o \in Owners, Stop(o)
  PROVE  IInv'
<1> USE DEF IInv
<1>1. o \in Threads /\ o \notin Producers /\ o \notin Consumers
  BY ThreadsAssumption DEF Threads, Workers
<1>2. is_running' \in BOOLEAN
  BY Zenon DEF Stop
<1>3. TypeOK'
  BY <1>1, <1>2 DEF Stop, TypeOK, Goto
<1>4. Places' /\ Fits'
  BY <1>1 DEF Stop, Places, Fits, TypeOK, Goto, Workers, Threads
<1>5. NoLostWakeup'
  BY <1>1 DEF Stop, NoLostWakeup, WillNotifyItems, WillNotifyRoom, TypeOK, Goto
<1>6. QED
  BY <1>3, <1>4, <1>5

\* Clear, before it notifies.
LEMMA ClearInvariant ==
  ASSUME AsUsed, IInv, NEW o \in Owners, Clear(o)
  PROVE  IInv'
<1> USE DEF IInv
<1>1. o \in Threads /\ o \notin Producers /\ o \notin Consumers
  BY ThreadsAssumption DEF Threads, Workers
<1>2. queue' = <<>> /\ Len(queue') = 0 /\ Elements(queue) \subseteq Items
  BY DEF Clear, Elements, TypeOK
<1>3. TypeOK'
  BY <1>1, <1>2 DEF Clear, TypeOK, Goto
<1>4. Places' /\ Fits'
  BY <1>1, <1>2 DEF Clear, Places, Fits, TypeOK, Goto, Workers, Threads
<1>5. NoLostWakeup'
  <2>1. WillNotifyRoom'
    BY <1>1 DEF Clear, WillNotifyRoom, TypeOK, Goto
  <2>2. WillNotifyItems => WillNotifyItems'
    BY <1>1 DEF Clear, WillNotifyItems, TypeOK, Goto, Threads, Workers
  <2>3. \A c \in Consumers : pc'[c] = pc[c]
    BY <1>1 DEF Clear, Goto, TypeOK, Threads, Workers
  <2>4. QED
    BY <1>2, <2>1, <2>2, <2>3 DEF Clear, NoLostWakeup
<1>6. QED
  BY <1>3, <1>4, <1>5

\* An owner notifies all: after Stop first those that wait for items.
LEMMA OwnerStepInvariant ==
  ASSUME AsUsed, IInv, NEW o \in Owners, OwnerStep(o)
  PROVE  IInv'
<1> USE DEF IInv
<1>1. o \in Threads /\ o \notin Producers /\ o \notin Consumers
  BY ThreadsAssumption DEF Threads, Workers
<1>2. UNCHANGED <<queue, capacity, is_running, chunk, todo, wanted, made, received, dropped>>
  BY DEF OwnerStep, NotifyItems, NotifyRoom, NotifyAll
<1>3. ASSUME NotifyItems(o) PROVE IInv'
  <2>1. /\ pc[o] = "notify"
        /\ pc' = [u \in Threads |-> IF u = o THEN "notify_room"
                               ELSE IF u \in Asleep(Consumers) THEN "awake" ELSE pc[u]]
    BY <1>3 DEF NotifyItems, NotifyAll
  <2>2. pc' \in [Threads -> {"idle", "enter", "asleep", "awake", "notify", "notify_room"}]
    BY <2>1 DEF TypeOK
  <2>3. /\ pc'[o] = "notify_room"
        /\ \A c \in Consumers : pc'[c] = IF pc[c] = "asleep" THEN "awake" ELSE pc[c]
        /\ \A p \in Producers : pc'[p] = pc[p]
        /\ \A q \in Owners \ {o} : pc'[q] = pc[q]
    BY <1>1, <2>1, ThreadsAssumption DEF Asleep, Threads, Workers
  <2>4. TypeOK' /\ Fits'
    BY <1>2, <2>2, <2>3 DEF TypeOK, Fits
  <2>5. Places'
    BY <1>2, <2>3 DEF Places, Workers
  <2>6. NoLostWakeup'
    BY <2>3 DEF NoLostWakeup, WillNotifyRoom
  <2>7. QED
    BY <2>4, <2>5, <2>6
<1>4. ASSUME NotifyRoom(o) PROVE IInv'
  <2>1. /\ pc[o] = "notify_room"
        /\ pc' = [u \in Threads |-> IF u = o THEN "idle"
                               ELSE IF u \in Asleep(Producers) THEN "awake" ELSE pc[u]]
    BY <1>4 DEF NotifyRoom, NotifyAll
  <2>2. pc' \in [Threads -> {"idle", "enter", "asleep", "awake", "notify", "notify_room"}]
    BY <2>1 DEF TypeOK
  <2>3. /\ pc'[o] = "idle"
        /\ \A p \in Producers : pc'[p] = IF pc[p] = "asleep" THEN "awake" ELSE pc[p]
        /\ \A c \in Consumers : pc'[c] = pc[c]
        /\ \A q \in Owners \ {o} : pc'[q] = pc[q]
    BY <1>1, <2>1, ThreadsAssumption DEF Asleep, Threads, Workers
  <2>4. TypeOK'
    BY <1>2, <2>2 DEF TypeOK
  <2>5. Fits'
    BY <1>2, <2>3 DEF Fits
  <2>6. Places'
    BY <1>2, <2>3 DEF Places, Workers
  <2>7. WillNotifyItems => WillNotifyItems'
    BY <2>1, <2>3 DEF WillNotifyItems
  <2>8. NoLostWakeup'
    BY <1>2, <2>3, <2>7 DEF NoLostWakeup
  <2>9. QED
    BY <2>4, <2>5, <2>6, <2>8
<1>5. QED
  BY <1>3, <1>4 DEF OwnerStep

----------------------------------------------------------------------------
(* The theorems.                                                           *)

\* Every step keeps the invariant.
LEMMA NextInvariant ==
  ASSUME AsUsed, IInv, [Next]_vars
  PROVE  IInv'
<1>1. ASSUME NEW p \in Producers, ProducerStep(p) PROVE IInv'
  BY <1>1, EnqueueWaitInvariant, EnqueueChunkInvariant, EnqueueStoppedInvariant,
     NotifyConsumerInvariant DEF ProducerStep
<1>2. ASSUME NEW c \in Consumers, ConsumerStep(c) PROVE IInv'
  BY <1>2, DequeueWaitInvariant, DequeueChunkInvariant, DequeueStoppedInvariant,
     NotifyProducerInvariant DEF ConsumerStep
<1>3. CASE UNCHANGED vars
  BY <1>3 DEF vars, IInv, TypeOK, Places, Fits, NoLostWakeup, WillNotifyItems,
              WillNotifyRoom
<1>4. QED
  BY <1>1, <1>2, <1>3, BulkEnqueueInvariant, NonblockingInvariant, BulkDequeueInvariant,
     SpuriousWakeInvariant, OwnerStepInvariant, StartResizeInvariant, StopInvariant,
     ClearInvariant DEF Next

\* Spec implies the inductive invariant.
LEMMA Invariance == ASSUME AsUsed PROVE Spec => []IInv
<1>1. Init => IInv
  BY InitInvariant
<1>2. IInv /\ [Next]_vars => IInv'
  BY NextInvariant
<1>3. QED
  BY <1>1, <1>2, PTL DEF Spec

\* The variables keep their types.
THEOREM TypeCorrect == ASSUME AsUsed PROVE Spec => []TypeOK
<1>1. IInv => TypeOK
  BY DEF IInv
<1>2. QED
  BY <1>1, Invariance, PTL

\* No wake-up is lost: nobody sleeps who could go on, unless a thread is about
\* to notify it.
THEOREM NoWakeupIsLost == ASSUME AsUsed PROVE Spec => []NoLostWakeup
<1>1. IInv => NoLostWakeup
  BY DEF IInv
<1>2. QED
  BY <1>1, Invariance, PTL

\* A step that moves items in stays within the capacity.
LEMMA StepKeepsCapacity ==
  ASSUME AsUsed, IInv, Next
  PROVE  Len(queue') > Len(queue) => Len(queue') <= capacity'
<1> SUFFICES ASSUME Len(queue') > Len(queue) PROVE Len(queue') <= capacity'
  OBVIOUS
<1>1. queue' # queue
  BY DEF IInv, TypeOK
<1>2. ASSUME NEW p \in Producers, EnqueueChunk(p) PROVE Len(queue') <= capacity'
  <2> DEFINE n == EnqueueQuantity(p)
  <2>1. n \in 1 .. Len(todo[p]) /\ n <= capacity - Len(queue)
    BY <1>2, EnqueueBounds DEF EnqueueChunk
  <2> HIDE DEF n
  <2>2. queue' = queue \o SubSeq(todo[p], 1, n) /\ capacity' = capacity
    BY <1>2 DEF EnqueueChunk, n
  <2>3. todo[p] \in Seq(Items) /\ n \in 0 .. Len(todo[p]) /\ queue \in Seq(Items)
    BY <2>1 DEF IInv, TypeOK
  <2>4. PICK s \in Seq(Items) : s = SubSeq(todo[p], 1, n) /\ Len(s) = n
    <3>1. SubSeq(todo[p], 1, n) \in Seq(Items) /\ Len(SubSeq(todo[p], 1, n)) = n
      BY <2>3, Parts
    <3>2. QED
      BY <3>1, Zenon
  <2>5. Len(queue') = Len(queue) + n
    <3>1. Len(queue \o s) = Len(queue) + Len(s)
      BY <2>3, <2>4, ConcatProperties, Zenon
    <3>2. QED
      BY <2>2, <2>4, <3>1, Zenon
  <2>6. QED
    BY <2>1, <2>2, <2>3, <2>5 DEF IInv, TypeOK
<1>3. ASSUME NEW p \in Producers, NEW n \in TryBatches, NonblockingBulkEnqueue(p, n)
      PROVE  Len(queue') <= capacity'
  <2> DEFINE m == IF FreeCapacity < n THEN FreeCapacity ELSE n
  <2>1. m \in Nat /\ Len(queue) + m <= capacity
    BY <1>3, SizesAssumption DEF NonblockingBulkEnqueue, FreeCapacity, IInv, TypeOK
  <2> HIDE DEF m
  <2>2. queue' = queue \o New(m) /\ made + m <= MaxItems /\ capacity' = capacity
    BY <1>3 DEF NonblockingBulkEnqueue, m
  <2>3. PICK s \in Seq(Items) : s = New(m) /\ Len(s) = m
    BY <2>1, <2>2, NewItems, SizesAssumption DEF IInv, TypeOK
  <2>4. queue' = queue \o s /\ queue \in Seq(Items)
    BY <2>2, <2>3 DEF IInv, TypeOK
  <2>5. Len(queue') = Len(queue) + m
    <3>1. Len(queue \o s) = Len(queue) + Len(s)
      BY <2>3, <2>4, ConcatProperties, Zenon
    <3>2. QED
      BY <2>3, <2>4, <3>1, Zenon
  <2>6. QED
    BY <2>1, <2>2, <2>5
<1>4. ASSUME NEW c \in Consumers, DequeueChunk(c) PROVE FALSE
  <2> DEFINE n == DequeueQuantity(c)
  <2>1. Len(queue) \in Nat /\ (queue = <<>> <=> Len(queue) = 0)
    BY DEF IInv, TypeOK
  <2>2. n \in 0 .. Len(queue)
    BY <1>4, <2>1, DequeueBounds DEF DequeueChunk
  <2> HIDE DEF n
  <2>3. queue' = SubSeq(queue, n + 1, Len(queue)) /\ queue \in Seq(Items)
    BY <1>4 DEF DequeueChunk, n, IInv, TypeOK
  <2>4. QED
    BY <2>2, <2>3, Parts
<1>5. ASSUME NEW o \in Owners, Clear(o) PROVE FALSE
  BY <1>5 DEF Clear, IInv, TypeOK
<1>6. QED
  BY <1>1, <1>2, <1>3, <1>4, <1>5
     DEF Next, ProducerStep, ConsumerStep, OwnerStep, EnqueueWait, EnqueueStopped,
         NotifyOne, BulkEnqueue, DequeueWait, DequeueStopped, BulkDequeue, SpuriousWake,
         NotifyItems, NotifyRoom, NotifyAll, Start, Stop, Resize

\* No step moves items in above the capacity.
THEOREM CapacityIsKept == ASSUME AsUsed PROVE Spec => CapacityKept
<1>1. IInv /\ [Next]_vars => [Len(queue') > Len(queue) => Len(queue') <= capacity']_vars
  BY StepKeepsCapacity
<1>2. QED
  BY <1>1, Invariance, PTL DEF Spec, CapacityKept

----------------------------------------------------------------------------
(* Nothing is lost, repeated or reordered.                                 *)

Increasing(s) == \A i, j \in DOMAIN s : i < j => s[i] < s[j]

\* what consumer c got, and what is still on its way to it from producer p
Stream(c, p) == received[c] \o queue \o todo[p]

\* A producer outside a call has nothing left to move in.
Resting == \A p \in Producers : pc[p] = "idle" => todo[p] = <<>>

OInv == IInv /\ Resting /\ NothingLost /\ InOrder

\* The elements of a list are those of its two parts.
LEMMA ElementsConcat ==
  ASSUME NEW S, NEW s \in Seq(S), NEW t \in Seq(S)
  PROVE  Elements(s \o t) = Elements(s) \cup Elements(t)
<1> DEFINE q == s \o t
<1>1. /\ q \in Seq(S) /\ Len(q) = Len(s) + Len(t)
      /\ \A i \in 1 .. Len(s) + Len(t) : q[i] = IF i <= Len(s) THEN s[i] ELSE t[i - Len(s)]
  BY ConcatProperties, Zenon
<1> HIDE DEF q
<1>2. /\ Len(s) \in Nat /\ Len(t) \in Nat
      /\ DOMAIN s = 1 .. Len(s) /\ DOMAIN t = 1 .. Len(t) /\ DOMAIN q = 1 .. Len(s) + Len(t)
  BY <1>1
<1>3. ASSUME NEW i \in DOMAIN q PROVE q[i] \in Elements(s) \cup Elements(t)
  BY <1>1, <1>2 DEF Elements
<1>4. ASSUME NEW i \in DOMAIN s PROVE s[i] \in Elements(q)
  <2>1. i \in DOMAIN q /\ q[i] = s[i]
    BY <1>1, <1>2
  <2>2. QED
    BY <2>1 DEF Elements
<1>5. ASSUME NEW i \in DOMAIN t PROVE t[i] \in Elements(q)
  <2>1. Len(s) + i \in DOMAIN q /\ q[Len(s) + i] = t[i]
    BY <1>1, <1>2
  <2>2. QED
    BY <2>1 DEF Elements
<1>6. Elements(q) = Elements(s) \cup Elements(t)
  BY <1>3, <1>4, <1>5 DEF Elements
<1>7. QED
  BY <1>6 DEF q

\* A list increases when its two parts do and the one is below the other.
LEMMA IncreasingConcat ==
  ASSUME NEW s \in Seq(Nat), NEW t \in Seq(Nat)
  PROVE  Increasing(s \o t) <=>
           /\ Increasing(s) /\ Increasing(t)
           /\ \A a \in Elements(s), b \in Elements(t) : a < b
<1> DEFINE q == s \o t
<1>1. /\ q \in Seq(Nat) /\ Len(q) = Len(s) + Len(t)
      /\ \A i \in 1 .. Len(s) + Len(t) : q[i] = IF i <= Len(s) THEN s[i] ELSE t[i - Len(s)]
  BY ConcatProperties, Zenon
<1> HIDE DEF q
<1>2. /\ Len(s) \in Nat /\ Len(t) \in Nat
      /\ DOMAIN s = 1 .. Len(s) /\ DOMAIN t = 1 .. Len(t) /\ DOMAIN q = 1 .. Len(s) + Len(t)
  BY <1>1
<1>3. /\ \A i \in DOMAIN s : i \in DOMAIN q /\ q[i] = s[i]
      /\ \A j \in DOMAIN t : Len(s) + j \in DOMAIN q /\ q[Len(s) + j] = t[j]
  <2>1. ASSUME NEW i \in DOMAIN s PROVE i \in DOMAIN q /\ q[i] = s[i]
    BY <1>1, <1>2
  <2>2. ASSUME NEW j \in DOMAIN t PROVE Len(s) + j \in DOMAIN q /\ q[Len(s) + j] = t[j]
    <3>1. /\ Len(s) + j \in 1 .. Len(s) + Len(t) /\ ~(Len(s) + j <= Len(s))
          /\ (Len(s) + j) - Len(s) = j
      BY <1>2
    <3>2. QED
      BY <1>1, <1>2, <3>1, Zenon
  <2>3. QED
    BY <2>1, <2>2
<1>4. ASSUME Increasing(q)
      PROVE  /\ Increasing(s) /\ Increasing(t)
             /\ \A a \in Elements(s), b \in Elements(t) : a < b
  <2>1. Increasing(s)
    BY <1>3, <1>4 DEF Increasing
  <2>2. Increasing(t)
    <3> SUFFICES ASSUME NEW i \in DOMAIN t, NEW j \in DOMAIN t, i < j PROVE t[i] < t[j]
      BY DEF Increasing
    <3>1. Len(s) + i < Len(s) + j
      BY <1>2
    <3>2. QED
      BY <1>3, <1>4, <3>1 DEF Increasing
  <2>3. ASSUME NEW i \in DOMAIN s, NEW j \in DOMAIN t PROVE s[i] < t[j]
    <3>1. i < Len(s) + j
      BY <1>2
    <3>2. QED
      BY <1>3, <1>4, <3>1 DEF Increasing
  <2>4. QED
    BY <2>1, <2>2, <2>3 DEF Elements
<1>5. ASSUME Increasing(s), Increasing(t),
             \A a \in Elements(s), b \in Elements(t) : a < b
      PROVE  Increasing(q)
  <2> SUFFICES ASSUME NEW i \in DOMAIN q, NEW j \in DOMAIN q, i < j PROVE q[i] < q[j]
    BY DEF Increasing
  <2>1. CASE j <= Len(s)
    BY <1>1, <1>2, <1>5, <2>1 DEF Increasing
  <2>2. CASE i > Len(s)
    <3>1. /\ i - Len(s) \in DOMAIN t /\ j - Len(s) \in DOMAIN t
          /\ i - Len(s) < j - Len(s) /\ ~(i <= Len(s)) /\ ~(j <= Len(s))
      BY <1>2, <2>2
    <3>2. q[i] = t[i - Len(s)] /\ q[j] = t[j - Len(s)]
      BY <1>1, <1>2, <3>1
    <3>3. t[i - Len(s)] < t[j - Len(s)]
      BY <1>5, <3>1 DEF Increasing
    <3>4. QED
      BY <3>2, <3>3
  <2>3. CASE i <= Len(s) /\ j > Len(s)
    <3>1. i \in DOMAIN s /\ j - Len(s) \in DOMAIN t /\ ~(j <= Len(s))
      BY <1>2, <2>3
    <3>2. q[i] = s[i] /\ q[j] = t[j - Len(s)]
      BY <1>1, <1>2, <2>3, <3>1
    <3>3. q[i] \in Elements(s) /\ q[j] \in Elements(t)
      BY <3>1, <3>2 DEF Elements
    <3>4. QED
      BY <1>5, <3>3
  <2>4. QED
    BY <1>2, <2>1, <2>2, <2>3
<1>6. QED
  BY <1>4, <1>5 DEF q

Below(A, B) == \A a \in A, b \in B : a < b

\* Both facts, for lists of numbers.
LEMMA Joined ==
  ASSUME NEW s \in Seq(Nat), NEW t \in Seq(Nat)
  PROVE  /\ s \o t \in Seq(Nat) /\ Elements(s \o t) = Elements(s) \cup Elements(t)
         /\ Increasing(s \o t) <=>
              Increasing(s) /\ Increasing(t) /\ Below(Elements(s), Elements(t))
<1>1. s \o t \in Seq(Nat) /\ Elements(s \o t) = Elements(s) \cup Elements(t)
  BY ConcatProperties, ElementsConcat, Zenon
<1>2. QED
  BY <1>1, IncreasingConcat, Zenon DEF Below

\* When three lists in a row increase.
LEMMA IncreasingRow ==
  ASSUME NEW r \in Seq(Nat), NEW q \in Seq(Nat), NEW t \in Seq(Nat)
  PROVE  Increasing(r \o q \o t) <=>
           /\ Increasing(r) /\ Increasing(q) /\ Increasing(t)
           /\ Below(Elements(r), Elements(q)) /\ Below(Elements(r), Elements(t))
           /\ Below(Elements(q), Elements(t))
<1>1. /\ r \o q \in Seq(Nat) /\ Elements(r \o q) = Elements(r) \cup Elements(q)
      /\ Increasing(r \o q) <=>
           Increasing(r) /\ Increasing(q) /\ Below(Elements(r), Elements(q))
  BY Joined, Zenon
<1>2. Increasing((r \o q) \o t) <=>
        Increasing(r \o q) /\ Increasing(t) /\ Below(Elements(r \o q), Elements(t))
  BY <1>1, Joined, Zenon
<1>3. Below(Elements(r \o q), Elements(t)) <=>
        Below(Elements(r), Elements(t)) /\ Below(Elements(q), Elements(t))
  BY <1>1, Zenon DEF Below
<1>4. QED
  BY <1>1, <1>2, <1>3, Zenon

\* The list without elements.
LEMMA EmptyList == <<>> \in Seq(Nat) /\ Elements(<<>>) = {} /\ Increasing(<<>>)
  BY DEF Elements, Increasing

\* New items increase, above all that were made before.
LEMMA NewIncreasing ==
  ASSUME NEW n \in Nat, made \in Nat
  PROVE  /\ New(n) \in Seq(Nat) /\ Increasing(New(n))
         /\ Elements(New(n)) = (made + 1) .. (made + n)
<1>1. New(n) \in [1 .. n -> Nat] /\ New(n) \in Seq(Nat)
  BY DEF New
<1>2. DOMAIN New(n) = 1 .. n /\ \A i \in 1 .. n : New(n)[i] = made + i
  BY DEF New
<1>3. Increasing(New(n))
  BY <1>2 DEF Increasing
<1>4. ASSUME NEW x \in (made + 1) .. (made + n) PROVE x \in Elements(New(n))
  <2>1. x - made \in 1 .. n /\ made + (x - made) = x
    OBVIOUS
  <2>2. QED
    BY <1>2, <2>1 DEF Elements
<1>5. ASSUME NEW x \in Elements(New(n)) PROVE x \in (made + 1) .. (made + n)
  BY <1>2, <1>5 DEF Elements
<1>6. QED
  BY <1>1, <1>3, <1>4, <1>5

\* A list cut in two.
LEMMA Cut ==
  ASSUME NEW s \in Seq(Nat), NEW n \in 0 .. Len(s)
  PROVE  LET l == SubSeq(s, 1, n)
             r == SubSeq(s, n + 1, Len(s))
         IN  /\ l \in Seq(Nat) /\ r \in Seq(Nat)
             /\ Elements(s) = Elements(l) \cup Elements(r)
             /\ Increasing(s) <=>
                  Increasing(l) /\ Increasing(r) /\ Below(Elements(l), Elements(r))
<1> DEFINE l == SubSeq(s, 1, n)
           r == SubSeq(s, n + 1, Len(s))
<1>1. l \in Seq(Nat) /\ r \in Seq(Nat)
  BY Parts
<1>2. l \o r = s
  <2>1. Len(s) \in Nat /\ 1 \in 1 .. Len(s) + 1 /\ n \in 0 .. Len(s) /\ Len(s) \in n .. Len(s)
    OBVIOUS
  <2>2. 1 - 1 = 0
    OBVIOUS
  <2>3. l \o r = SubSeq(s, 1, Len(s))
    BY <2>1, <2>2, ConcatAdjacentSubSeq, Zenon
  <2>4. QED
    BY <2>3, SubSeqFull, Zenon
<1> HIDE DEF l, r
<1>3. /\ Elements(l \o r) = Elements(l) \cup Elements(r)
      /\ Increasing(l \o r) <=>
           Increasing(l) /\ Increasing(r) /\ Below(Elements(l), Elements(r))
  BY <1>1, Joined, Zenon
<1>4. QED
  BY <1>1, <1>2, <1>3, Zenon DEF l, r

\* the items that producers still have to move in; those that consumers got
InHands == UNION {Elements(todo[p]) : p \in Producers}
Delivered == UNION {Elements(received[c]) : c \in Consumers}

\* The two properties in terms of the parts of the stream.
Accounted == 1 .. made = dropped \cup Elements(queue) \cup InHands \cup Delivered

PartsInOrder ==
  \A c \in Consumers, p \in Producers :
    /\ Increasing(received[c]) /\ Increasing(queue) /\ Increasing(todo[p])
    /\ Below(Elements(received[c]), Elements(queue))
    /\ Below(Elements(received[c]), Elements(todo[p]))
    /\ Below(Elements(queue), Elements(todo[p]))

\* The lists are lists of numbers.
LEMMA Numbers ==
  ASSUME TypeOK
  PROVE  /\ queue \in Seq(Nat)
         /\ \A p \in Producers : todo[p] \in Seq(Nat)
         /\ \A c \in Consumers : received[c] \in Seq(Nat)
<1>1. Items \subseteq Nat
  BY DEF Items
<1>2. /\ queue \in Seq(Items)
      /\ \A p \in Producers : todo[p] \in Seq(Items)
      /\ \A c \in Consumers : received[c] \in Seq(Items)
  BY DEF TypeOK
<1>3. \A s \in Seq(Items) : s \in Seq(Nat)
  BY <1>1, SeqMonotonic
<1>4. QED
  BY <1>2, <1>3

\* The properties say of the parts what they say of the stream.
LEMMA Reading == TypeOK => (NothingLost <=> Accounted) /\ (InOrder <=> PartsInOrder)
<1> SUFFICES ASSUME TypeOK
             PROVE  (NothingLost <=> Accounted) /\ (InOrder <=> PartsInOrder)
  OBVIOUS
<1>1. NothingLost <=> Accounted
  BY Zenon DEF NothingLost, Accounted, InHands, Delivered
<1>2. InOrder <=> \A c \in Consumers, p \in Producers :
                    Increasing(received[c] \o queue \o todo[p])
  BY Zenon DEF InOrder, Increasing
<1>3. ASSUME NEW c \in Consumers, NEW p \in Producers
      PROVE  Increasing(received[c] \o queue \o todo[p]) <=>
               /\ Increasing(received[c]) /\ Increasing(queue) /\ Increasing(todo[p])
               /\ Below(Elements(received[c]), Elements(queue))
               /\ Below(Elements(received[c]), Elements(todo[p]))
               /\ Below(Elements(queue), Elements(todo[p]))
  <2>1. received[c] \in Seq(Nat) /\ queue \in Seq(Nat) /\ todo[p] \in Seq(Nat)
    BY Numbers
  <2>2. QED
    BY <2>1, IncreasingRow, Zenon
<1>4. InOrder <=> PartsInOrder
  BY <1>2, <1>3, Zenon DEF PartsInOrder
<1>5. QED
  BY <1>1, <1>4

\* So they do in the next state.
LEMMA ReadingNext == TypeOK' => (NothingLost' <=> Accounted') /\ (InOrder' <=> PartsInOrder')
  BY Reading, PTL

\* One producer's items change, or one consumer's.
LEMMA OneChanges ==
  ASSUME TypeOK, NEW s
  PROVE  /\ \A p \in Producers : todo' = [todo EXCEPT ![p] = s] =>
              \E others : /\ InHands = Elements(todo[p]) \cup others
                         /\ InHands' = Elements(s) \cup others
         /\ \A c \in Consumers : received' = [received EXCEPT ![c] = s] =>
              \E others : /\ Delivered = Elements(received[c]) \cup others
                         /\ Delivered' = Elements(s) \cup others
<1>1. ASSUME NEW p \in Producers, todo' = [todo EXCEPT ![p] = s]
      PROVE  /\ InHands = Elements(todo[p]) \cup
                           UNION {Elements(todo[q]) : q \in Producers \ {p}}
             /\ InHands' = Elements(s) \cup UNION {Elements(todo[q]) : q \in Producers \ {p}}
  <2>1. todo'[p] = s /\ \A q \in Producers \ {p} : todo'[q] = todo[q]
    BY <1>1 DEF TypeOK
  <2>2. QED
    BY <2>1, Zenon DEF InHands
<1>2. ASSUME NEW c \in Consumers, received' = [received EXCEPT ![c] = s]
      PROVE  /\ Delivered = Elements(received[c]) \cup
                             UNION {Elements(received[d]) : d \in Consumers \ {c}}
             /\ Delivered' = Elements(s) \cup
                              UNION {Elements(received[d]) : d \in Consumers \ {c}}
  <2>1. received'[c] = s /\ \A d \in Consumers \ {c} : received'[d] = received[d]
    BY <1>2 DEF TypeOK
  <2>2. QED
    BY <2>1, Zenon DEF Delivered
<1>3. QED
  BY <1>1, <1>2, Zenon

\* What is made is numbered up to made.
LEMMA MadeBefore ==
  ASSUME OInv, NEW p \in Producers, NEW c \in Consumers
  PROVE  /\ Elements(queue) \subseteq 1 .. made
         /\ Elements(todo[p]) \subseteq 1 .. made
         /\ Elements(received[c]) \subseteq 1 .. made
<1>1. 1 .. made = dropped \cup Elements(queue) \cup InHands \cup Delivered
  BY Reading DEF OInv, IInv, Accounted
<1>2. Elements(todo[p]) \subseteq InHands /\ Elements(received[c]) \subseteq Delivered
  BY Zenon DEF InHands, Delivered
<1>3. QED
  BY <1>1, <1>2

\* A producer's call begins: the new items come last.
LEMMA OfferKeepsOrder ==
  ASSUME AsUsed, OInv, NEW p \in Producers, NEW n \in Batches, BulkEnqueue(p, n)
  PROVE  NothingLost' /\ InOrder'
<1>1. /\ todo' = [todo EXCEPT ![p] = New(n)] /\ made' = made + n
      /\ UNCHANGED <<queue, received, dropped>>
      /\ todo[p] = <<>>
  BY DEF BulkEnqueue, OInv, Resting
<1>2. TypeOK /\ TypeOK' /\ IInv
  BY BulkEnqueueInvariant DEF OInv, IInv
<1>3. n \in Nat /\ made \in Nat
  BY <1>2, SizesAssumption DEF TypeOK
<1>4. /\ New(n) \in Seq(Nat) /\ Increasing(New(n))
      /\ Elements(New(n)) = (made + 1) .. (made + n)
  BY <1>3, NewIncreasing
<1>5. NothingLost'
  <2>1. PICK others : /\ InHands = Elements(todo[p]) \cup others
                      /\ InHands' = Elements(New(n)) \cup others
    BY <1>1, <1>2, OneChanges, Zenon
  <2>2. InHands' = InHands \cup (made + 1) .. (made + n)
    BY <1>1, <1>4, <2>1, EmptyList
  <2>3. 1 .. made' = 1 .. made \cup (made + 1) .. (made + n)
    BY <1>1, <1>3
  <2>4. Delivered' = Delivered /\ Elements(queue)' = Elements(queue) /\ dropped' = dropped
    BY <1>1 DEF Delivered
  <2>5. 1 .. made = dropped \cup Elements(queue) \cup InHands \cup Delivered
    BY <1>2, Reading DEF OInv, Accounted
  <2>6. (1 .. made)' = (dropped \cup Elements(queue) \cup InHands \cup Delivered)'
    BY <2>2, <2>3, <2>4, <2>5
  <2>7. QED
    BY <1>2, <2>6, ReadingNext, Zenon DEF Accounted
<1>6. InOrder'
  <2> SUFFICES ASSUME NEW c \in Consumers, NEW q \in Producers
               PROVE  /\ Increasing(received'[c]) /\ Increasing(queue') /\ Increasing(todo'[q])
                      /\ Below(Elements(received'[c]), Elements(queue'))
                      /\ Below(Elements(received'[c]), Elements(todo'[q]))
                      /\ Below(Elements(queue'), Elements(todo'[q]))
    BY <1>2, ReadingNext, Zenon DEF PartsInOrder, Increasing, Below, Elements
  <2>1. q = p /\ todo'[p] = New(n)
    BY <1>1, <1>2 DEF AsUsed, TypeOK
  <2>2. /\ Increasing(received[c]) /\ Increasing(queue)
        /\ Below(Elements(received[c]), Elements(queue))
    BY <1>2, Reading DEF OInv, PartsInOrder
  <2>3. Elements(queue) \subseteq 1 .. made /\ Elements(received[c]) \subseteq 1 .. made
    BY MadeBefore
  <2>4. /\ Below(Elements(received[c]), Elements(New(n)))
        /\ Below(Elements(queue), Elements(New(n)))
    BY <1>3, <1>4, <2>3 DEF Below
  <2>5. QED
    BY <1>1, <1>4, <2>1, <2>2, <2>4
<1>7. QED
  BY <1>5, <1>6

\* A producer moves a chunk in: the stream is cut one chunk later.
LEMMA PutKeepsOrder ==
  ASSUME AsUsed, OInv, NEW p \in Producers, EnqueueChunk(p)
  PROVE  NothingLost' /\ InOrder'
<1> DEFINE n == EnqueueQuantity(p)
           l == SubSeq(todo[p], 1, n)
           r == SubSeq(todo[p], n + 1, Len(todo[p]))
<1>1. /\ queue' = queue \o l /\ todo' = [todo EXCEPT ![p] = r]
      /\ UNCHANGED <<made, received, dropped>>
  BY DEF EnqueueChunk
<1>2. TypeOK /\ TypeOK' /\ IInv
  BY EnqueueChunkInvariant DEF OInv, IInv
<1>3. n \in 0 .. Len(todo[p]) /\ todo[p] \in Seq(Nat) /\ queue \in Seq(Nat)
  <2>1. n \in 1 .. Len(todo[p])
    BY <1>2, EnqueueBounds DEF EnqueueChunk
  <2> HIDE DEF n
  <2>2. QED
    BY <1>2, <2>1, Numbers
<1> HIDE DEF n
<1>4. /\ l \in Seq(Nat) /\ r \in Seq(Nat)
      /\ Elements(todo[p]) = Elements(l) \cup Elements(r)
      /\ Increasing(todo[p]) <=>
           Increasing(l) /\ Increasing(r) /\ Below(Elements(l), Elements(r))
  BY <1>3, Cut
<1> HIDE DEF l, r
<1>5. /\ Elements(queue \o l) = Elements(queue) \cup Elements(l)
      /\ Increasing(queue \o l) <=>
           Increasing(queue) /\ Increasing(l) /\ Below(Elements(queue), Elements(l))
  <2>1. queue \in Seq(Nat) /\ l \in Seq(Nat)
    BY <1>3, <1>4
  <2>2. QED
    BY <2>1, Joined, Zenon
<1>6. NothingLost'
  <2>1. PICK others : /\ InHands = Elements(todo[p]) \cup others
                      /\ InHands' = Elements(r) \cup others
    BY <1>1, <1>2, OneChanges, Zenon
  <2>2. Elements(queue)' = Elements(queue) \cup Elements(l)
    BY <1>1, <1>5
  <2>3. Delivered' = Delivered /\ dropped' = dropped /\ made' = made
    BY <1>1 DEF Delivered
  <2>4. 1 .. made = dropped \cup Elements(queue) \cup InHands \cup Delivered
    BY <1>2, Reading DEF OInv, Accounted
  <2>5. (1 .. made)' = (dropped \cup Elements(queue) \cup InHands \cup Delivered)'
    BY <1>4, <2>1, <2>2, <2>3, <2>4
  <2>6. QED
    BY <1>2, <2>5, ReadingNext, Zenon DEF Accounted
<1>7. InOrder'
  <2> SUFFICES ASSUME NEW c \in Consumers, NEW q \in Producers
               PROVE  /\ Increasing(received'[c]) /\ Increasing(queue') /\ Increasing(todo'[q])
                      /\ Below(Elements(received'[c]), Elements(queue'))
                      /\ Below(Elements(received'[c]), Elements(todo'[q]))
                      /\ Below(Elements(queue'), Elements(todo'[q]))
    BY <1>2, ReadingNext, Zenon DEF PartsInOrder, Increasing, Below, Elements
  <2>1. q = p /\ todo'[p] = r
    BY <1>1, <1>2 DEF AsUsed, TypeOK
  <2>2. /\ Increasing(received[c]) /\ Increasing(queue) /\ Increasing(todo[p])
        /\ Below(Elements(received[c]), Elements(queue))
        /\ Below(Elements(received[c]), Elements(todo[p]))
        /\ Below(Elements(queue), Elements(todo[p]))
    BY <1>2, Reading DEF OInv, PartsInOrder
  <2>3. /\ Below(Elements(received[c]), Elements(l)) /\ Below(Elements(received[c]), Elements(r))
        /\ Below(Elements(queue), Elements(l)) /\ Below(Elements(queue), Elements(r))
    BY <1>4, <2>2 DEF Below
  <2>4. /\ Below(Elements(received[c]), Elements(queue \o l))
        /\ Below(Elements(queue \o l), Elements(r))
    BY <1>4, <1>5, <2>2, <2>3 DEF Below
  <2>5. QED
    BY <1>1, <1>4, <1>5, <2>1, <2>2, <2>3, <2>4
<1>8. QED
  BY <1>6, <1>7

\* A consumer moves a chunk out: the stream is cut one chunk later.
LEMMA TakeKeepsOrder ==
  ASSUME AsUsed, OInv, NEW c \in Consumers, DequeueChunk(c)
  PROVE  NothingLost' /\ InOrder'
<1> DEFINE n == DequeueQuantity(c)
           l == SubSeq(queue, 1, n)
           r == SubSeq(queue, n + 1, Len(queue))
<1>1. /\ queue' = r /\ received' = [received EXCEPT ![c] = received[c] \o l]
      /\ UNCHANGED <<made, todo, dropped>>
  BY DEF DequeueChunk
<1>2. TypeOK /\ TypeOK' /\ IInv
  BY DequeueChunkInvariant DEF OInv, IInv
<1>3. n \in 0 .. Len(queue) /\ received[c] \in Seq(Nat) /\ queue \in Seq(Nat)
  <2>1. Len(queue) \in Nat /\ (queue = <<>> <=> Len(queue) = 0)
    BY <1>2 DEF TypeOK
  <2>2. n \in 0 .. Len(queue)
    <3>1. pc[c] \in {"enter", "awake"}
      BY DEF DequeueChunk
    <3>2. QED
      BY <1>2, <2>1, <3>1, DequeueBounds DEF DequeueChunk
  <2> HIDE DEF n
  <2>3. QED
    BY <1>2, <2>2, Numbers
<1> HIDE DEF n
<1>4. /\ l \in Seq(Nat) /\ r \in Seq(Nat)
      /\ Elements(queue) = Elements(l) \cup Elements(r)
      /\ Increasing(queue) <=>
           Increasing(l) /\ Increasing(r) /\ Below(Elements(l), Elements(r))
  BY <1>3, Cut
<1> HIDE DEF l, r
<1>5. /\ Elements(received[c] \o l) = Elements(received[c]) \cup Elements(l)
      /\ Increasing(received[c] \o l) <=>
           /\ Increasing(received[c]) /\ Increasing(l)
           /\ Below(Elements(received[c]), Elements(l))
  <2>1. received[c] \in Seq(Nat) /\ l \in Seq(Nat)
    BY <1>3, <1>4
  <2>2. QED
    BY <2>1, Joined, Zenon
<1>6. NothingLost'
  <2>1. PICK others : /\ Delivered = Elements(received[c]) \cup others
                      /\ Delivered' = Elements(received[c] \o l) \cup others
    BY <1>1, <1>2, OneChanges, Zenon
  <2>2. Elements(queue)' = Elements(r)
    BY <1>1
  <2>3. InHands' = InHands /\ dropped' = dropped /\ made' = made
    BY <1>1 DEF InHands
  <2>4. 1 .. made = dropped \cup Elements(queue) \cup InHands \cup Delivered
    BY <1>2, Reading DEF OInv, Accounted
  <2>5. (1 .. made)' = (dropped \cup Elements(queue) \cup InHands \cup Delivered)'
    BY <1>4, <1>5, <2>1, <2>2, <2>3, <2>4
  <2>6. QED
    BY <1>2, <2>5, ReadingNext, Zenon DEF Accounted
<1>7. InOrder'
  <2> SUFFICES ASSUME NEW d \in Consumers, NEW q \in Producers
               PROVE  /\ Increasing(received'[d]) /\ Increasing(queue') /\ Increasing(todo'[q])
                      /\ Below(Elements(received'[d]), Elements(queue'))
                      /\ Below(Elements(received'[d]), Elements(todo'[q]))
                      /\ Below(Elements(queue'), Elements(todo'[q]))
    BY <1>2, ReadingNext, Zenon DEF PartsInOrder, Increasing, Below, Elements
  <2>1. d = c /\ received'[c] = received[c] \o l
    BY <1>1, <1>2 DEF AsUsed, TypeOK
  <2>2. /\ Increasing(received[c]) /\ Increasing(queue) /\ Increasing(todo[q])
        /\ Below(Elements(received[c]), Elements(queue))
        /\ Below(Elements(received[c]), Elements(todo[q]))
        /\ Below(Elements(queue), Elements(todo[q]))
    BY <1>2, Reading DEF OInv, PartsInOrder
  <2>3. /\ Below(Elements(received[c]), Elements(l)) /\ Below(Elements(received[c]), Elements(r))
        /\ Below(Elements(l), Elements(todo[q])) /\ Below(Elements(r), Elements(todo[q]))
    BY <1>4, <2>2 DEF Below
  <2>4. /\ Below(Elements(received[c] \o l), Elements(r))
        /\ Below(Elements(received[c] \o l), Elements(todo[q]))
    BY <1>4, <1>5, <2>2, <2>3 DEF Below
  <2>5. QED
    BY <1>1, <1>4, <1>5, <2>1, <2>2, <2>3, <2>4
<1>8. QED
  BY <1>6, <1>7

\* A stopped queue refuses what a producer has left.
LEMMA RefuseKeepsOrder ==
  ASSUME AsUsed, OInv, NEW p \in Producers, EnqueueStopped(p)
  PROVE  NothingLost' /\ InOrder'
<1>1. /\ todo' = [todo EXCEPT ![p] = <<>>] /\ dropped' = dropped \cup Elements(todo[p])
      /\ UNCHANGED <<queue, received, made>>
  BY DEF EnqueueStopped
<1>2. TypeOK /\ TypeOK' /\ IInv
  BY EnqueueStoppedInvariant DEF OInv, IInv
<1>3. NothingLost'
  <2>1. PICK others : /\ InHands = Elements(todo[p]) \cup others
                      /\ InHands' = Elements(<<>>) \cup others
    BY <1>1, <1>2, OneChanges, Zenon
  <2>2. Delivered' = Delivered /\ Elements(queue)' = Elements(queue) /\ made' = made
    BY <1>1 DEF Delivered
  <2>3. 1 .. made = dropped \cup Elements(queue) \cup InHands \cup Delivered
    BY <1>2, Reading DEF OInv, Accounted
  <2>4. (1 .. made)' = (dropped \cup Elements(queue) \cup InHands \cup Delivered)'
    BY <1>1, <2>1, <2>2, <2>3, EmptyList
  <2>5. QED
    BY <1>2, <2>4, ReadingNext, Zenon DEF Accounted
<1>4. InOrder'
  <2> SUFFICES ASSUME NEW c \in Consumers, NEW q \in Producers
               PROVE  /\ Increasing(received'[c]) /\ Increasing(queue') /\ Increasing(todo'[q])
                      /\ Below(Elements(received'[c]), Elements(queue'))
                      /\ Below(Elements(received'[c]), Elements(todo'[q]))
                      /\ Below(Elements(queue'), Elements(todo'[q]))
    BY <1>2, ReadingNext, Zenon DEF PartsInOrder, Increasing, Below, Elements
  <2>1. q = p /\ todo'[p] = <<>>
    BY <1>1, <1>2 DEF AsUsed, TypeOK
  <2>2. /\ Increasing(received[c]) /\ Increasing(queue) /\ Increasing(todo[p])
        /\ Below(Elements(received[c]), Elements(queue))
        /\ Below(Elements(received[c]), Elements(todo[p]))
        /\ Below(Elements(queue), Elements(todo[p]))
    BY <1>2, Reading DEF OInv, PartsInOrder
  <2>3. QED
    BY <1>1, <2>1, <2>2, EmptyList DEF Below
<1>5. QED
  BY <1>3, <1>4

\* A call that does not block: its producer has nothing left from before.
LEMMA TryPutKeepsOrder ==
  ASSUME AsUsed, OInv, NEW p \in Producers, NEW n \in TryBatches,
         NonblockingBulkEnqueue(p, n)
  PROVE  NothingLost' /\ InOrder'
<1> DEFINE m == IF FreeCapacity < n THEN FreeCapacity ELSE n
<1>1. /\ queue' = queue \o New(m) /\ made' = made + m
      /\ UNCHANGED <<todo, received, dropped>>
      /\ todo[p] = <<>>
  BY DEF NonblockingBulkEnqueue, OInv, Resting
<1>2. TypeOK /\ TypeOK' /\ IInv
  BY NonblockingInvariant DEF OInv, IInv
<1>3. m \in Nat /\ made \in Nat /\ queue \in Seq(Nat)
  <2>1. m \in Nat
    BY <1>2, SizesAssumption DEF NonblockingBulkEnqueue, FreeCapacity, TypeOK
  <2>2. QED
    BY <1>2, <2>1, Numbers DEF TypeOK
<1> HIDE DEF m
<1>4. /\ New(m) \in Seq(Nat) /\ Increasing(New(m))
      /\ Elements(New(m)) = (made + 1) .. (made + m)
  BY <1>3, NewIncreasing
<1>5. queue \in Seq(Nat) /\ New(m) \in Seq(Nat)
  BY <1>3, <1>4
<1>6. /\ Elements(queue \o New(m)) = Elements(queue) \cup Elements(New(m))
      /\ Increasing(queue \o New(m)) <=>
           /\ Increasing(queue) /\ Increasing(New(m))
           /\ Below(Elements(queue), Elements(New(m)))
  BY <1>5, Joined, Zenon
<1>7. NothingLost'
  <2>1. /\ InHands' = InHands /\ Delivered' = Delivered /\ dropped' = dropped
        /\ Elements(queue)' = Elements(queue) \cup (made + 1) .. (made + m)
    BY <1>1, <1>4, <1>6 DEF InHands, Delivered
  <2>2. (1 .. made)' = 1 .. made \cup (made + 1) .. (made + m)
    BY <1>1, <1>3
  <2>3. 1 .. made = dropped \cup Elements(queue) \cup InHands \cup Delivered
    BY <1>2, Reading DEF OInv, Accounted
  <2>4. (1 .. made)' = (dropped \cup Elements(queue) \cup InHands \cup Delivered)'
    BY <2>1, <2>2, <2>3
  <2>5. QED
    BY <1>2, <2>4, ReadingNext, Zenon DEF Accounted
<1>8. InOrder'
  <2> SUFFICES ASSUME NEW c \in Consumers, NEW q \in Producers
               PROVE  /\ Increasing(received'[c]) /\ Increasing(queue') /\ Increasing(todo'[q])
                      /\ Below(Elements(received'[c]), Elements(queue'))
                      /\ Below(Elements(received'[c]), Elements(todo'[q]))
                      /\ Below(Elements(queue'), Elements(todo'[q]))
    BY <1>2, ReadingNext, Zenon DEF PartsInOrder, Increasing, Below, Elements
  <2>1. q = p /\ todo'[p] = <<>>
    BY <1>1, <1>2 DEF AsUsed, TypeOK
  <2>2. /\ Increasing(received[c]) /\ Increasing(queue) /\ Increasing(todo[p])
        /\ Below(Elements(received[c]), Elements(queue))
        /\ Below(Elements(received[c]), Elements(todo[p]))
        /\ Below(Elements(queue), Elements(todo[p]))
    BY <1>2, Reading DEF OInv, PartsInOrder
  <2>3. Elements(queue) \subseteq 1 .. made /\ Elements(received[c]) \subseteq 1 .. made
    BY MadeBefore
  <2>4. /\ Below(Elements(received[c]), Elements(New(m)))
        /\ Below(Elements(queue), Elements(New(m)))
    BY <1>3, <1>4, <2>3 DEF Below
  <2>5. QED
    BY <1>1, <1>4, <1>6, <2>1, <2>2, <2>4, EmptyList DEF Below
<1>9. QED
  BY <1>7, <1>8

\* Clear takes the middle of the stream out.
LEMMA ClearKeepsOrder ==
  ASSUME AsUsed, OInv, NEW o \in Owners, Clear(o)
  PROVE  NothingLost' /\ InOrder'
<1>1. /\ queue' = <<>> /\ dropped' = dropped \cup Elements(queue)
      /\ UNCHANGED <<todo, received, made>>
  BY DEF Clear
<1>2. TypeOK /\ TypeOK' /\ IInv
  BY ClearInvariant DEF OInv, IInv
<1>3. NothingLost'
  <2>1. /\ InHands' = InHands /\ Delivered' = Delivered /\ made' = made
        /\ Elements(queue)' = {}
    BY <1>1, EmptyList DEF InHands, Delivered
  <2>2. 1 .. made = dropped \cup Elements(queue) \cup InHands \cup Delivered
    BY <1>2, Reading DEF OInv, Accounted
  <2>3. (1 .. made)' = (dropped \cup Elements(queue) \cup InHands \cup Delivered)'
    BY <1>1, <2>1, <2>2
  <2>4. QED
    BY <1>2, <2>3, ReadingNext, Zenon DEF Accounted
<1>4. InOrder'
  <2> SUFFICES ASSUME NEW c \in Consumers, NEW q \in Producers
               PROVE  /\ Increasing(received'[c]) /\ Increasing(queue') /\ Increasing(todo'[q])
                      /\ Below(Elements(received'[c]), Elements(queue'))
                      /\ Below(Elements(received'[c]), Elements(todo'[q]))
                      /\ Below(Elements(queue'), Elements(todo'[q]))
    BY <1>2, ReadingNext, Zenon DEF PartsInOrder, Increasing, Below, Elements
  <2>1. /\ Increasing(received[c]) /\ Increasing(queue) /\ Increasing(todo[q])
        /\ Below(Elements(received[c]), Elements(queue))
        /\ Below(Elements(received[c]), Elements(todo[q]))
        /\ Below(Elements(queue), Elements(todo[q]))
    BY <1>2, Reading DEF OInv, PartsInOrder
  <2>2. QED
    BY <1>1, <2>1, EmptyList DEF Below
<1>5. QED
  BY <1>3, <1>4

\* A producer goes outside only when it has nothing left.
LEMMA RestingKept ==
  ASSUME AsUsed, OInv, Next
  PROVE  Resting'
<1> SUFFICES ASSUME NEW q \in Producers, pc'[q] = "idle" PROVE todo'[q] = <<>>
  BY DEF Resting
<1>1. /\ pc[q] = "idle" => todo[q] = <<>>
      /\ q \in Threads /\ q \notin Owners /\ q \notin Consumers
      /\ TypeOK
  BY ThreadsAssumption DEF OInv, IInv, Resting, Threads, Workers
<1>2. ASSUME NEW p \in Producers, ProducerStep(p) PROVE todo'[q] = <<>>
  <2>1. p = q
    BY DEF AsUsed
  <2>2. CASE EnqueueWait(p)
    BY <1>1, <2>1, <2>2 DEF EnqueueWait, Goto, TypeOK
  <2>3. CASE EnqueueChunk(p)
    BY <1>1, <2>1, <2>3 DEF EnqueueChunk, Goto, TypeOK
  <2>4. CASE EnqueueStopped(p)
    BY <1>1, <2>1, <2>4 DEF EnqueueStopped, TypeOK
  <2>5. CASE NotifyOne(p, Consumers)
    <3>1. pc'[q] = Onward(q)
      BY <1>1, <2>1, <2>5 DEF NotifyOne, Goto, Asleep, TypeOK
    <3>2. QED
      BY <1>1, <2>5, <3>1 DEF Onward, NotifyOne
  <2>6. QED
    BY <1>2, <2>2, <2>3, <2>4, <2>5 DEF ProducerStep
<1>3. ASSUME NEW p \in Producers, NEW n \in Batches, BulkEnqueue(p, n) PROVE FALSE
  BY <1>1, <1>3 DEF BulkEnqueue, Goto, TypeOK, AsUsed
<1>4. ASSUME NEW p \in Producers, NEW n \in TryBatches, NonblockingBulkEnqueue(p, n)
      PROVE  FALSE
  BY <1>1, <1>4 DEF NonblockingBulkEnqueue, Goto, TypeOK, AsUsed
<1>5. ASSUME todo' = todo, pc'[q] = pc[q] PROVE todo'[q] = <<>>
  BY <1>1, <1>5
<1>6. ASSUME NEW c \in Consumers, ConsumerStep(c) \/ \E n \in Requests : BulkDequeue(c, n)
      PROVE  todo'[q] = <<>>
  <2>1. CASE NotifyOne(c, Producers)
    <3>1. pc'[q] # pc[q] => pc'[q] = "awake"
      BY <1>1, <2>1 DEF NotifyOne, Goto, Asleep, TypeOK
    <3>2. QED
      BY <1>5, <2>1, <3>1 DEF NotifyOne
  <2>2. CASE ~NotifyOne(c, Producers)
    BY <1>1, <1>5, <1>6, <2>2 DEF ConsumerStep, DequeueWait, DequeueChunk, DequeueStopped,
       BulkDequeue, Goto, TypeOK
  <2>3. QED
    BY <2>1, <2>2
<1>7. ASSUME NEW t \in Workers, SpuriousWake(t) PROVE todo'[q] = <<>>
  BY <1>1, <1>5, <1>7 DEF SpuriousWake, Goto, TypeOK
<1>8. ASSUME NEW o \in Owners, OwnerStep(o) PROVE todo'[q] = <<>>
  BY <1>1, <1>5, <1>8 DEF OwnerStep, NotifyItems, NotifyRoom, NotifyAll, Asleep
<1>9. ASSUME NEW o \in Owners,
             Start(o) \/ Stop(o) \/ Clear(o) \/ \E n \in Resizes : Resize(o, n)
      PROVE  todo'[q] = <<>>
  BY <1>1, <1>5, <1>9 DEF Start, Stop, Clear, Resize, Goto, TypeOK
<1>10. QED
  BY <1>2, <1>3, <1>4, <1>6, <1>7, <1>8, <1>9 DEF Next

\* Every step keeps the stream complete and in order.
LEMMA StreamKept ==
  ASSUME AsUsed, OInv, [Next]_vars
  PROVE  OInv'
<1>1. IInv'
  BY NextInvariant DEF OInv
<1>2. ASSUME UNCHANGED <<queue, todo, made, received, dropped>>
      PROVE  NothingLost' /\ InOrder'
  <2>1. Accounted' <=> Accounted
    BY <1>2 DEF Accounted, InHands, Delivered
  <2>2. PartsInOrder' <=> PartsInOrder
    BY <1>2 DEF PartsInOrder
  <2>3. QED
    BY <1>1, <2>1, <2>2, Reading, ReadingNext DEF OInv, IInv
<1>3. CASE UNCHANGED vars
  <2>1. Resting'
    BY <1>3 DEF vars, OInv, Resting
  <2>2. QED
    BY <1>1, <1>2, <1>3, <2>1 DEF vars, OInv
<1>4. CASE Next
  <2>1. Resting'
    BY <1>4, RestingKept
  <2>2. NothingLost' /\ InOrder'
    BY <1>2, <1>4, OfferKeepsOrder, PutKeepsOrder, TakeKeepsOrder, RefuseKeepsOrder,
       TryPutKeepsOrder, ClearKeepsOrder
       DEF Next, ProducerStep, ConsumerStep, OwnerStep, EnqueueWait, NotifyOne, DequeueWait,
           DequeueStopped, BulkDequeue, SpuriousWake, NotifyItems, NotifyRoom, NotifyAll,
           Start, Stop, Resize
  <2>3. QED
    BY <1>1, <2>1, <2>2 DEF OInv
<1>5. QED
  BY <1>3, <1>4

\* A new queue has no items.
LEMMA InitStream == Init => OInv
<1> SUFFICES ASSUME Init PROVE OInv
  OBVIOUS
<1>1. IInv
  BY InitInvariant
<1>2. Resting
  BY DEF Init, Resting
<1>3. Accounted
  <2>1. InHands = {} /\ Delivered = {}
    BY EmptyList DEF Init, InHands, Delivered
  <2>2. 1 .. made = {}
    BY DEF Init
  <2>3. QED
    BY <2>1, <2>2, EmptyList DEF Init, Accounted
<1>4. PartsInOrder
  BY EmptyList DEF Init, PartsInOrder, Below
<1>5. QED
  BY <1>1, <1>2, <1>3, <1>4, Reading DEF OInv, IInv

\* Spec implies the invariant of the stream.
LEMMA StreamInvariance == ASSUME AsUsed PROVE Spec => []OInv
<1>1. Init => OInv
  BY InitStream
<1>2. OInv /\ [Next]_vars => OInv'
  BY StreamKept
<1>3. QED
  BY <1>1, <1>2, PTL DEF Spec

\* What a consumer got and what is on its way to it is in the order it was made,
\* each item once, for any batches, requests and capacities.
THEOREM OrderIsKept == ASSUME AsUsed PROVE Spec => []InOrder
<1>1. OInv => InOrder
  BY DEF OInv
<1>2. QED
  BY <1>1, StreamInvariance, PTL

\* An item is lost only by Clear, or by a call that a stopped queue refuses.
THEOREM NoItemIsLost == ASSUME AsUsed PROVE Spec => []NothingLost
<1>1. OInv => NothingLost
  BY DEF OInv
<1>2. QED
  BY <1>1, StreamInvariance, PTL

----------------------------------------------------------------------------
(* The queue implements ThreadQueue.                                       *)

\* the threads inside a call
Calling == {t \in Workers : pc[t] # "idle"}

\* Lists and what is made mean the same in both modules.
LEMMA SameLists ==
  /\ \A s : Promise!Elements(s) = Elements(s)
  /\ \A n : Promise!New(n) = New(n)
  BY DEF Promise!Elements, Elements, Promise!New, New

\* A producer's steps.
LEMMA ProducerRefines ==
  ASSUME AsUsed, OInv, NEW p \in Producers
  PROVE  /\ ProducerStep(p) => [Promise!QNext]_(Promise!qvars)
         /\ \A n \in Batches : BulkEnqueue(p, n) => Promise!QNext
         /\ \A n \in TryBatches : NonblockingBulkEnqueue(p, n) => Promise!QNext
<1>1. /\ IInv /\ TypeOK
      /\ p \in Threads /\ p \in Workers /\ p \notin Owners /\ p \notin Consumers
  BY ThreadsAssumption DEF OInv, IInv, Threads, Workers
<1>2. ASSUME EnqueueWait(p) PROVE UNCHANGED Promise!qvars
  <2>1. Calling' = Calling
    BY <1>1, <1>2 DEF EnqueueWait, Goto, Calling, TypeOK, Threads
  <2>2. QED
    BY <1>2, <2>1 DEF EnqueueWait, Calling, Promise!qvars
<1>3. ASSUME EnqueueChunk(p) PROVE Promise!Put(p)
  <2> DEFINE n == EnqueueQuantity(p)
  <2>1. pc[p] \in {"enter", "awake"} /\ is_running
    BY <1>3 DEF EnqueueChunk
  <2>2. n \in 1 .. Len(todo[p]) /\ FreeCapacity = capacity - Len(queue) /\ FreeCapacity >= n
    BY <1>1, <1>3, <2>1, EnqueueBounds DEF EnqueueChunk
  <2>3. /\ queue' = queue \o SubSeq(todo[p], 1, n)
        /\ todo' = [todo EXCEPT ![p] = SubSeq(@, n + 1, Len(@))]
        /\ pc' = [pc EXCEPT ![p] = "notify"]
        /\ UNCHANGED <<capacity, is_running, wanted, made, received, dropped>>
    BY <1>3 DEF EnqueueChunk, Goto
  <2> HIDE DEF n
  <2>4. Calling' = Calling /\ p \in Calling
    BY <1>1, <2>1, <2>3 DEF Calling, TypeOK, Threads
  <2>5. Len(queue) + n <= capacity
    BY <1>1, <2>2 DEF TypeOK
  <2>6. QED
    BY <2>1, <2>2, <2>3, <2>4, <2>5 DEF Promise!Put, Calling
<1>4. ASSUME EnqueueStopped(p) PROVE Promise!Offered(p)
  <2>1. Calling' = Calling \ {p} /\ p \in Calling
    BY <1>1, <1>4 DEF EnqueueStopped, Goto, Calling, TypeOK, Threads
  <2>2. QED
    BY <1>4, <2>1, SameLists DEF EnqueueStopped, Promise!Offered, Calling
<1>5. ASSUME NotifyOne(p, Consumers) PROVE Promise!Offered(p) \/ UNCHANGED Promise!qvars
  <2>1. /\ pc'[p] = Onward(p) /\ p \in Calling
        /\ \A t \in Workers \ {p} : pc'[t] = "idle" <=> pc[t] = "idle"
        /\ UNCHANGED <<queue, capacity, is_running, todo, wanted, made, received, dropped>>
    BY <1>1, <1>5 DEF NotifyOne, Goto, Asleep, TypeOK, Threads, Calling
  <2>2. CASE todo[p] = <<>>
    <3>1. Calling' = Calling \ {p}
      BY <1>1, <2>1, <2>2 DEF Onward, Calling
    <3>2. /\ todo' = [todo EXCEPT ![p] = <<>>]
          /\ dropped' = dropped \cup Elements(todo[p])
      BY <1>1, <2>1, <2>2, EmptyList DEF TypeOK
    <3>3. QED
      BY <2>1, <2>2, <3>1, <3>2, SameLists DEF Promise!Offered, Calling
  <2>3. CASE todo[p] # <<>>
    <3>1. Calling' = Calling
      BY <1>1, <2>1, <2>3 DEF Onward, Calling
    <3>2. QED
      BY <2>1, <3>1 DEF Promise!qvars, Calling
  <2>4. QED
    BY <2>2, <2>3
<1>6. ASSUME NEW n \in Batches, BulkEnqueue(p, n) PROVE Promise!Offer(p)
  <2>1. Calling' = Calling \cup {p} /\ p \notin Calling
    BY <1>1, <1>6 DEF BulkEnqueue, Goto, Calling, TypeOK, Threads
  <2>2. QED
    BY <1>6, <2>1, SameLists DEF BulkEnqueue, Promise!Offer, Promise!Call, Calling
<1>7. ASSUME NEW n \in TryBatches, NonblockingBulkEnqueue(p, n) PROVE Promise!TryPut(p)
  <2> DEFINE m == IF FreeCapacity < n THEN FreeCapacity ELSE n
  <2>1. Calling' = Calling \cup {p} /\ p \notin Calling /\ is_running
    BY <1>1, <1>7 DEF NonblockingBulkEnqueue, Goto, Calling, TypeOK, Threads
  <2>2. m \in 1 .. MaxItems - made /\ Len(queue) + m <= capacity
    <3>1. /\ n \in Nat \ {0} /\ MaxItems \in Nat /\ made \in Nat
          /\ Len(queue) \in Nat /\ capacity \in Nat
      BY <1>1, SizesAssumption DEF TypeOK
    <3>2. FreeCapacity = capacity - Len(queue) /\ Len(queue) < capacity /\ made + m <= MaxItems
      BY <1>7, <3>1 DEF NonblockingBulkEnqueue, FreeCapacity
    <3>3. QED
      BY <3>1, <3>2
  <2>3. /\ queue' = queue \o New(m) /\ made' = made + m
        /\ UNCHANGED <<capacity, is_running, todo, wanted, received, dropped>>
    BY <1>7 DEF NonblockingBulkEnqueue
  <2> HIDE DEF m
  <2>4. QED
    BY <2>1, <2>2, <2>3, SameLists DEF Promise!TryPut, Promise!Call, Calling
<1>8. QED
  BY <1>2, <1>3, <1>4, <1>5, <1>6, <1>7 DEF ProducerStep, Promise!QNext

\* A consumer's steps.
LEMMA ConsumerRefines ==
  ASSUME AsUsed, OInv, NEW c \in Consumers
  PROVE  /\ ConsumerStep(c) => [Promise!QNext]_(Promise!qvars)
         /\ \A n \in Requests : BulkDequeue(c, n) => Promise!QNext
<1>1. /\ IInv /\ TypeOK
      /\ c \in Threads /\ c \in Workers /\ c \notin Owners /\ c \notin Producers
  BY ThreadsAssumption DEF OInv, IInv, Threads, Workers
<1>2. ASSUME DequeueWait(c) PROVE UNCHANGED Promise!qvars
  <2>1. Calling' = Calling
    BY <1>1, <1>2 DEF DequeueWait, Goto, Calling, TypeOK, Threads
  <2>2. QED
    BY <1>2, <2>1 DEF DequeueWait, Calling, Promise!qvars
<1>3. ASSUME DequeueChunk(c) PROVE Promise!Take(c)
  <2> DEFINE n == DequeueQuantity(c)
  <2>1. pc[c] \in {"enter", "awake"}
    BY <1>3 DEF DequeueChunk
  <2>2. n \in 1 .. wanted[c] /\ n <= Len(queue)
    <3>1. Len(queue) \in Nat /\ (queue = <<>> <=> Len(queue) = 0) /\ wanted[c] \in Nat
      BY <1>1 DEF TypeOK
    <3>2. QED
      BY <1>1, <1>3, <2>1, <3>1, DequeueBounds DEF DequeueChunk
  <2>3. /\ received' = [received EXCEPT ![c] = @ \o SubSeq(queue, 1, n)]
        /\ queue' = SubSeq(queue, n + 1, Len(queue))
        /\ wanted' = [wanted EXCEPT ![c] = @ - n]
        /\ pc' = [pc EXCEPT ![c] = "notify"]
        /\ UNCHANGED <<capacity, is_running, todo, made, dropped>>
    BY <1>3 DEF DequeueChunk, Goto
  <2> HIDE DEF n
  <2>4. Calling' = Calling /\ c \in Calling
    BY <1>1, <2>1, <2>3 DEF Calling, TypeOK, Threads
  <2>5. QED
    BY <2>2, <2>3, <2>4 DEF Promise!Take, Calling
<1>4. ASSUME DequeueStopped(c) PROVE Promise!Served(c)
  <2>1. Calling' = Calling \ {c} /\ c \in Calling
    BY <1>1, <1>4 DEF DequeueStopped, Goto, Calling, TypeOK, Threads
  <2>2. QED
    BY <1>4, <2>1 DEF DequeueStopped, Promise!Served, Calling
<1>5. ASSUME NotifyOne(c, Producers) PROVE Promise!Served(c) \/ UNCHANGED Promise!qvars
  <2>1. /\ pc'[c] = Onward(c) /\ c \in Calling
        /\ \A t \in Workers \ {c} : pc'[t] = "idle" <=> pc[t] = "idle"
        /\ UNCHANGED <<queue, capacity, is_running, todo, wanted, made, received, dropped>>
    BY <1>1, <1>5 DEF NotifyOne, Goto, Asleep, TypeOK, Threads, Calling
  <2>2. CASE wanted[c] = 0
    <3>1. Calling' = Calling \ {c}
      BY <1>1, <2>1, <2>2 DEF Onward, Calling
    <3>2. wanted' = [wanted EXCEPT ![c] = 0]
      BY <1>1, <2>1, <2>2 DEF TypeOK
    <3>3. QED
      BY <2>1, <2>2, <3>1, <3>2 DEF Promise!Served, Calling
  <2>3. CASE wanted[c] # 0
    <3>1. Calling' = Calling
      BY <1>1, <2>1, <2>3 DEF Onward, Calling
    <3>2. QED
      BY <2>1, <3>1 DEF Promise!qvars, Calling
  <2>4. QED
    BY <2>2, <2>3
<1>6. ASSUME NEW n \in Requests, BulkDequeue(c, n) PROVE Promise!Ask(c)
  <2>1. Calling' = Calling \cup {c} /\ c \notin Calling
    BY <1>1, <1>6 DEF BulkDequeue, Goto, Calling, TypeOK, Threads
  <2>2. QED
    BY <1>6, <2>1 DEF BulkDequeue, Promise!Ask, Promise!Call, Calling
<1>7. QED
  BY <1>2, <1>3, <1>4, <1>5, <1>6 DEF ConsumerStep, Promise!QNext

\* An owner's steps, and wake-ups without a reason.
LEMMA OthersRefine ==
  ASSUME OInv
  PROVE  /\ \A t \in Workers : SpuriousWake(t) => UNCHANGED Promise!qvars
         /\ \A o \in Owners :
              /\ OwnerStep(o) => UNCHANGED Promise!qvars
              /\ Start(o) \/ Stop(o) \/ Clear(o) => Promise!QNext
              /\ \A n \in Resizes : Resize(o, n) => Promise!QNext
<1>1. TypeOK /\ \A o \in Owners : o \in Threads /\ o \notin Workers
  BY ThreadsAssumption DEF OInv, IInv, Threads, Workers
<1>2. ASSUME NEW t \in Workers, SpuriousWake(t) PROVE UNCHANGED Promise!qvars
  <2>1. Calling' = Calling
    BY <1>1, <1>2 DEF SpuriousWake, Goto, Calling, TypeOK, Threads
  <2>2. QED
    BY <1>2, <2>1 DEF SpuriousWake, Calling, Promise!qvars
<1>3. ASSUME NEW o \in Owners, OwnerStep(o) PROVE UNCHANGED Promise!qvars
  <2>1. Calling' = Calling
    BY <1>1, <1>3 DEF OwnerStep, NotifyItems, NotifyRoom, NotifyAll, Asleep, Calling, Threads
  <2>2. QED
    BY <1>3, <2>1 DEF OwnerStep, NotifyItems, NotifyRoom, NotifyAll, Calling, Promise!qvars
<1>4. ASSUME NEW o \in Owners, Start(o) \/ Stop(o) \/ Clear(o) PROVE Promise!Control
  <2>1. Calling' = Calling
    <3>1. \A t \in Workers : pc'[t] = pc[t]
      <4>1. CASE Start(o)
        BY <4>1 DEF Start
      <4>2. CASE Stop(o) \/ Clear(o)
        BY <1>1, <4>2 DEF Stop, Clear, Goto, TypeOK, Threads
      <4>3. QED
        BY <1>4, <4>1, <4>2
    <3>2. QED
      BY <3>1, Zenon DEF Calling
  <2>2. CASE Clear(o)
    BY <2>1, <2>2, SameLists DEF Clear, Promise!Control, Calling
  <2>3. CASE Start(o) \/ Stop(o)
    <3>1. is_running' \in BOOLEAN
      BY <2>3, Zenon DEF Start, Stop
    <3>2. UNCHANGED <<queue, capacity, dropped, todo, wanted, made, received>>
      BY <2>3 DEF Start, Stop
    <3>3. QED
      BY <2>1, <3>1, <3>2, Zenon DEF Promise!Control, Calling
  <2>4. QED
    BY <1>4, <2>2, <2>3
<1>5. ASSUME NEW o \in Owners, NEW n \in Resizes, Resize(o, n) PROVE Promise!Control
  BY <1>5 DEF Resize, Promise!Control
<1>6. QED
  BY <1>2, <1>3, <1>4, <1>5, Zenon DEF Promise!QNext

\* The class implements the promise: with its mutex, condition variables and chunks
\* it does nothing that ThreadQueue does not allow.
THEOREM Refinement == ASSUME AsUsed PROVE Spec => Promise!QSafe
<1>1. Init => Promise!QInit
  <2>1. Init => Calling = {}
    BY DEF Init, Calling, Threads
  <2>2. QED
    BY <2>1, Zenon DEF Init, Promise!QInit, Calling
<1>2. OInv /\ [Next]_vars => [Promise!QNext]_(Promise!qvars)
  <2> SUFFICES ASSUME OInv, [Next]_vars PROVE [Promise!QNext]_(Promise!qvars)
    OBVIOUS
  <2>1. CASE UNCHANGED vars
    <3>1. Calling' = Calling
      BY <2>1 DEF vars, Calling
    <3>2. QED
      BY <2>1, <3>1 DEF vars, Calling, Promise!qvars
  <2>2. CASE Next
    <3>1. ASSUME NEW p \in Producers,
                 \/ ProducerStep(p)
                 \/ \E n \in Batches : BulkEnqueue(p, n)
                 \/ \E n \in TryBatches : NonblockingBulkEnqueue(p, n)
          PROVE  [Promise!QNext]_(Promise!qvars)
      BY <3>1, ProducerRefines, Zenon
    <3>2. ASSUME NEW c \in Consumers,
                 ConsumerStep(c) \/ \E n \in Requests : BulkDequeue(c, n)
          PROVE  [Promise!QNext]_(Promise!qvars)
      BY <3>2, ConsumerRefines, Zenon
    <3>3. ASSUME NEW t \in Workers, SpuriousWake(t) PROVE [Promise!QNext]_(Promise!qvars)
      BY <3>3, OthersRefine, Zenon
    <3>4. ASSUME NEW o \in Owners,
                 \/ OwnerStep(o) \/ Start(o) \/ Stop(o) \/ Clear(o)
                 \/ \E n \in Resizes : Resize(o, n)
          PROVE  [Promise!QNext]_(Promise!qvars)
      BY <3>4, OthersRefine, Zenon
    <3>5. QED
      BY <2>2, <3>1, <3>2, <3>3, <3>4, Zenon DEF Next
  <2>3. QED
    BY <2>1, <2>2
<1>3. QED
  BY <1>1, <1>2, StreamInvariance, PTL DEF Spec, Promise!QSafe
=============================================================================
