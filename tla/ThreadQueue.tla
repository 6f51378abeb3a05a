---------------------------- MODULE ThreadQueue ----------------------------
(***************************************************************************)
(* What the emulator's threads expect of the queues between them: a first- *)
(* in first-out buffer whose producers move items in while there is room   *)
(* and whose consumers move them out while there are any, in chunks, every *)
(* call coming back once it is served or the queue is stopped and drained. *)
(* Nothing is said of mutexes, of sleeping or of waking up.                *)
(***************************************************************************)
EXTENDS Integers, Sequences

CONSTANTS
  Producers, Consumers,  \* the threads at the two ends
  Capacity,              \* the initial capacity
  Resizes,               \* what Resize may be asked for
  Batches,               \* how many items a blocking call may bring
  TryBatches,            \* the same, for a call that does not block
  Requests,              \* how many items a consumer may ask for
  MaxItems               \* bound: how many items are ever made

VARIABLES
  queue, capacity, is_running,
  calling,   \* the threads inside a call
  todo,      \* todo[p]: the items p still has to move in
  wanted,    \* wanted[c]: how many more items c asks for
  made,      \* items are numbered as they are made: 1 .. made
  received,  \* received[c]: the items c got, in order
  dropped    \* the items that were cleared, or refused by a stopped queue

qvars == <<queue, capacity, is_running, calling, todo, wanted, made, received, dropped>>

Elements(s) == {s[i] : i \in DOMAIN s}

New(n) == [i \in 1 .. n |-> made + i]

QInit ==
  /\ queue = <<>> /\ capacity = Capacity /\ is_running = TRUE
  /\ calling = {}
  /\ todo = [p \in Producers |-> <<>>]
  /\ wanted = [c \in Consumers |-> 0]
  /\ made = 0
  /\ received = [c \in Consumers |-> <<>>]
  /\ dropped = {}

Call(t) == t \notin calling /\ calling' = calling \cup {t}

Offer(p) ==
  /\ Call(p)
  /\ \E n \in Batches :
       /\ made + n <= MaxItems
       /\ todo' = [todo EXCEPT ![p] = New(n)]
       /\ made' = made + n
  /\ UNCHANGED <<queue, capacity, is_running, wanted, received, dropped>>

Put(p) ==
  /\ p \in calling /\ is_running
  /\ \E n \in 1 .. Len(todo[p]) :
       /\ Len(queue) + n <= capacity
       /\ queue' = queue \o SubSeq(todo[p], 1, n)
       /\ todo' = [todo EXCEPT ![p] = SubSeq(@, n + 1, Len(@))]
  /\ UNCHANGED <<capacity, is_running, calling, wanted, made, received, dropped>>

\* A call that never blocks: it moves in what there is room for.
TryPut(p) ==
  /\ Call(p) /\ is_running
  /\ \E n \in 1 .. MaxItems - made :
       /\ Len(queue) + n <= capacity
       /\ queue' = queue \o New(n)
       /\ made' = made + n
  /\ UNCHANGED <<capacity, is_running, todo, wanted, received, dropped>>

Offered(p) ==
  /\ p \in calling
  /\ todo[p] = <<>> \/ ~is_running
  /\ calling' = calling \ {p}
  /\ todo' = [todo EXCEPT ![p] = <<>>]
  /\ dropped' = dropped \cup Elements(todo[p])
  /\ UNCHANGED <<queue, capacity, is_running, wanted, made, received>>

Ask(c) ==
  /\ Call(c)
  /\ \E n \in Requests : wanted' = [wanted EXCEPT ![c] = n]
  /\ UNCHANGED <<queue, capacity, is_running, todo, made, received, dropped>>

Take(c) ==
  /\ c \in calling
  /\ \E n \in 1 .. wanted[c] :
       /\ n <= Len(queue)
       /\ received' = [received EXCEPT ![c] = @ \o SubSeq(queue, 1, n)]
       /\ queue' = SubSeq(queue, n + 1, Len(queue))
       /\ wanted' = [wanted EXCEPT ![c] = @ - n]
  /\ UNCHANGED <<capacity, is_running, calling, todo, made, dropped>>

\* A stopped queue is drained before a consumer comes back with less.
Served(c) ==
  /\ c \in calling
  /\ wanted[c] = 0 \/ (~is_running /\ queue = <<>>)
  /\ calling' = calling \ {c}
  /\ wanted' = [wanted EXCEPT ![c] = 0]
  /\ UNCHANGED <<queue, capacity, is_running, todo, made, received, dropped>>

Control ==
  /\ \/ /\ is_running' \in BOOLEAN
        /\ UNCHANGED <<queue, capacity, dropped>>
     \/ /\ capacity' \in Resizes
        /\ UNCHANGED <<queue, is_running, dropped>>
     \/ /\ queue' = <<>>
        /\ dropped' = dropped \cup Elements(queue)
        /\ UNCHANGED <<capacity, is_running>>
  /\ UNCHANGED <<calling, todo, wanted, made, received>>

QNext ==
  \/ Control
  \/ \E p \in Producers : Offer(p) \/ Put(p) \/ TryPut(p) \/ Offered(p)
  \/ \E c \in Consumers : Ask(c) \/ Take(c) \/ Served(c)

QSafe == QInit /\ [][QNext]_qvars

\* Nobody stays blocked who could go on.
QSpec ==
  /\ QSafe
  /\ \A p \in Producers : WF_qvars(Put(p) \/ Offered(p))
  /\ \A c \in Consumers : WF_qvars(Take(c) \/ Served(c))
============================================================================
