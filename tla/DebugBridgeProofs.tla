------------------------- MODULE DebugBridgeProofs -------------------------
(***************************************************************************)
(* Proofs about DebugBridge, for any number of handlers and any requests:  *)
(* no pointer dangles, what a handler is told is true, an executed command *)
(* is notified, and every step of the bridge is a step of the service.     *)
(* The last part is about GuestMutex, the mutex that clients build on the  *)
(* bridge: two never both have it, and it is never lost.  FreeAssumption,  *)
(* which fixes the clients' requests, is used there and only there.        *)
(***************************************************************************)
EXTENDS GuestMutex, ListTheorems

----------------------------------------------------------------------------
(* The inductive invariant.                                                *)

\* The commands before the iterator are done, the others are not.
IteratorIsFront ==
  /\ ~locked => at = 1
  /\ \A i \in DOMAIN queue : done[queue[i]] <=> i < at

Counted == \A c \in Clients : runs[c] = IF done[c] THEN 1 ELSE 0

\* Truthful, in terms of the flag.
Verdicts ==
  \A c \in Clients : pc[c] = "idle" =>
    /\ verdict[c] = "ok" => done[c]
    /\ verdict[c] = "timeout" => ~done[c]

IInv ==
  /\ TypeOK
  /\ NoDanglingPointer
  /\ IteratorIsFront
  /\ Counted
  /\ Verdicts
  /\ ExecutedIsNotified

\* A command leaves a word in memory and a word, or nothing, as its reply.
LEMMA PerformedType ==
  ASSUME NEW r \in Requests, NEW w \in Values
  PROVE  Performed(r, w) \in Values /\ Reply(r, w) \in Values \cup {None}
  BY DEF Requests, Performed, Reply, Reads, Conflicts

\* What TimeOut does to a queue without duplicates: the handler is gone, the
\* others remain, once each.
LEMMA WithoutElements ==
  ASSUME NEW c, queue \in Seq(Clients),
         \A i, j \in DOMAIN queue : queue[i] = queue[j] => i = j,
         NEW q, q = Without(c)
  PROVE  /\ q \in Seq(Clients)
         /\ \A i \in DOMAIN q : q[i] # c /\ \E k \in DOMAIN queue : q[i] = queue[k]
         /\ \A i, j \in DOMAIN q : q[i] = q[j] => i = j
<1> DEFINE p == First(Positions(c))
<1>1. CASE Positions(c) = {}
  BY <1>1 DEF Without, Positions
<1>2. CASE Positions(c) # {}
  <2>1. p \in Positions(c)
    BY <1>2, FirstIsElement DEF Positions
  <2>2. p \in DOMAIN queue /\ queue[p] = c
    BY <2>1 DEF Positions
  <2>3. q = Erase(queue, p)
    BY <1>2 DEF Without
  <2> HIDE DEF p
  <2>4. /\ q \in Seq(Clients)
        /\ DOMAIN q = 1 .. (Len(queue) - 1)
        /\ \A j \in DOMAIN q : q[j] = IF j < p THEN queue[j] ELSE queue[j + 1]
    BY <2>2, <2>3, EraseElements
  <2> DEFINE orig(j) == IF j < p THEN j ELSE j + 1
  <2>5. \A j \in DOMAIN q : orig(j) \in DOMAIN queue \ {p} /\ q[j] = queue[orig(j)]
    BY <2>2, <2>4
  <2>6. \A i, j \in DOMAIN q : orig(i) = orig(j) => i = j
    BY <2>2, <2>4
  <2> HIDE DEF orig
  <2>7. QED
    BY <2>2, <2>4, <2>5, <2>6
<1>3. QED
  BY <1>1, <1>2

\* Nothing is queued at first.
LEMMA InitInvariant == Init => IInv
<1> SUFFICES ASSUME Init PROVE IInv
  OBVIOUS
<1>1. TypeOK
  <2>1. queue \in Seq(Clients) /\ at \in 1 .. Len(queue) + 1 /\ locked \in BOOLEAN
    <3>1. queue = <<>> /\ Len(queue) = 0 /\ at = 1
      BY DEF Init
    <3>2. locked \in BOOLEAN
      BY Zenon DEF Init
    <3>3. QED
      BY <3>1, <3>2
  <2>2. request \in [Clients -> Requests] /\ reply \in [Clients -> Values \cup {None}]
    BY DEF Init, Requests, NoRequest
  <2>3. QED
    BY <2>1, <2>2 DEF Init, TypeOK
<1>2. NoDanglingPointer /\ IteratorIsFront /\ Counted /\ Verdicts /\ ExecutedIsNotified
  BY DEF Init, NoDanglingPointer, IteratorIsFront, Counted, Verdicts, ExecutedIsNotified
<1>3. QED
  BY <1>1, <1>2 DEF IInv

\* A handler's stretch of code, between two waits, keeps the invariant.
LEMMA HandlerInvariant ==
  ASSUME IInv, NEW c \in Clients, Handler(c)
  PROVE  IInv'
<1> USE DEF IInv
<1>1. ASSUME NEW r \in Requests, ExecuteCommand(c, r) PROVE IInv'
  <2>1. /\ queue' = Append(queue, c)
        /\ queue' \in Seq(Clients)
        /\ Len(queue') = Len(queue) + 1
        /\ DOMAIN queue' = 1 .. (Len(queue) + 1)
        /\ DOMAIN queue = 1 .. Len(queue)
        /\ queue'[Len(queue) + 1] = c
        /\ \A i \in 1 .. Len(queue) : queue'[i] = queue[i] /\ queue[i] \in Clients
    BY <1>1 DEF ExecuteCommand, TypeOK
  <2>2. \A i \in DOMAIN queue : queue[i] # c
    BY <1>1 DEF ExecuteCommand, NoDanglingPointer
  <2>3. TypeOK'
    BY <1>1, <2>1 DEF ExecuteCommand, TypeOK, emuVars
  <2>4. NoDanglingPointer'
    BY <1>1, <2>1, <2>2 DEF ExecuteCommand, TypeOK, NoDanglingPointer
  <2>5. IteratorIsFront'
    BY <1>1, <2>1, <2>2 DEF ExecuteCommand, TypeOK, IteratorIsFront, emuVars
  <2>6. Counted' /\ Verdicts' /\ ExecutedIsNotified'
    BY <1>1 DEF ExecuteCommand, TypeOK, Counted, Verdicts, ExecutedIsNotified, emuVars
  <2>7. QED
    BY <2>3, <2>4, <2>5, <2>6
<1>2. ASSUME NEW timeout \in BOOLEAN, Wake(c, timeout) PROVE IInv'
  <2>1. TypeOK'
    BY <1>2 DEF Wake, TypeOK, emuVars
  <2>2. NoDanglingPointer' /\ IteratorIsFront'
    BY <1>2 DEF Wake, TypeOK, NoDanglingPointer, IteratorIsFront, emuVars
  <2>3. Counted' /\ Verdicts' /\ ExecutedIsNotified'
    BY <1>2 DEF Wake, TypeOK, Counted, Verdicts, ExecutedIsNotified, emuVars
  <2>4. QED
    BY <2>1, <2>2, <2>3
<1>3. CASE WaitAgain(c)
  <2>1. TypeOK'
    BY <1>3 DEF WaitAgain, TypeOK, emuVars
  <2>2. NoDanglingPointer' /\ IteratorIsFront'
    BY <1>3 DEF WaitAgain, TypeOK, NoDanglingPointer, IteratorIsFront, emuVars
  <2>3. Counted' /\ Verdicts' /\ ExecutedIsNotified'
    BY <1>3 DEF WaitAgain, TypeOK, Counted, Verdicts, ExecutedIsNotified, emuVars
  <2>4. QED
    BY <2>1, <2>2, <2>3
<1>4. CASE Complete(c)
  <2>1. TypeOK'
    BY <1>4 DEF Complete, TypeOK, emuVars
  <2>2. \A i \in DOMAIN queue : queue[i] # c
    BY <1>4 DEF Complete, IteratorIsFront, TypeOK
  <2>3. NoDanglingPointer' /\ IteratorIsFront'
    BY <1>4, <2>2 DEF Complete, TypeOK, NoDanglingPointer, IteratorIsFront, emuVars
  <2>4. Counted' /\ Verdicts' /\ ExecutedIsNotified'
    BY <1>4 DEF Complete, TypeOK, Counted, Verdicts, ExecutedIsNotified, emuVars
  <2>5. QED
    BY <2>1, <2>3, <2>4
<1>5. CASE TimeOut(c)
  <2>1. /\ queue' \in Seq(Clients)
        /\ \A i \in DOMAIN queue' : queue'[i] # c /\ \E k \in DOMAIN queue : queue'[i] = queue[k]
        /\ \A i, j \in DOMAIN queue' : queue'[i] = queue'[j] => i = j
    BY <1>5, WithoutElements DEF TimeOut, TypeOK, NoDanglingPointer
  <2>2. at = 1 /\ at' = 1 /\ locked' = locked /\ done' = done
    BY <1>5 DEF TimeOut, IteratorIsFront, emuVars
  <2>3. TypeOK'
    BY <1>5, <2>1, <2>2 DEF TimeOut, TypeOK, emuVars
  <2>4. NoDanglingPointer'
    <3>1. \A i \in DOMAIN queue' : pc'[queue'[i]] # "idle"
      BY <1>5, <2>1 DEF TimeOut, TypeOK, NoDanglingPointer
    <3>2. QED
      BY <2>1, <3>1 DEF NoDanglingPointer
  <2>5. IteratorIsFront'
    <3>1. \A k \in DOMAIN queue : ~done[queue[k]]
      BY <2>2 DEF IteratorIsFront, TypeOK
    <3>2. \A i \in DOMAIN queue' : ~done'[queue'[i]] /\ ~(i < at')
      BY <2>1, <2>2, <3>1
    <3>3. QED
      BY <2>2, <3>2 DEF IteratorIsFront
  <2>6. Counted' /\ Verdicts' /\ ExecutedIsNotified'
    BY <1>5 DEF TimeOut, TypeOK, Counted, Verdicts, ExecutedIsNotified, emuVars
  <2>7. QED
    BY <2>3, <2>4, <2>5, <2>6
<1>6. QED
  BY <1>1, <1>2, <1>3, <1>4, <1>5 DEF Handler

\* So does every step of the emulation thread.
LEMMA EmulatorInvariant == IInv /\ Emulator => IInv'
<1> SUFFICES ASSUME IInv, Emulator PROVE IInv'
  OBVIOUS
<1> USE DEF IInv
<1>1. CASE Emulate
  <2>1. TypeOK'
    BY <1>1 DEF Emulate, TypeOK, clientVars
  <2>2. QED
    BY <1>1, <2>1 DEF Emulate, NoDanglingPointer, IteratorIsFront, Counted, Verdicts,
       ExecutedIsNotified, clientVars
<1>2. CASE ProcessRequests
  <2>1. TypeOK'
    BY <1>2 DEF ProcessRequests, TypeOK, clientVars
  <2>2. at' = at
    BY <1>2 DEF ProcessRequests, IteratorIsFront
  <2>3. QED
    BY <1>2, <2>1, <2>2 DEF ProcessRequests, NoDanglingPointer, IteratorIsFront, Counted,
       Verdicts, ExecutedIsNotified, clientVars
<1>3. CASE Execute
  <2> DEFINE c == queue[at]
  <2>1. /\ at \in DOMAIN queue /\ at \in Nat /\ c \in Clients
        /\ \A i \in DOMAIN queue : i \in Nat /\ queue[i] \in Clients
    BY <1>3 DEF Execute, TypeOK
  <2>2. ~done[c] /\ pc[c] # "idle" /\ \A i \in DOMAIN queue : queue[i] = c => i = at
    BY <2>1 DEF IteratorIsFront, NoDanglingPointer
  <2>3. request[c] \in Requests
    BY <2>1 DEF TypeOK
  <2>4. /\ locked /\ UNCHANGED <<locked, queue, request, pc, expired, verdict>>
        /\ at' = at + 1
        /\ word' = Performed(request[c], word)
        /\ reply' = [reply EXCEPT ![c] = Reply(request[c], word)]
        /\ done' = [done EXCEPT ![c] = TRUE]
        /\ runs' = [runs EXCEPT ![c] = @ + 1]
    BY <1>3 DEF Execute, clientVars
  <2> HIDE DEF c
  <2>5. TypeOK'
    <3>1. word' \in Values /\ reply' \in [Clients -> Values \cup {None}]
      BY <2>1, <2>3, <2>4, PerformedType DEF TypeOK
    <3>2. at' \in 1 .. Len(queue') + 1
      BY <1>3, <2>4 DEF Execute, TypeOK
    <3>3. runs' \in [Clients -> Nat] /\ done' \in [Clients -> BOOLEAN]
      BY <2>1, <2>4 DEF TypeOK
    <3>4. UNCHANGED <<locked, queue, request, pc, expired, verdict>>
      BY <2>4
    <3>5. QED
      BY <3>1, <3>2, <3>3, <3>4 DEF TypeOK
  <2>6. NoDanglingPointer'
    BY <2>4 DEF NoDanglingPointer
  <2>7. IteratorIsFront'
    <3>1. ASSUME NEW i \in DOMAIN queue PROVE done'[queue[i]] <=> i < at + 1
      BY <2>1, <2>2, <2>4 DEF IteratorIsFront, TypeOK, c
    <3>2. QED
      BY <2>4, <3>1 DEF IteratorIsFront
  <2>8. Counted' /\ Verdicts' /\ ExecutedIsNotified'
    BY <2>1, <2>2, <2>4 DEF TypeOK, Counted, Verdicts, ExecutedIsNotified
  <2>9. QED
    BY <2>5, <2>6, <2>7, <2>8
<1>4. CASE Finish
  <2>1. queue' = <<>> /\ DOMAIN queue' = {} /\ queue' \in Seq(Clients) /\ Len(queue') = 0
    BY <1>4 DEF Finish
  <2>2. TypeOK'
    <3>1. at' \in 1 .. Len(queue') + 1
      BY <1>4, <2>1 DEF Finish
    <3>2. locked' \in BOOLEAN
      BY <1>4, Zenon DEF Finish
    <3>3. pc' \in [Clients -> {"idle", "waiting", "woken"}]
      BY <1>4 DEF Finish, TypeOK
    <3>4. UNCHANGED <<word, request, done, reply, expired, runs, verdict>>
      BY <1>4 DEF Finish
    <3>5. QED
      BY <2>1, <3>1, <3>2, <3>3, <3>4 DEF TypeOK
  <2>3. NoDanglingPointer' /\ IteratorIsFront'
    BY <1>4, <2>1 DEF Finish, NoDanglingPointer, IteratorIsFront
  <2>4. Counted' /\ Verdicts' /\ ExecutedIsNotified'
    BY <1>4 DEF Finish, TypeOK, Counted, Verdicts, ExecutedIsNotified
  <2>5. QED
    BY <2>2, <2>3, <2>4
<1>5. QED
  BY <1>1, <1>2, <1>3, <1>4 DEF Emulator

\* Every step keeps the invariant.
LEMMA StepInvariant == IInv /\ [Next]_vars => IInv'
<1>1. ASSUME IInv, UNCHANGED vars PROVE IInv'
  BY <1>1 DEF IInv, TypeOK, NoDanglingPointer, IteratorIsFront, Counted, Verdicts,
     ExecutedIsNotified, vars, emuVars, clientVars
<1>2. QED
  BY <1>1, HandlerInvariant, EmulatorInvariant DEF Next

\* The invariant holds in every reachable state.
THEOREM Invariance == Spec => []IInv
  BY InitInvariant, StepInvariant, PTL DEF Spec

----------------------------------------------------------------------------
(* The theorems.                                                           *)

\* Handlers, commands and the queue keep their types: no place of a handler and no
\* command of the queue is one that bridge.cpp does not have.
THEOREM TypeCorrect == Spec => []TypeOK
<1>1. IInv => TypeOK
  BY DEF IInv
<1>2. QED
  BY <1>1, Invariance, PTL

\* The queue never holds a pointer to a command that was destroyed, nor two to
\* the same one, for any number of handlers.
THEOREM PointersAreLive == Spec => []NoDanglingPointer
<1>1. IInv => NoDanglingPointer
  BY DEF IInv
<1>2. QED
  BY <1>1, Invariance, PTL

\* An answer means that the command was executed once, an exception that it was
\* not and never will be.
THEOREM VerdictsAreTrue == Spec => []Truthful
<1>1. IInv => Truthful
  BY DEF IInv, Counted, Verdicts, Truthful
<1>2. QED
  BY <1>1, Invariance, PTL

\* No handler sleeps on after its command was executed.
THEOREM NotificationsArrive == Spec => []ExecutedIsNotified
<1>1. IInv => ExecutedIsNotified
  BY DEF IInv
<1>2. QED
  BY <1>1, Invariance, PTL
----------------------------------------------------------------------------
(* The refinement.                                                         *)

\* What the service sees of a handler.
Phase == [c \in Clients |-> IF pc[c] = "idle" THEN "idle"
                           ELSE IF done[c] THEN "performed" ELSE "open"]

\* The service and the bridge speak of the same requests.
LEMMA SameRequests ==
  /\ Service!Requests = Requests
  /\ Service!NoRequest = NoRequest
  /\ \A r, w : /\ Service!Performed(r, w) = Performed(r, w)
              /\ Service!Reply(r, w) = Reply(r, w)
  BY DEF Service!Requests, Requests, Service!NoRequest, NoRequest, Service!Performed,
     Performed, Service!Reply, Reply, Service!Reads, Reads, Service!Conflicts, Conflicts

\* A handler's stretch of code calls the service, is answered or fails, or is
\* invisible to it.
LEMMA HandlerStep ==
  ASSUME IInv, NEW c \in Clients, Handler(c)
  PROVE  Service!SNext \/ UNCHANGED <<word, Phase, request, reply, verdict>>
<1> USE DEF IInv
<1>1. ASSUME NEW r \in Requests, ExecuteCommand(c, r) PROVE Service!Call(c, r)
  BY <1>1 DEF ExecuteCommand, TypeOK, emuVars, Service!Call
<1>2. ASSUME NEW timeout \in BOOLEAN, Wake(c, timeout)
      PROVE  UNCHANGED <<word, Phase, request, reply, verdict>>
  BY <1>2 DEF Wake, TypeOK, emuVars, Phase
<1>3. CASE WaitAgain(c)
  BY <1>3 DEF WaitAgain, TypeOK, emuVars, Phase
<1>4. CASE Complete(c)
  <2>1. Service!Answer(c)
    BY <1>4 DEF Complete, TypeOK, emuVars, Service!Answer
  <2>2. QED
    BY <2>1 DEF Service!SNext
<1>5. CASE TimeOut(c)
  <2>1. Service!Fail(c)
    BY <1>5 DEF TimeOut, TypeOK, emuVars, Service!Fail
  <2>2. QED
    BY <2>1 DEF Service!SNext
<1>6. QED
  BY <1>1, <1>2, <1>3, <1>4, <1>5, SameRequests DEF Handler, Service!SNext

\* Executing a command performs its request; guest code is guest code; the rest
\* of ProcessRequests is invisible.
LEMMA EmulatorStep ==
  ASSUME IInv, Emulator
  PROVE  Service!SNext \/ UNCHANGED <<word, Phase, request, reply, verdict>>
<1> USE DEF IInv
<1>1. CASE Emulate
  BY <1>1 DEF Emulate, clientVars, Service!SNext, Service!Emulate
<1>2. CASE ProcessRequests
  BY <1>2 DEF ProcessRequests, clientVars, Phase
<1>3. CASE Execute
  <2> PICK c \in Clients : c = queue[at] /\ at \in DOMAIN queue
    BY <1>3 DEF Execute, TypeOK
  <2>2. ~done[c] /\ pc[c] # "idle"
    BY DEF IteratorIsFront, NoDanglingPointer, TypeOK
  <2>3. /\ UNCHANGED <<request, pc, verdict>>
        /\ word' = Performed(request[c], word)
        /\ reply' = [reply EXCEPT ![c] = Reply(request[c], word)]
        /\ done' = [done EXCEPT ![c] = TRUE]
    BY <1>3 DEF Execute, clientVars
  <2>4. Service!Perform(c)
    BY <2>2, <2>3, SameRequests DEF TypeOK, Service!Perform
  <2>5. QED
    BY <2>4 DEF Service!SNext
<1>4. CASE Finish
  <2>1. \A c \in Clients : (pc'[c] = "idle") <=> (pc[c] = "idle")
    BY <1>4 DEF Finish
  <2>2. UNCHANGED <<word, done, request, reply, verdict>>
    BY <1>4 DEF Finish
  <2>3. QED
    BY <2>1, <2>2 DEF Phase
<1>5. QED
  BY <1>1, <1>2, <1>3, <1>4 DEF Emulator

\* Every step of the bridge is a step of the service or none, so whatever number
\* of handlers call it, each request is performed at one moment between its call
\* and its answer, or fails and never is.
THEOREM Refinement == Spec => Service!SSafe
<1>1. Init => Service!SInit
  BY SameRequests DEF Init, Service!SInit
<1>2. IInv /\ [Next]_vars => [Service!SNext]_(Service!svars)
  <2>1. ASSUME UNCHANGED vars PROVE UNCHANGED <<word, Phase, request, reply, verdict>>
    BY <2>1 DEF vars, emuVars, clientVars, Phase
  <2>2. (UNCHANGED <<word, Phase, request, reply, verdict>>) => UNCHANGED Service!svars
    BY DEF Phase, Service!svars
  <2>3. QED
    BY <2>1, <2>2, HandlerStep, EmulatorStep DEF Next
<1>3. QED
  BY <1>1, <1>2, Invariance, PTL DEF Spec, Service!SSafe

----------------------------------------------------------------------------
(* The mutex of the clients.                                               *)

TakeRequest(c) == [data |-> c, expected |-> Free]
GiveRequest == [data |-> Free, expected |-> None]

\* What a client has asked for is what it is at.
Asked ==
  /\ mode \in [Clients -> {"out", "taking", "in", "leaving"}]
  /\ \A c \in Clients :
       /\ mode[c] \in {"out", "in"} => pc[c] = "idle"
       /\ mode[c] = "taking" => pc[c] # "idle" /\ request[c] = TakeRequest(c)
       /\ mode[c] = "leaving" =>
            IF pc[c] = "idle" THEN ~done[c] ELSE request[c] = GiveRequest

\* From the execution of the one request to that of the other, whatever the
\* client knows of it.
Owns(c) ==
  \/ mode[c] = "in"
  \/ mode[c] = "taking" /\ done[c] /\ reply[c] = None
  \/ mode[c] = "leaving" /\ ~done[c]

\* The word names the owner.
WordIsOwner == \A c \in Clients : Owns(c) <=> word = c

MInv == IInv /\ Asked /\ WordIsOwner

\* The marks of the clients, the free word and no data are all different.
LEMMA Marks ==
  /\ Free \in Values /\ Clients \subseteq Values
  /\ None \notin Values /\ Free \notin Clients
  BY FreeAssumption, NoneAssumption

\* At first everybody is out and the word is free.
LEMMA MutexInit == MInit => MInv
<1> SUFFICES ASSUME MInit PROVE MInv
  OBVIOUS
<1>1. IInv
  BY InitInvariant DEF MInit
<1>2. Asked /\ WordIsOwner
  BY Marks DEF MInit, Init, Asked, WordIsOwner, Owns
<1>3. QED
  BY <1>1, <1>2 DEF MInv

\* Every step is one of the bridge, which keeps the invariant of the bridge.
LEMMA BridgeKeeps == ASSUME IInv, MNext PROVE IInv'
<1>1. ASSUME NEW c \in Clients, Take(c) PROVE Handler(c)
  <2>1. TakeRequest(c) \in Requests
    BY Marks DEF Requests, TakeRequest
  <2>2. QED
    BY <1>1, <2>1 DEF Take, TakeRequest, Handler
<1>2. ASSUME NEW c \in Clients, Give(c) PROVE Handler(c)
  <2>1. GiveRequest \in Requests
    BY Marks DEF Requests, GiveRequest
  <2>2. QED
    BY <1>2, <2>1 DEF Give, GiveRequest, Handler
<1>3. ASSUME NEW c \in Clients, Answered(c) \/ Failed(c) PROVE Handler(c)
  BY <1>3 DEF Answered, Failed, Handler
<1>4. Unrelated => Emulator \/ \E c \in Clients : Handler(c)
  BY DEF Unrelated, Emulator, Handler
<1>5. QED
  BY <1>1, <1>2, <1>3, <1>4, HandlerInvariant, EmulatorInvariant DEF MNext

\* A client asks, is answered or is not: nobody's ownership changes.
LEMMA ClientKeeps ==
  ASSUME MInv, NEW c \in Clients, Take(c) \/ Give(c) \/ Answered(c) \/ Failed(c)
  PROVE  Asked' /\ WordIsOwner'
<1> USE DEF MInv, IInv
<1>1. CASE Take(c)
  BY <1>1 DEF Take, ExecuteCommand, Become, Asked, WordIsOwner, Owns, TakeRequest, TypeOK,
              emuVars
<1>2. CASE Give(c)
  BY <1>2 DEF Give, ExecuteCommand, Become, Asked, WordIsOwner, Owns, GiveRequest, TypeOK,
              emuVars
<1>3. CASE Answered(c)
  BY <1>3 DEF Answered, Complete, Become, Asked, WordIsOwner, Owns, TypeOK, emuVars
<1>4. CASE Failed(c)
  BY <1>4 DEF Failed, TimeOut, Become, Asked, WordIsOwner, Owns, TypeOK, emuVars
<1>5. QED
  BY <1>1, <1>2, <1>3, <1>4

\* The execution of a request is where the owner changes.
LEMMA ExecuteKeeps == ASSUME MInv, Execute, UNCHANGED mode PROVE Asked' /\ WordIsOwner'
<1> USE DEF MInv, IInv
<1> PICK c \in Clients : c = queue[at] /\ at \in DOMAIN queue
  BY DEF Execute, TypeOK
<1>1. ~done[c] /\ pc[c] # "idle"
  BY DEF IteratorIsFront, NoDanglingPointer, TypeOK
<1>2. /\ UNCHANGED <<request, pc, mode>>
      /\ word' = Performed(request[c], word)
      /\ reply' = [reply EXCEPT ![c] = Reply(request[c], word)]
      /\ done' = [done EXCEPT ![c] = TRUE]
  BY DEF Execute, clientVars
<1>3. Asked'
  BY <1>1, <1>2 DEF Asked, TypeOK
<1>4. mode[c] \in {"taking", "leaving"}
  BY <1>1 DEF Asked
<1>5. ASSUME NEW d \in Clients, d # c PROVE Owns(d)' <=> Owns(d)
  BY <1>2, <1>5 DEF Owns, TypeOK
<1>6. CASE mode[c] = "taking"
  <2>1. request[c] = TakeRequest(c) /\ ~Owns(c)
    BY <1>1, <1>6 DEF Asked, Owns
  <2>2. CASE word = Free
    <3>1. word' = c /\ reply'[c] = None
      BY <1>2, <2>1, <2>2, Marks DEF Performed, Reply, Conflicts, Reads, TakeRequest, TypeOK
    <3>2. Owns(c)'
      BY <1>2, <1>6, <3>1 DEF Owns, TypeOK
    <3>3. QED
      BY <1>3, <1>5, <2>2, <3>1, <3>2, Marks DEF WordIsOwner
  <2>3. CASE word # Free
    <3>1. word' = word /\ reply'[c] # None
      BY <1>2, <2>1, <2>3, Marks DEF Performed, Reply, Conflicts, Reads, TakeRequest, TypeOK
    <3>2. ~Owns(c)'
      BY <1>2, <1>6, <3>1 DEF Owns, TypeOK
    <3>3. QED
      BY <1>3, <1>5, <2>1, <3>1, <3>2 DEF WordIsOwner
  <2>4. QED
    BY <2>2, <2>3
<1>7. CASE mode[c] = "leaving"
  <2>1. request[c] = GiveRequest /\ word = c
    BY <1>1, <1>7 DEF Asked, Owns, WordIsOwner
  <2>2. word' = Free
    BY <1>2, <2>1, Marks DEF Performed, Conflicts, Reads, GiveRequest
  <2>3. ~Owns(c)'
    BY <1>2, <1>7 DEF Owns, TypeOK
  <2>4. QED
    BY <1>3, <1>5, <2>1, <2>2, <2>3, Marks DEF WordIsOwner
<1>8. QED
  BY <1>4, <1>6, <1>7

\* The other steps of the bridge wake handlers up and no more.
LEMMA UnrelatedKeeps == ASSUME MInv, Unrelated PROVE Asked' /\ WordIsOwner'
<1> USE DEF MInv, IInv
<1>1. CASE Execute
  BY <1>1, ExecuteKeeps DEF Unrelated
<1>2. CASE ProcessRequests
  BY <1>2 DEF Unrelated, ProcessRequests, Asked, WordIsOwner, Owns, clientVars
<1>3. CASE Finish
  <2>1. \A c \in Clients : (pc'[c] = "idle") <=> (pc[c] = "idle")
    BY <1>3 DEF Finish
  <2>2. UNCHANGED <<word, request, done, reply, mode>>
    BY <1>3 DEF Finish, Unrelated
  <2>3. QED
    BY <2>1, <2>2 DEF Asked, WordIsOwner, Owns
<1>4. ASSUME NEW c \in Clients, WaitAgain(c) \/ \E timeout \in BOOLEAN : Wake(c, timeout)
      PROVE  Asked' /\ WordIsOwner'
  <2>1. \A d \in Clients : (pc'[d] = "idle") <=> (pc[d] = "idle")
    BY <1>4 DEF WaitAgain, Wake, TypeOK
  <2>2. UNCHANGED <<word, request, done, reply, mode>>
    BY <1>4 DEF WaitAgain, Wake, emuVars, Unrelated
  <2>3. QED
    BY <2>1, <2>2 DEF Asked, WordIsOwner, Owns
<1>5. QED
  BY <1>1, <1>2, <1>3, <1>4 DEF Unrelated

\* Every step keeps the invariant of the mutex.
LEMMA MutexStep == MInv /\ [MNext]_mvars => MInv'
<1>1. ASSUME MInv, UNCHANGED mvars PROVE MInv'
  <2>1. IInv'
    BY <1>1, StepInvariant DEF MInv, mvars
  <2>2. Asked' /\ WordIsOwner'
    BY <1>1 DEF MInv, mvars, vars, emuVars, clientVars, Asked, WordIsOwner, Owns
  <2>3. QED
    BY <2>1, <2>2 DEF MInv
<1>2. ASSUME MInv, MNext PROVE MInv'
  BY <1>2, BridgeKeeps, ClientKeeps, UnrelatedKeeps DEF MInv, MNext
<1>3. QED
  BY <1>1, <1>2

\* The invariant of the mutex holds in every reachable state.
THEOREM MutexInvariant == MSpec => []MInv
  BY MutexInit, MutexStep, PTL DEF MSpec

\* Two clients never both have the mutex.
THEOREM Exclusion == MSpec => []MutualExclusion
<1>1. MInv => MutualExclusion
  BY DEF MInv, WordIsOwner, Owns, MutualExclusion
<1>2. QED
  BY <1>1, MutexInvariant, PTL

\* When everybody is out the mutex is free.
THEOREM NeverLost == MSpec => []NotLost
<1>1. MInv => NotLost
  <2>1. MInv => word \in Values
    BY DEF MInv, IInv, TypeOK
  <2>2. QED
    BY <2>1, FreeAssumption DEF MInv, WordIsOwner, Owns, NotLost
<1>2. QED
  BY <1>1, MutexInvariant, PTL
=============================================================================
