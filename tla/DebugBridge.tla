---------------------------- MODULE DebugBridge ----------------------------
(***************************************************************************)
(* Webserver::DebugBridge (src/src/webserver/bridge.cpp): the handlers of  *)
(* the web server queue pointers to commands that live in their own stack  *)
(* frames and wait, with a timeout, for the emulation thread to execute    *)
(* them.                                                                   *)
(*                                                                         *)
(* A handler holds the mutex only between two waits, so each such stretch  *)
(* is one action; the emulation thread holds it through its whole loop,    *)
(* which is a sequence of actions during which "locked" is TRUE.           *)
(***************************************************************************)
EXTENDS MemoryRequests, Lists

VARIABLES
  word,     \* emulated memory
  locked,   \* the emulation thread is in ProcessRequests
  at,       \* its iterator
  queue,    \* the handlers whose commands are queued
  request,  \* request[c]: the command of handler c
  done,     \* its flag
  reply,    \* its response fields
  pc,       \* pc[c]: "idle", "waiting" (on cv), "woken" (wants the mutex)
  expired,  \* the timeout of handler c has passed
  runs,     \* history: how often the command of handler c was executed
  verdict   \* history: how the last call came back: "none", "ok", "timeout"

emuVars    == <<word, locked, at>>
clientVars == <<pc, expired, verdict>>
vars       == <<emuVars, queue, request, done, reply, clientVars, runs>>

TypeOK ==
  /\ word \in Values
  /\ locked \in BOOLEAN
  /\ queue \in Seq(Clients)
  /\ at \in 1 .. Len(queue) + 1
  /\ request \in [Clients -> Requests]
  /\ done \in [Clients -> BOOLEAN]
  /\ reply \in [Clients -> Values \cup {None}]
  /\ pc \in [Clients -> {"idle", "waiting", "woken"}]
  /\ expired \in [Clients -> BOOLEAN]
  /\ runs \in [Clients -> Nat]
  /\ verdict \in [Clients -> {"none", "ok", "timeout"}]

----------------------------------------------------------------------------
(* The handlers.                                                           *)

\* Construction of a command and ExecuteCommand up to its first wait.
ExecuteCommand(c, r) ==
  /\ pc[c] = "idle" /\ ~locked
  /\ request' = [request EXCEPT ![c] = r]
  /\ reply' = [reply EXCEPT ![c] = None]
  /\ done' = [done EXCEPT ![c] = FALSE]
  /\ queue' = Append(queue, c)
  /\ pc' = [pc EXCEPT ![c] = "waiting"]
  /\ expired' = [expired EXCEPT ![c] = FALSE]
  /\ runs' = [runs EXCEPT ![c] = 0]
  /\ verdict' = [verdict EXCEPT ![c] = "none"]
  /\ UNCHANGED emuVars

\* A wait ends, because the time is over or for no reason at all.
Wake(c, timeout) ==
  /\ pc[c] = "waiting"
  /\ pc' = [pc EXCEPT ![c] = "woken"]
  /\ expired' = [expired EXCEPT ![c] = timeout]
  /\ UNCHANGED <<emuVars, queue, request, done, reply, runs, verdict>>

\* Mutant: wait instead of wait_for.
WaitForever(c) ==
  /\ pc[c] = "woken" /\ ~locked
  /\ ~done[c]
  /\ pc' = [pc EXCEPT ![c] = "waiting"]
  /\ UNCHANGED <<emuVars, queue, request, done, reply, expired, runs, verdict>>

\* The mutex is taken again and the predicate is not true yet.
WaitAgain(c) ==
  /\ pc[c] = "woken" /\ ~locked
  /\ ~done[c] /\ ~expired[c]
  /\ pc' = [pc EXCEPT ![c] = "waiting"]
  /\ UNCHANGED <<emuVars, queue, request, done, reply, expired, runs, verdict>>

\* The predicate is true, whether or not the time is over.
Complete(c) ==
  /\ pc[c] = "woken" /\ ~locked
  /\ done[c]
  /\ pc' = [pc EXCEPT ![c] = "idle"]
  /\ verdict' = [verdict EXCEPT ![c] = "ok"]
  /\ UNCHANGED <<emuVars, queue, request, done, reply, expired, runs>>

Positions(c) == {i \in DOMAIN queue : queue[i] = c}

Without(c) == IF Positions(c) = {} THEN queue ELSE Erase(queue, First(Positions(c)))

\* Mutants: the exception is thrown without removing the command; it is thrown
\* although the command was executed while the handler wanted the mutex.
AbandonInQueue(c) ==
  /\ pc[c] = "woken" /\ ~locked
  /\ ~done[c] /\ expired[c]
  /\ pc' = [pc EXCEPT ![c] = "idle"]
  /\ verdict' = [verdict EXCEPT ![c] = "timeout"]
  /\ UNCHANGED <<emuVars, queue, request, done, reply, expired, runs>>

TimeOutRegardless(c) ==
  /\ pc[c] = "woken" /\ ~locked
  /\ expired[c]
  /\ queue' = Without(c)
  /\ pc' = [pc EXCEPT ![c] = "idle"]
  /\ verdict' = [verdict EXCEPT ![c] = "timeout"]
  /\ UNCHANGED <<emuVars, request, done, reply, expired, runs>>

\* The time is over first: the command is taken out of the queue before the
\* exception destroys it.
TimeOut(c) ==
  /\ pc[c] = "woken" /\ ~locked
  /\ ~done[c] /\ expired[c]
  /\ queue' = Without(c)
  /\ pc' = [pc EXCEPT ![c] = "idle"]
  /\ verdict' = [verdict EXCEPT ![c] = "timeout"]
  /\ UNCHANGED <<emuVars, request, done, reply, expired, runs>>

----------------------------------------------------------------------------
(* The emulation thread.                                                   *)

\* normal_loop executes guest code.
Emulate ==
  /\ ~locked
  /\ word' \in Values
  /\ UNCHANGED <<locked, at, queue, request, done, reply, clientVars, runs>>

ProcessRequests ==
  /\ ~locked
  /\ queue # <<>>
  /\ locked' = TRUE
  /\ at' = 1
  /\ UNCHANGED <<word, queue, request, done, reply, clientVars, runs>>

Execute ==
  /\ locked
  /\ at <= Len(queue)
  /\ LET c == queue[at]
     IN  /\ word' = Performed(request[c], word)
         /\ reply' = [reply EXCEPT ![c] = Reply(request[c], word)]
         /\ done' = [done EXCEPT ![c] = TRUE]
         /\ runs' = [runs EXCEPT ![c] = @ + 1]
  /\ at' = at + 1
  /\ UNCHANGED <<locked, queue, request, clientVars>>

\* Mutants: the queue is not cleared; only one handler is notified; the iterator
\* is used after the queue was cleared.
KeepQueue ==
  /\ locked
  /\ at > Len(queue)
  /\ locked' = FALSE
  /\ at' = 1
  /\ pc' = [c \in Clients |-> IF pc[c] = "waiting" THEN "woken" ELSE pc[c]]
  /\ UNCHANGED <<word, queue, request, done, reply, expired, runs, verdict>>
NotifyOne ==
  /\ locked
  /\ at > Len(queue)
  /\ queue' = <<>>
  /\ locked' = FALSE
  /\ at' = 1
  /\ \E c \in Clients : pc' = [pc EXCEPT ![c] = IF @ = "waiting" THEN "woken" ELSE @]
  /\ UNCHANGED <<word, request, done, reply, expired, runs, verdict>>

StaleIterator ==
  /\ locked
  /\ at > Len(queue)
  /\ queue' = <<>>
  /\ locked' = FALSE
  /\ pc' = [c \in Clients |-> IF pc[c] = "waiting" THEN "woken" ELSE pc[c]]
  /\ UNCHANGED <<word, at, request, done, reply, expired, runs, verdict>>

\* queue.clear, notify_all, unlock
Finish ==
  /\ locked
  /\ at > Len(queue)
  /\ queue' = <<>>
  /\ locked' = FALSE
  /\ at' = 1
  /\ pc' = [c \in Clients |-> IF pc[c] = "waiting" THEN "woken" ELSE pc[c]]
  /\ UNCHANGED <<word, request, done, reply, expired, runs, verdict>>

----------------------------------------------------------------------------

Init ==
  /\ word \in Values
  /\ locked = FALSE /\ at = 1
  /\ queue = <<>>
  /\ request = [c \in Clients |-> NoRequest]
  /\ done = [c \in Clients |-> FALSE]
  /\ reply = [c \in Clients |-> None]
  /\ pc = [c \in Clients |-> "idle"]
  /\ expired = [c \in Clients |-> FALSE]
  /\ runs = [c \in Clients |-> 0]
  /\ verdict = [c \in Clients |-> "none"]

Handler(c) ==
  \/ \E r \in Requests : ExecuteCommand(c, r)
  \/ \E timeout \in BOOLEAN : Wake(c, timeout)
  \/ WaitAgain(c) \/ Complete(c) \/ TimeOut(c)

Emulator == Emulate \/ ProcessRequests \/ Execute \/ Finish

Next == Emulator \/ \E c \in Clients : Handler(c)

\* Time passes, so a handler that waits again and again is timed out, and a
\* handler that wants the mutex gets it: the emulation thread, the only one to
\* hold it for long, gives it up at the end of a finite loop and runs guest code
\* without it, though it may ask for it again and again.  Nothing obliges it to
\* process requests: while the debugger is open it does not.
Fairness ==
  /\ WF_vars(Execute) /\ WF_vars(Finish)
  /\ \A c \in Clients : /\ SF_vars(Wake(c, TRUE))
                        /\ SF_vars(WaitAgain(c) \/ Complete(c) \/ TimeOut(c))

Spec == Init /\ [][Next]_vars /\ Fairness

----------------------------------------------------------------------------
(* Properties.                                                             *)

\* Every queued pointer is to a command that exists, and it is queued once:
\* ExecuteCommand does not return or throw while its command is in the queue.
NoDanglingPointer ==
  /\ \A i \in DOMAIN queue : pc[queue[i]] # "idle"
  /\ \A i, j \in DOMAIN queue : queue[i] = queue[j] => i = j

\* A handler that got its answer had its command executed once; one that got the
\* exception never has, not even later, whatever the timeout raced with.
Truthful ==
  \A c \in Clients : pc[c] = "idle" =>
    /\ verdict[c] = "ok" => runs[c] = 1
    /\ verdict[c] = "timeout" => runs[c] = 0

\* ProcessRequests leaves no handler asleep whose command it executed, so the
\* timeout is not what delivers an answer.
ExecutedIsNotified ==
  \A c \in Clients : done[c] /\ ~locked => pc[c] # "waiting"

\* Every call of ExecuteCommand returns or throws, even when the emulation
\* thread never processes requests.
AllReturn == \A c \in Clients : pc[c] # "idle" ~> pc[c] = "idle"

\* The bridge implements the service: done is when a request was performed.
Service == INSTANCE RequestService WITH
  phase <- [c \in Clients |-> IF pc[c] = "idle" THEN "idle"
                              ELSE IF done[c] THEN "performed" ELSE "open"]

ImplementsService == Service!SSpec
=============================================================================
