--------------------------- MODULE RequestService ---------------------------
(***************************************************************************)
(* What the web server's handlers expect of the bridge to the emulator: a  *)
(* request is performed once, at one moment between its call and its       *)
(* answer, or the handler is told of a failure and it is never performed.  *)
(***************************************************************************)
EXTENDS MemoryRequests

VARIABLES
  word,     \* emulated memory
  phase,    \* phase[c]: "idle", "open" (called), "performed"
  request,  \* request[c]: what client c asked last
  reply,    \* reply[c]: what it brought back, once performed
  verdict   \* verdict[c]: what client c was told: "none", "ok", "timeout"

svars == <<word, phase, request, reply, verdict>>

SInit ==
  /\ word \in Values
  /\ phase = [c \in Clients |-> "idle"]
  /\ request = [c \in Clients |-> NoRequest]
  /\ reply = [c \in Clients |-> None]
  /\ verdict = [c \in Clients |-> "none"]

Call(c, r) ==
  /\ phase[c] = "idle"
  /\ phase' = [phase EXCEPT ![c] = "open"]
  /\ request' = [request EXCEPT ![c] = r]
  /\ reply' = [reply EXCEPT ![c] = None]
  /\ verdict' = [verdict EXCEPT ![c] = "none"]
  /\ UNCHANGED word

Perform(c) ==
  /\ phase[c] = "open"
  /\ phase' = [phase EXCEPT ![c] = "performed"]
  /\ word' = Performed(request[c], word)
  /\ reply' = [reply EXCEPT ![c] = Reply(request[c], word)]
  /\ UNCHANGED <<request, verdict>>

\* the handler gets the reply
Answer(c) ==
  /\ phase[c] = "performed"
  /\ phase' = [phase EXCEPT ![c] = "idle"]
  /\ verdict' = [verdict EXCEPT ![c] = "ok"]
  /\ UNCHANGED <<word, request, reply>>

\* the handler gets an exception
Fail(c) ==
  /\ phase[c] = "open"
  /\ phase' = [phase EXCEPT ![c] = "idle"]
  /\ verdict' = [verdict EXCEPT ![c] = "timeout"]
  /\ UNCHANGED <<word, request, reply>>

\* the emulated program writes the word
Emulate ==
  /\ word' \in Values
  /\ UNCHANGED <<phase, request, reply, verdict>>

SNext ==
  \/ Emulate
  \/ \E c \in Clients : Perform(c) \/ Answer(c) \/ Fail(c)
  \/ \E c \in Clients, r \in Requests : Call(c, r)

SSafe == SInit /\ [][SNext]_svars

\* Every call comes back.
SSpec ==
  /\ SSafe
  /\ \A c \in Clients : WF_svars(Answer(c) \/ Fail(c))
=============================================================================
