--------------------------- MODULE MCDebugBridge ---------------------------
(***************************************************************************)
(* A small instance of the bridge for TLC.  Its handlers are either those  *)
(* of DebugBridge, with requests of every kind beside a guest that writes, *)
(* or those of the clients of GuestMutex, for the whole behaviour.         *)
(***************************************************************************)
EXTENDS GuestMutex

CONSTANTS c1, c2, c3

MCValues == Clients \cup {Free}

\* the handlers are no clients of the mutex
NoMutex == mode = [c \in Clients |-> "none"]

\* bounds: two of them make requests, for two values
Callers == {c1, c2}
BridgeRequests == [data : Callers \cup {None}, expected : Callers \cup {None}]

BridgeInit ==
  /\ Init
  /\ word \in Callers
  /\ NoMutex

BridgeNext ==
  /\ NoMutex
  /\ Next
  /\ word' \in Callers
  /\ \A c \in Clients : /\ pc'[c] # "idle" => c \in Callers
                        /\ request'[c] \in BridgeRequests
  /\ UNCHANGED mode

MutexNext == ~NoMutex /\ MNext

MCNext == BridgeNext \/ MutexNext

MCSpec == (BridgeInit \/ MInit) /\ [][MCNext]_mvars /\ Fairness
============================================================================
