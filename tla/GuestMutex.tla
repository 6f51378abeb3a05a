----------------------------- MODULE GuestMutex -----------------------------
(***************************************************************************)
(* The mutex that a comment on WriteMemCommand (src/src/webserver/         *)
(* memory.h) says a conditional write can implement: clients of the web    *)
(* server take it by replacing "Free" by their own mark and give it up by  *)
(* writing "Free".  A request that times out was not made: the client asks *)
(* again.  The emulated program does not touch the word.                   *)
(***************************************************************************)
EXTENDS DebugBridge

CONSTANT Free  \* the word when nobody has the mutex

ASSUME FreeAssumption ==
  /\ Free \notin Clients \cup {None}
  /\ Values = Clients \cup {Free}

VARIABLE mode  \* mode[c]: what c is at, "out", "taking", "in" or "leaving"

mvars == <<vars, mode>>

Become(c, m) == mode' = [mode EXCEPT ![c] = m]

Take(c) ==
  /\ mode[c] = "out"
  /\ ExecuteCommand(c, [data |-> c, expected |-> Free])
  /\ Become(c, "taking")

Give(c) ==
  /\ mode[c] \in {"in", "leaving"}
  /\ ExecuteCommand(c, [data |-> Free, expected |-> None])
  /\ Become(c, "leaving")

\* the answer: the mutex was taken unless there was a conflict
Answered(c) ==
  /\ Complete(c)
  /\ Become(c, IF mode[c] = "taking" /\ reply[c] = None THEN "in" ELSE "out")

Failed(c) ==
  /\ TimeOut(c)
  /\ Become(c, IF mode[c] = "taking" THEN "out" ELSE mode[c])

Unrelated ==
  /\ \/ ProcessRequests \/ Execute \/ Finish
     \/ \E c \in Clients : WaitAgain(c) \/ \E timeout \in BOOLEAN : Wake(c, timeout)
  /\ UNCHANGED mode

MInit ==
  /\ Init
  /\ word = Free
  /\ mode = [c \in Clients |-> "out"]

MNext ==
  \/ Unrelated
  \/ \E c \in Clients : Take(c) \/ Give(c) \/ Answered(c) \/ Failed(c)

MSpec == MInit /\ [][MNext]_mvars

\* Two clients never both have the mutex, and the word says who has it.
MutualExclusion ==
  /\ \A c, d \in Clients : mode[c] = "in" /\ mode[d] = "in" => c = d
  /\ \A c \in Clients : mode[c] = "in" => word = c

\* The mutex is not lost: when nobody has it, asks for it or is giving it up, it
\* is free.  A timeout that hid an executed command would lose it.
NotLost == (\A c \in Clients : mode[c] = "out") => word = Free
============================================================================
