--------------------------- MODULE MemoryRequests ---------------------------
(***************************************************************************)
(* What a command of the web server asks of emulated memory, and what its  *)
(* Execute does (src/src/webserver/memory.cpp).  Memory is one word.       *)
(***************************************************************************)
EXTENDS Naturals, Sequences, FiniteSets

CONSTANTS
  Clients,  \* threads of the web server, one handler each at a time
  Values,   \* what the word can hold
  None      \* no data (a read), no condition (no If-Match), no conflict

ASSUME NoneAssumption == None \notin Values

Requests == [data : Values \cup {None}, expected : Values \cup {None}]

NoRequest == [data |-> None, expected |-> None]

Reads(r) == r.data = None

Conflicts(r, word) == ~Reads(r) /\ r.expected \notin {None, word}

\* Mutant: the expected data is not compared.
PerformedUnconditionally(r, word) == IF Reads(r) THEN word ELSE r.data

\* the word after the command
Performed(r, word) == IF Reads(r) \/ Conflicts(r, word) THEN word ELSE r.data

\* what the command brings back: the word it read, or the conflict it found
Reply(r, word) == IF Reads(r) \/ Conflicts(r, word) THEN word ELSE None
=============================================================================
