--------------------------- MODULE RWQueueClaims ---------------------------
(* What a comment says of RWQueue that its code does not keep. *)
EXTENDS MCRWQueue

VARIABLE late  \* history: the consumers whose call began after the queue was stopped

ClaimInit == Init /\ late = {}

ClaimNext ==
  /\ Next
  /\ late' = IF is_running' THEN {}
             ELSE {c \in Consumers : IF pc[c] = "idle" THEN pc'[c] = "enter" ELSE c \in late}

ClaimSpec == ClaimInit /\ [][ClaimNext]_<<vars, late>>

\* "If queuing was stopped prior to bulk dequeueing then this immediately
\* returns with a value of 0 and no items dequeued" (src/src/utils/rwqueue.h,
\* lines 136-137).  BulkDequeue drains the queue first.
StoppedDequeuesNothing ==
  [][\A c \in late : received'[c] = received[c]]_<<vars, late>>
============================================================================
