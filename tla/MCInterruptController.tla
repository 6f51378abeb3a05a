---------------------- MODULE MCInterruptController ------------------------
(* Instances of InterruptController for TLC.                               *)
EXTENDS InterruptController

\* The timer and another device on the primary controller, the real-time
\* clock and another device on the secondary one.
ATLines == [c \in Controllers |-> IF c = "primary" THEN {0, 2, 3} ELSE {0, 1}]

NoLines == [c \in Controllers |-> {}]

\* The guest has not begun to reprogram the primary controller, or no device has
\* used line 2: a state with both is reached and checked, and not followed any
\* further.
OneOfTwo == shared => icw["primary"].words = 0
============================================================================
