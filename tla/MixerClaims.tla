---------------------------- MODULE MixerClaims ----------------------------
(* What comments in src/src/audio/mixer.cpp say and the program does not do. *)
EXTENDS MixerThread

\* "The mixer thread can be waiting on the main thread to produce audio in
\* these queues. We need to stop them before aquiring a mutex lock to avoid a
\* deadlock" (lines 272-274): locking does not deadlock.  The PS/1 and Tandy DAC
\* are locked when their pointer is gone, so that their queues are not stopped.
NoDeadlock == script # <<>> /\ Head(script).op = "lock" ~> holder = "main"
============================================================================
