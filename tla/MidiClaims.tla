---------------------------- MODULE MidiClaims -----------------------------
(* What a comment in src/src/midi/soundcanvas.cpp says and the program does *)
(* not do.                                                                  *)
EXTENDS MidiSynth

\* "Keep the FIFO populated with freshly rendered buffers" (line 749): whoever
\* takes frames gets them.  A renderer that is backlogged waits for a message
\* first, also when the music has ended; the mixer thread waits for its frames
\* with mixer.mutex held, and whoever locks the mixer waits for that thread.
FifoPopulated == mixer = "pulling" ~> mixer # "pulling"
============================================================================
