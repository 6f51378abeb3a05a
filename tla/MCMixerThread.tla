--------------------------- MODULE MCMixerThread ---------------------------
(* Small instances of MixerThread for TLC. *)
EXTENDS MixerThread
============================================================================
