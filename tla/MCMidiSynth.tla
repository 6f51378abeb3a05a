---------------------------- MODULE MCMidiSynth ----------------------------
(* Small instances of MidiSynth for TLC. *)
EXTENDS MidiSynth
============================================================================
