\* Two kinds of synthesizer come and go.  A message may be due after more frames
\* than the audio queue holds, and a block does not fit into it twice.
SPECIFICATION FairSpec
CONSTANTS
  Models = {"FluidSynth", "Sound Canvas"}
  WorkRoom = 2
  AudioRoom = 3
  Blocksize = 2
  Pending = {1, 4}
INVARIANT GoneIsGone
PROPERTIES LocksReturn AudioArrives
CHECK_DEADLOCK FALSE
