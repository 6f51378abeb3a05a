\* One device, the output queue, the host's callback, muting and the end; a block
\* does not fit into the output queue twice.  A PS/1 DAC deadlocks (MixerClaims).
SPECIFICATION FairSpec
CONSTANTS
  Speakers = {}
  SoundBlasters = {sb}
  Guses = {gus}
  Ps1s = {}
  ReelMagics = {reelmagic}
  Installations = {{sb}, {gus}, {reelmagic}}
  Configured = {"On"}
  Blocksize = 2
  Room = 3
PROPERTIES LockGranted PullEnds ShutsDown CallbackReturns
CHECK_DEADLOCK FALSE
