\* Three devices come and go, nested locks included; the mix is discarded, which
\* leaves the mixer thread no time between two locks.
SPECIFICATION Spec
CONSTANTS
  Speakers = {speaker}
  SoundBlasters = {sb}
  Guses = {gus}
  Ps1s = {ps1}
  ReelMagics = {reelmagic}
  Installations = {{speaker, gus, ps1}, {sb, ps1, reelmagic}}
  Configured = {"NoSound"}
  Blocksize = 1
  Room = 1
INVARIANTS TypeOK OnlyLiveDevices BackToNormal
PROPERTIES NoGap
CHECK_DEADLOCK FALSE
