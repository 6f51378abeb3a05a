\* One PS/1 DAC.
SPECIFICATION FairSpec
CONSTANTS
  Speakers = {}
  SoundBlasters = {}
  Guses = {}
  Ps1s = {ps1}
  ReelMagics = {}
  Installations = {{ps1}}
  Configured = {"On"}
  Blocksize = 1
  Room = 2
PROPERTY NoDeadlock
CHECK_DEADLOCK FALSE
