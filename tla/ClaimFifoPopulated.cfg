\* A Sound Canvas.
SPECIFICATION FairSpec
CONSTANTS
  Models = {"Sound Canvas"}
  WorkRoom = 2
  AudioRoom = 3
  Blocksize = 2
  Pending = {1}
PROPERTY FifoPopulated
CHECK_DEADLOCK FALSE
