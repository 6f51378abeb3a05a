\* Guest code with INT3 instructions of its own, at one of the two addresses
\* rewritten by the guest; three breakpoints, interrupt breakpoints among them.
SPECIFICATION Spec
CONSTANTS
  Addrs <- MCAddrs
  BpByte = cc
  x = x
  ah = ah
  al = al
  Bytes = {cc, x}
  GuestBytes = {cc, x}
  WriteSets <- MCWritesAtZero
  Services <- MCServices
  NoAddr = NoAddr
  NoService = NoService
  BPINT_ALL = ALL
  MaxBreakpoints = 3
INVARIANTS TypeOK Transparent UnarmedAtOneAddress
PROPERTIES HitLeavesNoPatch PermanentSurvives
CONSTRAINT BooksOfOneAddress
CHECK_DEADLOCK FALSE
