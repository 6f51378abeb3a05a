SPECIFICATION Spec
CONSTANTS
  Addrs <- MCAddrs
  BpByte = cc
  x = x
  ah = ah
  al = al
  Bytes = {cc, x}
  GuestBytes = {cc, x}
  WriteSets <- MCWritesAtZero
  Services <- MCServices
  NoAddr = NoAddr
  NoService = NoService
  BPINT_ALL = ALL
  MaxBreakpoints = 3
INVARIANT NoOrphanPatch
CHECK_DEADLOCK FALSE
