\* Two handlers with every request, liveness and refinement; three clients of
\* the mutex.
SPECIFICATION MCSpec
CONSTANTS
  c1 = c1
  c2 = c2
  c3 = c3
  Clients = {c1, c2, c3}
  Values <- MCValues
  Free = Free
  None = None
INVARIANTS TypeOK NoDanglingPointer Truthful ExecutedIsNotified MutualExclusion NotLost
PROPERTIES AllReturn ImplementsService
