\* One producer and one consumer in bulk, and a thread that starts, stops, clears
\* and resizes, also below what the queue holds.
SPECIFICATION FairSpec
CONSTANTS
  Producers = {p1}
  Consumers = {c1}
  Owners = {o1}
  Capacity = 2
  Resizes = {1, 3}
  Batches = {1, 3}
  TryBatches = {1, 2}
  Requests = {1, 3}
  SizeRange = 16
  MaxItems = 5
INVARIANTS TypeOK InOrder NothingLost NoLostWakeup
PROPERTIES CapacityKept StopEndsCalls ImplementsThreadQueue
