\* A consumer asks a queue that was stopped with items in it.
SPECIFICATION ClaimSpec
CONSTANTS
  Producers = {p1}
  Consumers = {c1}
  Owners = {o1}
  Capacity = 2
  Resizes = {1, 3}
  Batches = {1, 3}
  TryBatches = {1, 2}
  Requests = {1, 3}
  SizeRange = 16
  MaxItems = 5
PROPERTIES StoppedDequeuesNothing
