SPECIFICATION FairSpec
CONSTANTS
  r1 = r1  r2 = r2  r3 = r3  w1 = w1  w2 = w2
  Reqs = {r1, r2, r3}  Kind <- BatchesAndWaitKind  Size <- BatchesAndWaitSize
  Invalid = {}  Workers = {w1}  Threads = 2  MaxQueueSize = 2
  MaxBatch = 2  MaxWait = 4  MaxAttempts = 2
  Maintenance = FALSE  Enabled = {"create", "wait", "batch"}
  Faults = {"server", "delete"}  MaxRakes = 0
INVARIANTS QueueOvershoot
PROPERTIES EveryTokenEnds
CHECK_DEADLOCK FALSE
