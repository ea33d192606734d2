SPECIFICATION Spec
CONSTANTS
  r1 = r1  r2 = r2  r3 = r3  w1 = w1  w2 = w2
  Reqs = {r1, r2}  Kind <- BatchAndWaitKind  Size <- BatchAndWaitSize  Invalid <- SecondInvalid
  Workers = {w1, w2}  Threads = 2  MaxQueueSize = 3
  MaxBatch = 2  MaxWait = 7  MaxAttempts = 2
  Maintenance = FALSE  Enabled = {"create", "wait", "batch"}
  Faults = {"db", "redis", "server", "worker", "rake", "delete"}  MaxRakes = 1
INVARIANTS TypeOK JobAccounted OneJobEach WaitAnswersResult WaitIsShort
PROPERTIES LifecycleKept
SYMMETRY WorkersAlike
CHECK_DEADLOCK FALSE
