SPECIFICATION Spec
CONSTANTS
  j1 = j1  j2 = j2
  Jobs = {j1, j2}  First = j1  NumberOfRuns = 2  MaxAttempts = 2  Expected = TRUE
  Outcomes <- SomeOutcomes
  Faults = {"db", "box", "kill", "archive", "delete", "rake"}
INVARIANTS TypeOK AcceptedIsEarned FinalIsFinished SandboxIsClean NotStuck CallbackTellsRow
PROPERTIES PublishedOnce LifecycleKept
CHECK_DEADLOCK FALSE
