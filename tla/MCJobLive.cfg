SPECIFICATION FairSpec
CONSTANTS
  j1 = j1  j2 = j2
  Jobs = {j1, j2}  First = j1  NumberOfRuns = 2  MaxAttempts = 2  Expected = TRUE
  Outcomes <- AllOutcomes
  Faults = {"box", "rake"}
PROPERTIES EndsWithVerdict
CHECK_DEADLOCK FALSE
