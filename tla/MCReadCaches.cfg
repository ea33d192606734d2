SPECIFICATION Spec
CONSTANTS
  Duration <- Lasts
  Slow = 1  MaxVer = 1  MaxReqs = 2  MaxKept = 2
PROPERTIES AnswersAreRecent NoStepBack InvalidateIsFresh
CHECK_DEADLOCK FALSE
