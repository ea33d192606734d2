SPECIFICATION Spec
CONSTANTS
  Langs = {63, 71}  WithStarter = {63}
  MaxOpens = 2  MaxSubs = 2  MaxTyped = 1  MaxClicks = 3
INVARIANTS PagesInv ShownIsLatest DraftsKept
PROPERTIES PollingEnds
CHECK_DEADLOCK FALSE
