SPECIFICATION Spec
CONSTANTS
  p1 = p1  p2 = p2  p3 = p3  one = one  two = two  tagA = tagA
  Ids = {p1, p2, p3}  Initial = {p1, p2}  InitForm <- OldForms
  Slugs = {one, two}  Langs = {63, 71}  TagNames = {tagA}
  MaxReqs = 2  MaxItems = 2
  Tabs = {1, 2}  MaxMoves <- Moves32
INVARIANTS PagesInv SaveReplaces SaveIsWhole
PROPERTIES FailureExplained SaveIsAnswered
CHECK_DEADLOCK FALSE
