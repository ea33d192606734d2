SPECIFICATION FairSpec
CONSTANTS
  s1 = s1  s2 = s2  p1 = p1  p2 = p2
  t1 = t1  t2 = t2  t3 = t3  u1 = u1
  Users = {u1}
  Subs = {s1, s2}  Problems = {p1, p2}  TestIds = {t1, t2, t3}
  ProblemOf <- TwoProblemOf  UserOf <- OneUserOf  InitTests <- ThreeInitTests
  ContestSubs = {s1, s2}  ContestProblems = {p1, p2}  Seeded = {}
  InWindow = {s1}  Outcomes = {3, 4}  MaxTries = 1  MaxCrashes = 0  MaxEdits = 0
INVARIANTS ScoreIsBacked
PROPERTIES CasesFinalLeadToVerdict
CHECK_DEADLOCK FALSE
