SPECIFICATION FairSpec
CONSTANTS
  s1 = s1  s2 = s2  p1 = p1  p2 = p2
  t1 = t1  t2 = t2  t3 = t3  u1 = u1
  Users = {u1}
  Subs = {s1}  Problems = {p1}
  ProblemOf <- OneProblemOf  UserOf <- OneUserOf
  ContestSubs = {}  InWindow = {}  ContestProblems = {}  Seeded = {}
  TestIds = {t1}  InitTests <- OneInitTests1
  Outcomes = {3}  MaxTries = 3  MaxCrashes = 0  MaxEdits = 0
PROPERTIES RunningIsGraded
CHECK_DEADLOCK FALSE
