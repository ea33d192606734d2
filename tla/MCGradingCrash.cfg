SPECIFICATION Spec
CONSTANTS
  s1 = s1  s2 = s2  p1 = p1  p2 = p2
  t1 = t1  t2 = t2  t3 = t3  u1 = u1
  Users = {u1}
  Subs = {s1}  Problems = {p1}
  ProblemOf <- OneProblemOf  UserOf <- OneUserOf
  ContestSubs = {}  InWindow = {}  ContestProblems = {}  Seeded = {p1}
  TestIds = {t1, t2, t3}  InitTests <- OneInitTests2
  Outcomes = {3, 4}  MaxTries = 2  MaxCrashes = 1  MaxEdits = 1
INVARIANTS TypeOK VerdictIsEarned PassedCountIsBacked GradingNotLost
PROPERTIES PromiseKept
CHECK_DEADLOCK FALSE
