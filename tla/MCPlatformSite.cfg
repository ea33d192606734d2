SPECIFICATION Spec
CONSTANTS
  u1 = u1  u2 = u2  p1 = p1  p2 = p2  t1 = t1  None = None
  e1 = e1  e2 = e2  n1 = n1  n2 = n2
  Users = {u1, u2}  Problems = {p1, p2}  Threads = {t1}
  Emails = {e1, e2}  Names = {n1, n2}  Accounts = {}  InitSubs <- OldSubs  InitAcc <- OldAcc
  Filters = {"all", "easy"}  FirstFilter = "all"  TOP = 1
  MaxReqs = 2  MaxDays = 2  MaxSubmits = 1  MaxUngraded = 2
SYMMETRY NamesAlike
INVARIANTS SiteInv DailyAgrees ReadsAgree
CHECK_DEADLOCK FALSE
