-------------------------------- MODULE Grader --------------------------------
(***************************************************************************)
(* The verdict algebra of the grading platform                             *)
(* (platform/backend/src/lib/grader.ts): how a Judge0 status becomes a     *)
(* verdict of one test case and how the verdicts of all test cases become  *)
(* the verdict of the submission.                                          *)
(***************************************************************************)
EXTENDS Naturals

\* The SubmissionStatus enumeration of the database.
FinalVerdicts    == {"AC", "WA", "TLE", "MLE", "RE", "CE", "IE"}
SubmissionStatus == FinalVerdicts \cup {"PENDING", "RUNNING"}

RANK == [v \in SubmissionStatus |->
           CASE v = "AC"      -> 0 [] v = "PENDING" -> 1 [] v = "RUNNING" -> 2
             [] v = "WA"      -> 3 [] v = "TLE"     -> 4 [] v = "MLE"     -> 5
             [] v = "RE"      -> 6 [] v = "CE"      -> 7 [] v = "IE"      -> 8]

IsFinalVerdict(v) == v \notin {"PENDING", "RUNNING"}

\* v is the worst member of S.
IsWorst(v, S) == v \in S /\ \A w \in S : RANK[w] <= RANK[v]

\* The code reduces a list; the ranks are pairwise different, so the order of
\* the list and its repetitions do not matter and a set stands for it
\* (GraderReduce relates the two).
CombineVerdicts(S) ==
  IF S = {} THEN "PENDING" ELSE CHOOSE v \in S \cup {"AC"} : IsWorst(v, S \cup {"AC"})

\* Judge0 status ids (Mirror of app/enumerations/status.rb).
J0Final == 3..14

Judge0StatusToVerdict(id) ==
  CASE id \in {1, 2}           -> "RUNNING"
    [] id = 3                  -> "AC"
    [] id = 4                  -> "WA"
    [] id = 5                  -> "TLE"
    [] id = 6                  -> "CE"
    [] id \in (7..12) \cup {14} -> "RE"
    [] OTHER                   -> "IE"
===============================================================================
