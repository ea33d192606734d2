------------------------ MODULE PlatformGrading_proofs ------------------------
(***************************************************************************)
(* Theorems about PlatformGrading, for every value of its constants.       *)
(***************************************************************************)
EXTENDS PlatformGrading, FiniteSetTheorems, TLAPS

-------------------------------------------------------------------------------
(* The verdict algebra of Grader.                                          *)

\* The ranks of the table RANK, spelled out.
LEMMA Ranks ==
  /\ RANK["AC"] = 0 /\ RANK["PENDING"] = 1 /\ RANK["RUNNING"] = 2
  /\ RANK["WA"] = 3 /\ RANK["TLE"] = 4 /\ RANK["MLE"] = 5
  /\ RANK["RE"] = 6 /\ RANK["CE"] = 7 /\ RANK["IE"] = 8
  BY DEF RANK, SubmissionStatus, FinalVerdicts

\* Every non-empty set of verdicts has a worst one.
LEMMA WorstExists ==
  ASSUME NEW S \in SUBSET SubmissionStatus, S # {}
  PROVE  \E v \in S : IsWorst(v, S)
<1> USE Ranks DEF SubmissionStatus, FinalVerdicts, IsWorst
<1>1. CASE "IE" \in S
  BY <1>1
<1>2. CASE "IE" \notin S /\ "CE" \in S
  BY <1>2
<1>3. CASE {"IE", "CE"} \cap S = {} /\ "RE" \in S
  BY <1>3
<1>4. CASE {"IE", "CE", "RE"} \cap S = {} /\ "MLE" \in S
  BY <1>4
<1>5. CASE {"IE", "CE", "RE", "MLE"} \cap S = {} /\ "TLE" \in S
  BY <1>5
<1>6. CASE {"IE", "CE", "RE", "MLE", "TLE"} \cap S = {} /\ "WA" \in S
  BY <1>6
<1>7. CASE {"IE", "CE", "RE", "MLE", "TLE", "WA"} \cap S = {} /\ "RUNNING" \in S
  BY <1>7
<1>8. CASE S \subseteq {"AC", "PENDING"} /\ "PENDING" \in S
  BY <1>8
<1>9. CASE S = {"AC"}
  BY <1>9
<1>10. QED
  BY <1>1, <1>2, <1>3, <1>4, <1>5, <1>6, <1>7, <1>8, <1>9

\* What combineVerdicts returns on a non-empty list.
LEMMA CombineIsWorst ==
  ASSUME NEW S \in SUBSET SubmissionStatus, S # {}
  PROVE  IsWorst(CombineVerdicts(S), S \cup {"AC"})
<1> DEFINE T == S \cup {"AC"}
<1>1. T \in SUBSET SubmissionStatus /\ T # {}
  BY DEF SubmissionStatus, FinalVerdicts
<1>2. \E v \in T : IsWorst(v, T)
  BY <1>1, WorstExists
<1>3. CombineVerdicts(S) = CHOOSE v \in T : IsWorst(v, T)
  BY DEF CombineVerdicts
<1> QED
  BY <1>2, <1>3

\* combineVerdicts returns a status.
LEMMA CombineType ==
  ASSUME NEW S \in SUBSET SubmissionStatus
  PROVE  CombineVerdicts(S) \in SubmissionStatus
<1>1. CASE S = {}
  BY <1>1 DEF CombineVerdicts, SubmissionStatus
<1>2. CASE S # {}
  BY <1>2, CombineIsWorst DEF IsWorst, SubmissionStatus, FinalVerdicts
<1> QED
  BY <1>1, <1>2

\* combineVerdicts never turns finished cases into an unfinished submission.
LEMMA CombineFinal ==
  ASSUME NEW S \in SUBSET FinalVerdicts, S # {}
  PROVE  CombineVerdicts(S) \in FinalVerdicts
  BY CombineIsWorst DEF IsWorst, SubmissionStatus, FinalVerdicts

\* "AC only if all AC".
LEMMA CombineAccepts ==
  ASSUME NEW S \in SUBSET SubmissionStatus, S # {}
  PROVE  CombineVerdicts(S) = "AC" <=> S = {"AC"}
<1>1. IsWorst(CombineVerdicts(S), S \cup {"AC"})
  BY CombineIsWorst
<1>2. \A v \in SubmissionStatus : RANK[v] <= 0 => v = "AC"
  BY Ranks DEF SubmissionStatus, FinalVerdicts
<1> QED
  BY <1>1, <1>2, Ranks DEF IsWorst

\* Every status Judge0 reports has a verdict, and the finished ones a final one.
LEMMA VerdictType ==
  ASSUME NEW id \in 1..14
  PROVE  /\ Judge0StatusToVerdict(id) \in SubmissionStatus
         /\ id \in J0Final => Judge0StatusToVerdict(id) \in FinalVerdicts
  BY DEF Judge0StatusToVerdict, SubmissionStatus, FinalVerdicts, J0Final

-------------------------------------------------------------------------------
CaseValue == SubmissionStatus \cup {"none"}
CaseTable == [Subs -> [TestIds -> CaseValue]]
JobTable  == [Subs -> [TestIds -> JobRec]]
CallTable == [Subs -> [TestIds -> [Tries -> CallRec]]]

-------------------------------------------------------------------------------
(* What an assignment to one entry of a table does.                        *)

\* Sets of tests are finite, so the counts shown to the user are numbers.
LEMMA CountType ==
  ASSUME NEW S \in SUBSET TestIds
  PROVE  IsFiniteSet(S) /\ Cardinality(S) \in Nat
  BY GradingAssumption, FS_Subset, FS_CardinalityType

\* The assumptions on the constants that the steps below need.
LEMMA Bounds ==
  /\ MaxTries \in Nat /\ MaxTries # 0 /\ Tries = 1..MaxTries
  /\ Outcomes \subseteq 3..14
  BY GradingAssumption DEF Tries, J0Final

\* Counting a try of call_callback keeps a job a job.
LEMMA JobTried ==
  ASSUME NEW r \in JobRec, NEW n \in 0..MaxTries
  PROVE  /\ [r EXCEPT !.tries = n] \in JobRec
         /\ [r EXCEPT !.tries = n, !.conn = TRUE] \in JobRec
  BY DEF JobRec

\* Ending a job, or the tries of its callback, keeps a job a job.
LEMMA JobEnded ==
  ASSUME NEW r \in JobRec, NEW st \in JobState
  PROVE  /\ \A id \in 1..14 : [r EXCEPT !.st = st, !.id = id] \in JobRec
         /\ [r EXCEPT !.st = st, !.conn = FALSE] \in JobRec
         /\ [r EXCEPT !.st = st] \in JobRec
  BY DEF JobRec

\* One job of the table is replaced.
LEMMA JobSet ==
  ASSUME NEW j \in JobTable, NEW s \in Subs, NEW t \in TestIds, NEW r \in JobRec
  PROVE  LET j2 == [j EXCEPT ![s][t] = r] IN
         /\ j2 \in JobTable
         /\ \A s1 \in Subs, t1 \in TestIds :
              j2[s1][t1] = IF s1 = s /\ t1 = t THEN r ELSE j[s1][t1]
  BY DEF JobTable

\* One SubmissionCase row is replaced.
LEMMA CaseSet ==
  ASSUME NEW c \in CaseTable, NEW s \in Subs, NEW t \in TestIds, NEW v \in CaseValue
  PROVE  LET c2 == [c EXCEPT ![s][t] = v] IN
         /\ c2 \in CaseTable
         /\ \A s1 \in Subs, t1 \in TestIds :
              c2[s1][t1] = IF s1 = s /\ t1 = t THEN v ELSE c[s1][t1]
  BY DEF CaseTable

\* One callback request is replaced.
LEMMA CallSet ==
  ASSUME NEW c \in CallTable, NEW s \in Subs, NEW t \in TestIds, NEW k \in Tries,
         NEW r \in CallRec
  PROVE  LET c2 == [c EXCEPT ![s][t][k] = r] IN
         /\ c2 \in CallTable
         /\ \A s1 \in Subs, t1 \in TestIds, k1 \in Tries :
              c2[s1][t1][k1] = IF s1 = s /\ t1 = t /\ k1 = k THEN r ELSE c[s1][t1][k1]
  BY DEF CallTable

\* A submit request moves on and keeps the tests it read.
LEMMA SubmitPcSet ==
  ASSUME NEW r \in SubmitRec, NEW pc \in SubmitPc
  PROVE  /\ [r EXCEPT !.pc = pc] \in SubmitRec
         /\ [r EXCEPT !.pc = pc].pc = pc
         /\ [r EXCEPT !.pc = pc].snap = r.snap
  BY DEF SubmitRec

\* The same, for the step of one submit request.
LEMMA SubmitMoves ==
  ASSUME TypeOK, NEW s \in Subs, NEW pc \in SubmitPc,
         submit' = [submit EXCEPT ![s] = [submit[s] EXCEPT !.pc = pc]]
  PROVE  submit'[s].pc = pc /\ submit'[s].snap = submit[s].snap
<1>1. submit[s] \in SubmitRec /\ submit'[s] = [submit[s] EXCEPT !.pc = pc]
  BY DEF TypeOK
<1> QED
  BY <1>1 DEF SubmitRec

\* A callback handler moves on and keeps its locals.
LEMMA CallPcSet ==
  ASSUME NEW r \in CallRec, NEW pc \in CallPc
  PROVE  /\ [r EXCEPT !.pc = pc] \in CallRec
         /\ [r EXCEPT !.pc = pc].pc = pc
         /\ [r EXCEPT !.pc = pc].allDone = r.allDone
         /\ [r EXCEPT !.pc = pc].overall = r.overall
         /\ [r EXCEPT !.pc = pc].passed = r.passed
  BY DEF CallRec

\* A fresh callback request is well typed.
LEMMA CallType ==
  ASSUME NEW pc \in CallPc
  PROVE  Call(pc) \in CallRec /\ Call(pc).pc = pc
  BY DEF Call, CallRec, SubmissionStatus

\* The program counters the actions assign.
LEMMA PcTypes ==
  /\ {"idle", "done", "dead", "find", "update", "reread", "write", "score", "upsert"}
       \subseteq CallPc
  /\ {"idle", "done", "failed", "read", "created", "accepted"} \subseteq SubmitPc
  BY DEF CallPc, Serving, SubmitPc, InFlight

-------------------------------------------------------------------------------
(* Type correctness.                                                       *)

\* The death of the process keeps the types.
LEMMA ProcessDiesType == TypeOK /\ ProcessDies => TypeOK'
<1> SUFFICES ASSUME TypeOK, ProcessDies PROVE TypeOK'
  OBVIOUS
<1>1. submit' \in [Subs -> SubmitRec]
  BY SubmitPcSet, PcTypes DEF TypeOK, ProcessDies
<1>2. \A r \in JobRec : [r EXCEPT !.conn = FALSE] \in JobRec
  BY DEF JobRec
<1>3. job' \in [Subs -> [TestIds -> JobRec]]
  BY <1>2 DEF TypeOK, ProcessDies
<1>4. call' \in [Subs -> [TestIds -> [Tries -> CallRec]]]
  BY CallType, PcTypes DEF TypeOK, ProcessDies
<1> QED
  <2>1. up' \in BOOLEAN
    BY DEF ProcessDies
  <2>2. crashes' \in Nat
    BY DEF ProcessDies, TypeOK
  <2> QED
    BY <1>1, <1>3, <1>4, <2>1, <2>2 DEF TypeOK, ProcessDies, submissionRow

\* Answering a callback keeps the types.
LEMMA RespondType ==
  ASSUME TypeOK, NEW s \in Subs, NEW t \in TestIds, NEW k \in Tries,
         NEW outcome \in {"ok", "notFound"}, Respond(s, t, k, outcome)
  PROVE  job' \in JobTable /\ call' \in CallTable
<1>1. job \in JobTable /\ call \in CallTable
  BY DEF TypeOK, JobTable, CallTable
<1>2. call' \in CallTable
  BY <1>1, CallSet, CallType, PcTypes DEF Respond
<1>3. [job[s][t] EXCEPT !.st = outcome, !.conn = FALSE] \in JobRec
  <2>1. job[s][t] \in JobRec
    BY <1>1 DEF JobTable
  <2> QED
    BY <2>1 DEF JobRec, JobState
<1>4. job' \in JobTable
  BY <1>1, <1>3, JobSet DEF Respond
<1> QED
  BY <1>2, <1>4

\* The initial state is well typed.
LEMMA TypeInit == Init => TypeOK
<1> SUFFICES ASSUME Init PROVE TypeOK
  OBVIOUS
<1>1. Call("idle") \in CallRec
  BY CallType, PcTypes
<1>2. NoJob \in JobRec
  BY GradingAssumption DEF NoJob, JobRec, JobState
<1>3. [pc |-> "idle", snap |-> {}] \in SubmitRec
  BY DEF SubmitRec, SubmitPc
<1> QED
  BY <1>1, <1>2, <1>3, GradingAssumption DEF Init, TypeOK

\* Every step keeps the types: one step of the proof per action.
LEMMA TypeStep == TypeOK /\ [Next]_vars => TypeOK'
<1> SUFFICES ASSUME TypeOK, [Next]_vars PROVE TypeOK'
  OBVIOUS
<1>tab. job \in JobTable /\ call \in CallTable /\ submit \in [Subs -> SubmitRec]
  BY DEF TypeOK, JobTable, CallTable
<1>job. \A s \in Subs, t \in TestIds : job[s][t] \in JobRec
  BY <1>tab DEF JobTable
<1>call. \A s \in Subs, t \in TestIds, k \in Tries : call[s][t][k] \in CallRec
  BY <1>tab DEF CallTable
<1> USE DEF submissionRow
<1>1. ASSUME NEW s \in Subs, SubmitRead(s) PROVE TypeOK'
  <2>1. \A ts \in SUBSET TestIds : /\ [pc |-> "failed", snap |-> {}] \in SubmitRec
                                   /\ [pc |-> "read", snap |-> ts] \in SubmitRec
    BY PcTypes DEF SubmitRec
  <2>2. tests[ProblemOf[s]] \in SUBSET TestIds
    BY GradingAssumption DEF TypeOK
  <2>3. submit' \in [Subs -> SubmitRec]
    BY <1>1, <1>tab, <2>1, <2>2 DEF SubmitRead
  <2> QED
    BY <1>1, <2>3 DEF SubmitRead, TypeOK
<1>2. ASSUME NEW s \in Subs, SubmitCreate(s) PROVE TypeOK'
  <2>1. submit[s].snap \in SUBSET TestIds
    BY <1>tab DEF SubmitRec
  <2>2. Cardinality(submit[s].snap) \in Nat
    BY <2>1, CountType
  <2>3. submit' \in [Subs -> SubmitRec]
    BY <1>2, <1>tab, SubmitPcSet, PcTypes DEF SubmitCreate
  <2>4. status' \in [Subs -> SubmissionStatus \cup {"none"}]
    BY <1>2 DEF SubmitCreate, TypeOK, SubmissionStatus
  <2>5. passedCount' \in [Subs -> Nat]
    <3>1. passedCount' = [passedCount EXCEPT ![s] = 0] \/ passedCount' = passedCount
      BY <1>2 DEF SubmitCreate
    <3>2. passedCount \in [Subs -> Nat]
      BY DEF TypeOK
    <3> QED
      BY <3>1, <3>2
  <2>6. totalCount' \in [Subs -> Nat]
    <3> DEFINE n == Cardinality(submit[s].snap)
    <3>1. totalCount' = [totalCount EXCEPT ![s] = n] \/ totalCount' = totalCount
      BY <1>2 DEF SubmitCreate
    <3>2. n \in Nat
      BY <2>2
    <3> HIDE DEF n
    <3> QED
      BY <3>1, <3>2 DEF TypeOK
  <2> QED
    BY <1>2, <2>3, <2>4, <2>5, <2>6 DEF SubmitCreate, TypeOK
<1>3. ASSUME NEW s \in Subs, JudgeAccept(s) PROVE TypeOK'
  <2>a. NoJob \in JobRec
    BY Bounds DEF NoJob, JobState, JobRec
  <2>1. [NoJob EXCEPT !.st = "judging"] \in JobRec
    BY <2>a, JobEnded DEF JobState
  <2>2. job' \in JobTable
    BY <1>3, <1>tab, <2>1 DEF JudgeAccept, JobTable
  <2>3. submit' \in [Subs -> SubmitRec]
    BY <1>3, <1>tab, SubmitPcSet, PcTypes DEF JudgeAccept
  <2> QED
    BY <1>3, <2>2, <2>3 DEF JudgeAccept, TypeOK, JobTable
<1>4. ASSUME NEW s \in Subs, SubmitBatchThrows(s) PROVE TypeOK'
  BY <1>4, <1>tab, SubmitPcSet, PcTypes DEF SubmitBatchThrows, TypeOK
<1>5. ASSUME NEW s \in Subs, RecordSubmission(s) PROVE TypeOK'
  <2>1. submit' \in [Subs -> SubmitRec]
    BY <1>5, <1>tab, SubmitPcSet, PcTypes DEF RecordSubmission
  <2>2. caseStatus' \in CaseTable
    <3> DEFINE row == [t \in TestIds |-> IF t \in submit[s].snap THEN "PENDING"
                                                              ELSE caseStatus[s][t]]
    <3>1. caseStatus \in CaseTable
      BY DEF TypeOK, CaseTable, CaseValue
    <3>2. row \in [TestIds -> CaseValue]
      BY <3>1 DEF CaseTable, CaseValue, SubmissionStatus
    <3>3. caseStatus' = [caseStatus EXCEPT ![s] = row] \/ caseStatus' = caseStatus
      BY <1>5 DEF RecordSubmission
    <3> HIDE DEF row
    <3> QED
      BY <3>1, <3>2, <3>3 DEF CaseTable
  <2> QED
    BY <1>5, <2>1, <2>2 DEF RecordSubmission, TypeOK, SubmissionStatus, CaseTable, CaseValue
<1>6. ASSUME NEW s \in Subs, NEW t \in TestIds, JudgeFinish(s, t) PROVE TypeOK'
  <2>1. PICK id \in Outcomes :
          job' = [job EXCEPT ![s][t] = [job[s][t] EXCEPT !.st = "calling", !.id = id]]
    BY <1>6 DEF JudgeFinish
  <2>a. "calling" \in JobState /\ id \in 1..14 /\ 0 \in 0..MaxTries
    BY Bounds DEF JobState
  <2>b. [job[s][t] EXCEPT !.st = "calling", !.id = id] \in JobRec
    BY <1>job, <2>a, JobEnded
  <2>2. job' \in JobTable
    BY <1>tab, <2>1, <2>b, JobSet
  <2> QED
    BY <1>6, <2>2 DEF JudgeFinish, TypeOK, JobTable
<1>7. ASSUME NEW s \in Subs, NEW t \in TestIds, Deliver(s, t) PROVE TypeOK'
  <2>a. job[s][t].tries + 1 \in 0..MaxTries /\ job[s][t].tries + 1 \in Tries
    <3>1. job[s][t].tries \in 0..MaxTries /\ job[s][t].tries < MaxTries
      BY <1>7, <1>job DEF Deliver, CanCall, JobRec
    <3> QED
      BY <3>1, Bounds
  <2>1. [job[s][t] EXCEPT !.tries = @ + 1, !.conn = TRUE] \in JobRec
    BY <1>job, <2>a, JobTried
  <2>2. job[s][t].tries + 1 \in Tries
    BY <2>a
  <2>3. job' \in JobTable
    <3> DEFINE r == [job[s][t] EXCEPT !.tries = job[s][t].tries + 1, !.conn = TRUE]
    <3>1. job' = [job EXCEPT ![s][t] = r]
      BY <1>7 DEF Deliver
    <3>2. r \in JobRec
      BY <2>1
    <3> HIDE DEF r
    <3> QED
      BY <1>tab, <3>1, <3>2, JobSet
  <2>4. call' \in CallTable
    <3> DEFINE n == job[s][t].tries + 1
    <3>1. call' = [call EXCEPT ![s][t][n] = Call("find")] /\ n \in Tries
      BY <1>7, <2>2 DEF Deliver
    <3>2. Call("find") \in CallRec
      BY CallType, PcTypes
    <3> HIDE DEF n
    <3> QED
      BY <1>tab, <3>1, <3>2, CallSet
  <2> QED
    BY <1>7, <2>3, <2>4 DEF Deliver, TypeOK, JobTable, CallTable
<1>8. ASSUME NEW s \in Subs, NEW t \in TestIds, Refused(s, t) PROVE TypeOK'
  <2>a. job[s][t].tries + 1 \in 0..MaxTries
    <3>1. job[s][t].tries \in 0..MaxTries /\ job[s][t].tries < MaxTries
      BY <1>8, <1>job DEF Refused, CanCall, JobRec
    <3> QED
      <4>1. \A n \in 0..MaxTries : n < MaxTries => n + 1 \in 0..MaxTries
        BY Bounds
      <4> QED
        BY <3>1, <4>1
  <2>1. [job[s][t] EXCEPT !.tries = @ + 1] \in JobRec
    BY <1>job, <2>a, JobTried
  <2>2. job' \in JobTable
    <3> DEFINE r == [job[s][t] EXCEPT !.tries = job[s][t].tries + 1]
    <3>1. job' = [job EXCEPT ![s][t] = r]
      BY <1>8 DEF Refused
    <3>2. r \in JobRec
      BY <2>1
    <3> HIDE DEF r
    <3> QED
      BY <1>tab, <3>1, <3>2, JobSet
  <2> QED
    BY <1>8, <2>2 DEF Refused, TypeOK, JobTable
<1>9. ASSUME NEW s \in Subs, NEW t \in TestIds, CallTimesOut(s, t) PROVE TypeOK'
  <2>1. [job[s][t] EXCEPT !.conn = FALSE] \in JobRec
    BY <1>job DEF JobRec
  <2>2. job' \in JobTable
    BY <1>9, <1>tab, <2>1, JobSet DEF CallTimesOut
  <2> QED
    BY <1>9, <2>2 DEF CallTimesOut, TypeOK, JobTable
<1>10. ASSUME NEW s \in Subs, NEW t \in TestIds, NEW k \in Tries, CallStep(s, t, k)
       PROVE  TypeOK'
  <2>1. CASE FindCase(s, t, k)
    <3>1. CASE caseStatus[s][t] = "none"
      BY <2>1, <3>1, RespondType DEF FindCase, TypeOK, JobTable, CallTable
    <3>2. CASE caseStatus[s][t] # "none"
      <4>1. call' \in CallTable
        BY <2>1, <3>2, <1>tab, <1>call, CallSet, CallPcSet, PcTypes DEF FindCase
      <4> QED
        BY <2>1, <3>2, <4>1 DEF FindCase, TypeOK, CallTable
    <3> QED
      BY <3>1, <3>2
  <2>2. CASE UpdateCase(s, t, k)
    <3>1. CASE caseStatus[s][t] = "none"
      BY <2>2, <3>1, ProcessDiesType DEF UpdateCase
    <3>2. CASE caseStatus[s][t] # "none"
      <4>1. Verdict(s, t) \in SubmissionStatus
        BY <1>job, VerdictType DEF Verdict, JobRec
      <4>2. call' \in CallTable
        BY <2>2, <3>2, <1>tab, <1>call, CallSet, CallPcSet, PcTypes DEF UpdateCase
      <4>3. caseStatus' = [caseStatus EXCEPT ![s][t] = Verdict(s, t)]
        BY <2>2, <3>2 DEF UpdateCase
      <4>4. caseStatus \in CaseTable /\ Verdict(s, t) \in CaseValue
        BY <4>1 DEF TypeOK, CaseTable, CaseValue
      <4>5. caseStatus' \in CaseTable
        BY <4>3, <4>4, CaseSet
      <4> QED
        BY <2>2, <3>2, <4>2, <4>5 DEF UpdateCase, TypeOK, CallTable, CaseTable, CaseValue
    <3> QED
      BY <3>1, <3>2
  <2>3. CASE RereadCases(s, t, k)
    <3> DEFINE overall == IF AllDone(s) THEN CombineVerdicts(CaseStatuses(s)) ELSE "PENDING"
    <3>1. overall \in SubmissionStatus
      <4>1. CaseStatuses(s) \in SUBSET SubmissionStatus
        BY DEF CaseStatuses, Rows, TypeOK
      <4> QED
        BY <4>1, CombineType DEF SubmissionStatus
    <3>2. Cardinality(PassedRows(s)) \in Nat
      BY CountType DEF PassedRows, Rows
    <3>3. AllDone(s) \in BOOLEAN
      BY DEF AllDone
    <3>4. [call[s][t][k] EXCEPT !.pc = "write", !.allDone = AllDone(s),
                                !.overall = overall,
                                !.passed = Cardinality(PassedRows(s))] \in CallRec
      <4> HIDE DEF overall
      <4> QED
        BY <1>call, <3>1, <3>2, <3>3, PcTypes DEF CallRec
    <3>5. call' \in CallTable
      BY <2>3, <1>tab, <3>4, CallSet DEF RereadCases
    <3> QED
      BY <2>3, <3>5 DEF RereadCases, TypeOK, CallTable
  <2>4. CASE WriteSubmission(s, t, k)
    <3>1. CASE ProcessDies
      BY <3>1, ProcessDiesType
    <3>2. call[s][t][k].passed \in Nat /\ call[s][t][k].overall \in SubmissionStatus
      BY <1>call DEF CallRec
    <3>3. CASE ~ProcessDies
      <4>1. job' \in JobTable /\ call' \in CallTable
        BY <2>4, <3>3, <1>tab, <1>call, RespondType, CallSet, CallPcSet, PcTypes
           DEF WriteSubmission
      <4> QED
        BY <2>4, <3>2, <3>3, <4>1 DEF WriteSubmission, TypeOK, JobTable, CallTable
    <3> QED
      BY <3>1, <3>3
  <2>5. CASE ReadAccepted(s, t, k)
    <3>1. Solved(UserOf[s]) \cap ContestProblems \in SUBSET Problems
      BY GradingAssumption DEF Solved
    <3>2. [call[s][t][k] EXCEPT !.pc = "upsert",
              !.solved = Solved(UserOf[s]) \cap ContestProblems] \in CallRec
      BY <1>call, <3>1, PcTypes DEF CallRec
    <3>3. call' \in CallTable
      BY <2>5, <1>tab, <3>2, CallSet DEF ReadAccepted
    <3> QED
      BY <2>5, <3>3 DEF ReadAccepted, TypeOK, CallTable
  <2>6. CASE UpsertScore(s, t, k)
    <3>1. call[s][t][k].solved \in SUBSET Problems
      BY <1>call DEF CallRec
    <3> QED
      BY <2>6, <3>1, RespondType, GradingAssumption
         DEF UpsertScore, TypeOK, JobTable, CallTable
  <2> QED
    BY <1>10, <2>1, <2>2, <2>3, <2>4, <2>5, <2>6 DEF CallStep
<1>11. ASSUME NEW p \in Problems, AdminPut(p) PROVE TypeOK'
  BY <1>11, GradingAssumption DEF AdminPut, Cascade, TypeOK
<1>12. ASSUME NEW p \in Problems, AdminDelete(p) PROVE TypeOK'
  BY <1>12, GradingAssumption DEF AdminDelete, Cascade, TypeOK
<1>13. CASE Crash
  BY <1>13, ProcessDiesType DEF Crash
<1>14. CASE Restart
  <2>1. PICK new \in [Seeded \cap live -> SUBSET unused \ {{}}] :
          tests' = [p \in Problems |-> IF p \in Seeded \cap live THEN new[p] ELSE tests[p]]
    BY <1>14 DEF Restart
  <2>2. tests' \in [Problems -> SUBSET TestIds]
    BY <2>1 DEF TypeOK
  <2>3. unused' \subseteq TestIds
    BY <1>14 DEF Restart, TypeOK
  <2> QED
    BY <1>14, <2>2, <2>3 DEF Restart, Cascade, TypeOK
<1>15. CASE UNCHANGED vars
  BY <1>15 DEF vars, TypeOK
<1> QED
  BY <1>1, <1>2, <1>3, <1>4, <1>5, <1>6, <1>7, <1>8, <1>9, <1>10, <1>11, <1>12,
     <1>13, <1>14, <1>15 DEF Next, SubmitStep

\* All rows, requests, jobs and handler locals keep their types in every
\* reachable state; no callback is tried more than MaxTries times.
THEOREM Typing == Spec => []TypeOK
  BY TypeInit, TypeStep, PTL DEF Spec
-------------------------------------------------------------------------------
(* The safety invariants: SubInv(s) is kept by every step.                 *)

\* An earned verdict stays earned.
LEMMA EarnedKept ==
  ASSUME NEW s, NEW v, Earned(s, v), submit'[s].snap = submit[s].snap,
         \A t \in submit[s].snap : Judged(s, t) =>
           Judged(s, t)' /\ job'[s][t].id = job[s][t].id
  PROVE  Earned(s, v)'
<1>1. \A t \in submit[s].snap : Judged(s, t)' /\ Verdict(s, t)' = Verdict(s, t)
  BY DEF Earned, Verdict
<1>2. {Verdict(s, t) : t \in submit[s].snap}' = {Verdict(s, t) : t \in submit[s].snap}
  BY <1>1
<1> QED
  BY <1>1, <1>2 DEF Earned

\* A step that does not touch the submission, its cases, jobs and calls.
LEMMA Untouched ==
  ASSUME NEW s \in Subs, SubInv(s),
         submit'[s] = submit[s], status'[s] = status[s], job'[s] = job[s],
         caseStatus'[s] = caseStatus[s], call'[s] = call[s],
         crashes' = 0 => crashes = 0
  PROVE  SubInv(s)'
<1>1. \A v : Earned(s, v) => Earned(s, v)'
  BY EarnedKept DEF Judged
<1>2. Rows(s)' = Rows(s)
  BY DEF Rows
<1>3. \A t \in TestIds : /\ Judged(s, t)' = Judged(s, t) /\ Verdict(s, t)' = Verdict(s, t)
  BY DEF Judged, Verdict
<1>4. SubmitInv(s)'
  BY <1>2 DEF SubInv, SubmitInv
<1>5. WitnessInv(s)'
  BY DEF SubInv, WitnessInv, CasesFinal, WillGrade
<1>6. \A t \in TestIds : TestInv(s, t)'
  BY <1>3 DEF SubInv, TestInv
<1>7. \A t \in TestIds, k \in Tries : CallInv(s, t, k)'
  BY <1>1, <1>2, <1>3 DEF SubInv, CallInv
<1> QED
  BY <1>1, <1>4, <1>5, <1>6, <1>7 DEF SubInv

\* Before Judge0 has seen the batch there is nothing to invalidate.
LEMMA Fresh ==
  ASSUME TypeOK, NEW s \in Subs, SubmitInv(s), status[s] \notin FinalVerdicts,
         \A t \in TestIds : /\ job[s][t].st = "none" /\ ~job[s][t].conn
                            /\ caseStatus[s][t] = "none"
                            /\ \A k \in Tries : call[s][t][k].pc = "idle"
  PROVE  SubInv(s)
<1>1. WitnessInv(s)
  <2>1. submit[s].snap \subseteq TestIds
    BY DEF TypeOK, SubmitRec
  <2>2. ~CasesFinal(s)
    BY <2>1 DEF CasesFinal, FinalVerdicts
  <2> QED
    BY <2>2 DEF WitnessInv
<1>2. \A t \in TestIds : TestInv(s, t)
  BY DEF TestInv, Judged
<1>3. \A t \in TestIds, k \in Tries : CallInv(s, t, k)
  BY DEF CallInv, Serving
<1> QED
  BY <1>1, <1>2, <1>3 DEF SubInv

\* Fresh for the state after a step.
LEMMA FreshAfter ==
  ASSUME TypeOK', NEW s \in Subs, SubmitInv(s)', status'[s] \notin FinalVerdicts,
         \A t \in TestIds : /\ job'[s][t].st = "none" /\ ~job'[s][t].conn
                            /\ caseStatus'[s][t] = "none"
                            /\ \A k \in Tries : call'[s][t][k].pc = "idle"
  PROVE  SubInv(s)'
<1>1. WitnessInv(s)'
  <2>1. submit'[s].snap \subseteq TestIds
    BY DEF TypeOK, SubmitRec
  <2>2. ~CasesFinal(s)'
    BY <2>1 DEF CasesFinal, FinalVerdicts
  <2> QED
    BY <2>2 DEF WitnessInv
<1>2. \A t \in TestIds : TestInv(s, t)'
  BY DEF TestInv, Judged
<1>3. \A t \in TestIds, k \in Tries : CallInv(s, t, k)'
  BY DEF CallInv, Serving
<1> QED
  BY <1>1, <1>2, <1>3 DEF SubInv

\* Until its batch is sent a submission has no job, no case and no call.
LEMMA FreshBefore ==
  ASSUME TypeOK, NEW s \in Subs, SubInv(s), submit[s].pc \in {"idle", "read", "created"}
  PROVE  /\ status[s] \notin FinalVerdicts
         /\ \A t \in TestIds : /\ job[s][t].st = "none" /\ ~job[s][t].conn
                            /\ caseStatus[s][t] = "none"
                               /\ \A k \in Tries : call[s][t][k].pc = "idle"
<1>1. \A t \in TestIds : job[s][t].st = "none" /\ ~job[s][t].conn
  BY DEF SubInv, TestInv
<1>2. \A t \in TestIds : ~Judged(s, t)
  BY <1>1 DEF Judged
<1>3. \A t \in TestIds, k \in Tries : call[s][t][k].pc = "idle"
  BY <1>2 DEF SubInv, CallInv
<1>4. Rows(s) = {}
  BY DEF SubInv, SubmitInv
<1>5. \A t \in TestIds : caseStatus[s][t] = "none"
  BY <1>4 DEF Rows
<1>6. submit[s].snap \subseteq TestIds
  BY DEF TypeOK, SubmitRec
<1>7. status[s] \notin FinalVerdicts
  BY <1>2, <1>6 DEF SubInv, Earned
<1> QED
  BY <1>1, <1>3, <1>5, <1>7

\* The submit request gives up: whatever Judge0 was sent goes on without it.
LEMMA RequestEnds ==
  ASSUME NEW s \in Subs, SubInv(s), submit[s].pc \in InFlight,
         submit'[s].pc = "failed", submit'[s].snap = submit[s].snap,
         status'[s] = status[s], job'[s] = job[s], caseStatus'[s] = caseStatus[s],
         call'[s] = call[s], crashes' = 0 => crashes = 0
  PROVE  SubInv(s)'
<1>1. \A v : Earned(s, v) => Earned(s, v)'
  BY EarnedKept DEF Judged
<1>2. Rows(s) = {} /\ Rows(s)' = {}
  BY DEF Rows, SubInv, SubmitInv, InFlight
<1>3. \A t \in TestIds : /\ Judged(s, t)' = Judged(s, t) /\ Verdict(s, t)' = Verdict(s, t)
  BY DEF Judged, Verdict
<1>4. SubmitInv(s)'
  BY <1>2 DEF SubmitInv, InFlight
<1>5. WitnessInv(s)'
  BY DEF SubInv, WitnessInv, CasesFinal, WillGrade
<1>6. \A t \in TestIds : TestInv(s, t)'
  BY <1>3 DEF SubInv, TestInv, InFlight
<1>7. \A t \in TestIds, k \in Tries : CallInv(s, t, k)'
  BY <1>1, <1>2, <1>3 DEF SubInv, CallInv, InFlight
<1> QED
  BY <1>1, <1>4, <1>5, <1>6, <1>7 DEF SubInv

\* SubmitRead keeps the invariant: there is nothing yet but the request.
LEMMA SubmitReadInv ==
  ASSUME GradingInv, TypeOK', NEW s \in Subs, SubmitRead(s)
  PROVE  \A x \in Subs : SubInv(x)'
<1>1. \A x \in Subs : x # s => submit'[x] = submit[x]
  BY DEF SubmitRead
<1>2. \A x \in Subs : x # s => SubInv(x)'
  BY <1>1, Untouched DEF GradingInv, SubmitRead, submissionRow
<1>3. /\ status[s] \notin FinalVerdicts
      /\ \A t \in TestIds : /\ job[s][t].st = "none" /\ ~job[s][t].conn
                            /\ caseStatus[s][t] = "none"
                            /\ \A k \in Tries : call[s][t][k].pc = "idle"
  BY FreshBefore DEF GradingInv, SubmitRead
<1>4. Rows(s)' = {}
  BY <1>3 DEF Rows, SubmitRead
<1>5. \/ submit'[s] = [pc |-> "failed", snap |-> {}]
      \/ submit'[s] = [pc |-> "read", snap |-> tests[ProblemOf[s]]]
         /\ tests[ProblemOf[s]] # {}
  BY DEF SubmitRead, GradingInv, TypeOK
<1>6. SubmitInv(s)'
  BY <1>4, <1>5 DEF SubmitInv, InFlight
<1>7. SubInv(s)'
  BY <1>3, <1>6, FreshAfter DEF SubmitRead, submissionRow
<1> QED
  BY <1>2, <1>7

\* SubmitCreate keeps the invariant: the new row is PENDING.
LEMMA SubmitCreateInv ==
  ASSUME GradingInv, TypeOK', NEW s \in Subs, SubmitCreate(s)
  PROVE  \A x \in Subs : SubInv(x)'
<1>1. \A x \in Subs : x # s => submit'[x] = submit[x] /\ status'[x] = status[x]
  BY DEF SubmitCreate, GradingInv, TypeOK, submissionRow
<1>2. \A x \in Subs : x # s => SubInv(x)'
  BY <1>1, Untouched DEF GradingInv, SubmitCreate
<1>3. /\ status[s] \notin FinalVerdicts
      /\ \A t \in TestIds : /\ job[s][t].st = "none" /\ ~job[s][t].conn
                            /\ caseStatus[s][t] = "none"
                            /\ \A k \in Tries : call[s][t][k].pc = "idle"
  BY FreshBefore DEF GradingInv, SubmitCreate
<1>4. Rows(s)' = {}
  BY <1>3 DEF Rows, SubmitCreate
<1>5. submit[s] \in SubmitRec /\ submit[s].snap # {}
  BY DEF GradingInv, TypeOK, SubInv, SubmitInv, SubmitCreate, InFlight
<1>6. submit'[s].snap = submit[s].snap /\ submit'[s].pc \in {"created", "failed"}
  BY SubmitMoves, PcTypes DEF SubmitCreate, GradingInv
<1>7. SubmitInv(s)'
  BY <1>4, <1>5, <1>6 DEF SubmitInv, InFlight
<1>8. status'[s] \notin FinalVerdicts
  BY <1>3 DEF SubmitCreate, GradingInv, TypeOK, submissionRow, FinalVerdicts
<1>9. SubInv(s)'
  BY <1>3, <1>7, <1>8, FreshAfter DEF SubmitCreate
<1> QED
  BY <1>2, <1>9

\* A submitBatch that throws keeps the invariant.
LEMMA SubmitBatchThrowsInv ==
  ASSUME GradingInv, TypeOK', NEW s \in Subs, SubmitBatchThrows(s)
  PROVE  \A x \in Subs : SubInv(x)'
<1>1. \A x \in Subs : x # s => submit'[x] = submit[x]
  BY DEF SubmitBatchThrows
<1>2. \A x \in Subs : x # s => SubInv(x)'
  BY <1>1, Untouched DEF GradingInv, SubmitBatchThrows, submissionRow
<1>3. submit'[s].snap = submit[s].snap /\ submit'[s].pc = "failed"
  BY SubmitPcSet, PcTypes DEF SubmitBatchThrows, GradingInv, TypeOK
<1>4. SubInv(s)'
  BY <1>3, RequestEnds DEF GradingInv, SubmitBatchThrows, InFlight, submissionRow
<1> QED
  BY <1>2, <1>4

\* The batch is accepted in full or in part: new jobs, not judged yet.
LEMMA JudgeAcceptInv ==
  ASSUME GradingInv, TypeOK', NEW s \in Subs, JudgeAccept(s)
  PROVE  \A x \in Subs : SubInv(x)'
<1>1. PICK accepted \in SUBSET submit[s].snap :
        /\ job' = [job EXCEPT ![s] = [t \in TestIds |->
                     IF t \in accepted THEN [NoJob EXCEPT !.st = "judging"]
                                       ELSE job[s][t]]]
        /\ submit' = [submit EXCEPT ![s] = [@ EXCEPT !.pc =
                        IF accepted = submit[s].snap THEN "accepted" ELSE "failed"]]
  BY DEF JudgeAccept
<1>2. \A x \in Subs : x # s => submit'[x] = submit[x] /\ job'[x] = job[x]
  BY <1>1 DEF GradingInv, TypeOK
<1>3. \A x \in Subs : x # s => SubInv(x)'
  BY <1>2, Untouched DEF GradingInv, JudgeAccept, submissionRow
<1>4. /\ status[s] \notin FinalVerdicts
      /\ \A t \in TestIds : /\ job[s][t].st = "none" /\ ~job[s][t].conn
                            /\ caseStatus[s][t] = "none"
                            /\ \A k \in Tries : call[s][t][k].pc = "idle"
  BY FreshBefore DEF GradingInv, JudgeAccept
<1>5. submit[s] \in SubmitRec /\ submit[s].snap # {}
  BY DEF GradingInv, TypeOK, SubInv, SubmitInv, JudgeAccept, InFlight
<1>6. submit'[s].snap = submit[s].snap /\ submit'[s].pc \in {"accepted", "failed"}
  BY <1>1, <1>5, SubmitPcSet, PcTypes DEF GradingInv, TypeOK
<1>7. \A t \in TestIds : job'[s][t].st \in {"none", "judging"} /\ ~job'[s][t].conn
                         /\ (job'[s][t].st # "none" => t \in submit[s].snap)
  BY <1>1, <1>4 DEF GradingInv, TypeOK, NoJob
<1>8. \A t \in TestIds : ~Judged(s, t)'
  BY <1>7 DEF Judged
<1>9. /\ \A t \in TestIds : caseStatus'[s][t] = "none"
      /\ \A t \in TestIds, k \in Tries : call'[s][t][k].pc = "idle"
      /\ status'[s] \notin FinalVerdicts
  BY <1>4 DEF JudgeAccept, submissionRow
<1>10. SubmitInv(s)'
  BY <1>5, <1>6, <1>9 DEF SubmitInv, InFlight, Rows
<1>11. WitnessInv(s)'
  <2>1. submit'[s].snap \subseteq TestIds
    BY DEF TypeOK, SubmitRec
  <2> QED
    BY <1>9, <2>1 DEF WitnessInv, CasesFinal, FinalVerdicts
<1>12. \A t \in TestIds : TestInv(s, t)'
  BY <1>6, <1>7, <1>8, <1>9 DEF TestInv
<1>13. \A t \in TestIds, k \in Tries : CallInv(s, t, k)'
  BY <1>9 DEF CallInv, Serving
<1>14. SubInv(s)'
  BY <1>9, <1>10, <1>11, <1>12, <1>13 DEF SubInv
<1> QED
  BY <1>3, <1>14

\* The transaction that creates the cases keeps the invariant, whether it
\* commits or rolls back: callbacks served before it found no row.
LEMMA RecordSubmissionInv ==
  ASSUME GradingInv, TypeOK', NEW s \in Subs, RecordSubmission(s)
  PROVE  \A x \in Subs : SubInv(x)'
<1>1. \A x \in Subs : x # s => /\ submit'[x] = submit[x] /\ status'[x] = status[x]
                               /\ caseStatus'[x] = caseStatus[x]
  BY DEF RecordSubmission, GradingInv, TypeOK
<1>2. \A x \in Subs : x # s => SubInv(x)'
  BY <1>1, Untouched DEF GradingInv, RecordSubmission
<1>3. submit[s] \in SubmitRec /\ submit[s].snap # {} /\ submit[s].snap \subseteq TestIds
  BY DEF GradingInv, TypeOK, SubInv, SubmitInv, RecordSubmission, InFlight, SubmitRec
<1>4. CASE Recordable(s)
  <2>1. submit'[s].snap = submit[s].snap /\ submit'[s].pc = "done"
    BY <1>4, SubmitMoves, PcTypes DEF RecordSubmission, GradingInv
  <2>2. Rows(s) = {}
    BY DEF GradingInv, SubInv, SubmitInv, RecordSubmission
  <2>3. \A t \in TestIds :
          caseStatus'[s][t] = IF t \in submit[s].snap THEN "PENDING" ELSE "none"
    BY <1>4, <2>2 DEF RecordSubmission, GradingInv, TypeOK, Rows
  <2>4. status'[s] = "RUNNING"
    BY <1>4 DEF RecordSubmission, GradingInv, TypeOK
  <2>5. Rows(s)' = submit[s].snap
    BY <1>3, <2>3 DEF Rows
  <2>6. SubmitInv(s)'
    BY <1>3, <2>1, <2>4, <2>5 DEF SubmitInv
  <2>7. WitnessInv(s)'
    BY <1>3, <2>1, <2>3 DEF WitnessInv, CasesFinal, FinalVerdicts
  <2>8. \A t \in TestIds : TestInv(s, t) /\ job'[s][t] = job[s][t]
    BY DEF GradingInv, SubInv, RecordSubmission
  <2>9. \A t \in TestIds : TestInv(s, t)'
    BY <2>1, <2>3, <2>8 DEF TestInv, Judged, RecordSubmission
  <2>10. \A t \in TestIds, k \in Tries : CallInv(s, t, k) /\ call'[s][t][k] = call[s][t][k]
    BY DEF GradingInv, SubInv, RecordSubmission
  <2>11. \A t \in TestIds, k \in Tries : CallInv(s, t, k)'
    BY <2>8, <2>10, <2>1 DEF CallInv, Judged, RecordSubmission, Serving
  <2>12. SubInv(s)'
    BY <2>4, <2>6, <2>7, <2>9, <2>11 DEF SubInv, FinalVerdicts
  <2> QED
    BY <1>2, <2>12
<1>5. CASE ~Recordable(s)
  <2>1. submit'[s].snap = submit[s].snap /\ submit'[s].pc = "failed"
    BY <1>5, SubmitMoves, PcTypes DEF RecordSubmission, GradingInv
  <2>2. SubInv(s)'
    BY <1>5, <2>1, RequestEnds DEF GradingInv, RecordSubmission, InFlight
  <2> QED
    BY <1>2, <2>2
<1> QED
  BY <1>4, <1>5

\* Judge0 moves on with a test: it only learns, and nobody is acknowledged.
LEMMA JobMoves ==
  ASSUME TypeOK, TypeOK', NEW s \in Subs, NEW t \in TestIds, SubInv(s),
         UNCHANGED <<crashes, submit, status, caseStatus>>, call'[s] = call[s],
         \A t1 \in TestIds : t1 # t => job'[s][t1] = job[s][t1],
         job[s][t].st # "none", job'[s][t].st # "ok" \/ job[s][t].st = "ok",
         Judged(s, t) => /\ Judged(s, t)' /\ job'[s][t].id = job[s][t].id
                         /\ job'[s][t].tries >= job[s][t].tries,
         Judged(s, t)' => job'[s][t].id \in J0Final,
         job'[s][t].conn => job'[s][t].st = "calling"
  PROVE  SubInv(s)'
<1>1. \A t1 \in TestIds : Judged(s, t1) =>
        Judged(s, t1)' /\ job'[s][t1].id = job[s][t1].id /\ Verdict(s, t1)' = Verdict(s, t1)
  BY DEF Judged, Verdict
<1>2. submit[s].snap \subseteq TestIds
  BY DEF TypeOK, SubmitRec
<1>3. \A v : Earned(s, v) => Earned(s, v)'
  BY <1>1, <1>2, EarnedKept
<1>4. Rows(s)' = Rows(s)
  BY DEF Rows
<1>5. SubmitInv(s)'
  BY <1>4 DEF SubInv, SubmitInv
<1>6. WitnessInv(s)'
  BY <1>2 DEF SubInv, WitnessInv, CasesFinal, WillGrade
<1>7. \A t1 \in TestIds : TestInv(s, t1)'
  <2> SUFFICES ASSUME NEW t1 \in TestIds PROVE TestInv(s, t1)'
    OBVIOUS
  <2>1. TestInv(s, t1) /\ TestInv(s, t)
    BY DEF SubInv
  <2>2. CASE t1 = t
    BY <1>1, <2>1, <2>2 DEF TestInv
  <2>3. CASE t1 # t
    BY <1>1, <2>1, <2>3 DEF TestInv, Judged
  <2> QED
    BY <2>2, <2>3
<1>8. \A t1 \in TestIds, k \in Tries : CallInv(s, t1, k)'
  <2> SUFFICES ASSUME NEW t1 \in TestIds, NEW k \in Tries PROVE CallInv(s, t1, k)'
    OBVIOUS
  <2>1. CallInv(s, t1, k)
    BY DEF SubInv
  <2>2. Judged(s, t1) /\ k <= job[s][t1].tries => k <= job'[s][t1].tries
    <3>1. job[s][t1].tries \in Nat /\ job'[s][t1].tries \in Nat /\ k \in Nat
      BY Bounds DEF TypeOK, JobRec
    <3>2. CASE t1 = t
      BY <3>1, <3>2
    <3>3. CASE t1 # t
      BY <3>3
    <3> QED
      BY <3>2, <3>3
  <2> QED
    BY <1>1, <1>3, <1>4, <2>1, <2>2 DEF CallInv
<1> QED
  BY <1>3, <1>5, <1>6, <1>7, <1>8 DEF SubInv

\* A verdict of Judge0 keeps the invariant.
LEMMA JudgeFinishInv ==
  ASSUME GradingInv, TypeOK', NEW s \in Subs, NEW t \in TestIds, JudgeFinish(s, t)
  PROVE  \A x \in Subs : SubInv(x)'
<1>1. PICK id \in Outcomes :
        job' = [job EXCEPT ![s][t] = [job[s][t] EXCEPT !.st = "calling", !.id = id]]
  BY DEF JudgeFinish
<1>2. job \in JobTable /\ job[s][t] \in JobRec
  BY DEF GradingInv, TypeOK, JobTable
<1>3. \A x \in Subs : x # s => job'[x] = job[x]
  BY <1>1, <1>2 DEF JobTable
<1>4. \A x \in Subs : x # s => SubInv(x)'
  BY <1>3, Untouched DEF GradingInv, JudgeFinish, submissionRow
<1>5. /\ job'[s][t] = [job[s][t] EXCEPT !.st = "calling", !.id = id]
      /\ \A t1 \in TestIds : t1 # t => job'[s][t1] = job[s][t1]
  BY <1>1, <1>2 DEF JobTable
<1>6. job'[s][t].st = "calling" /\ job'[s][t].id = id /\ id \in J0Final
  BY <1>2, <1>5, GradingAssumption DEF JobRec
<1>7. ~Judged(s, t) /\ job[s][t].st # "none"
  BY DEF JudgeFinish, Judged
<1>8. UNCHANGED <<crashes, submit, status, caseStatus, call>>
  BY DEF JudgeFinish, submissionRow
<1>9. SubInv(s)'
  BY <1>5, <1>6, <1>7, <1>8, JobMoves DEF GradingInv
<1> QED
  BY <1>4, <1>9

\* A refused callback keeps the invariant.
LEMMA RefusedInv ==
  ASSUME GradingInv, TypeOK', NEW s \in Subs, NEW t \in TestIds, Refused(s, t)
  PROVE  \A x \in Subs : SubInv(x)'
<1>1. job' = [job EXCEPT ![s][t] = [job[s][t] EXCEPT !.tries = @ + 1]]
  BY DEF Refused
<1>2. job \in JobTable /\ job[s][t] \in JobRec
  BY DEF GradingInv, TypeOK, JobTable
<1>3. \A x \in Subs : x # s => job'[x] = job[x]
  BY <1>1, <1>2 DEF JobTable
<1>4. \A x \in Subs : x # s => SubInv(x)'
  BY <1>3, Untouched DEF GradingInv, Refused, submissionRow
<1>5. /\ job'[s][t] = [job[s][t] EXCEPT !.tries = @ + 1]
      /\ \A t1 \in TestIds : t1 # t => job'[s][t1] = job[s][t1]
  BY <1>1, <1>2 DEF JobTable
<1>6. /\ job'[s][t].st = job[s][t].st /\ job'[s][t].id = job[s][t].id
      /\ job'[s][t].tries = job[s][t].tries + 1 /\ job[s][t].tries \in Nat
      /\ job'[s][t].conn = job[s][t].conn
  BY <1>2, <1>5, Bounds DEF JobRec
<1>7. job[s][t].st = "calling"
  BY DEF Refused, CanCall
<1>8. UNCHANGED <<crashes, submit, status, caseStatus, call>>
  BY DEF Refused, submissionRow
<1>9. /\ Judged(s, t) => Judged(s, t)' /\ job'[s][t].tries >= job[s][t].tries
      /\ Judged(s, t)' => job'[s][t].id \in J0Final
  <2>1. job'[s][t].tries >= job[s][t].tries
    BY <1>6
  <2>2. Judged(s, t) /\ job[s][t].id \in J0Final
    BY <1>7 DEF Judged, GradingInv, SubInv, TestInv
  <2> QED
    BY <1>6, <2>1, <2>2 DEF Judged
<1>10. SubInv(s)'
  BY <1>5, <1>6, <1>7, <1>8, <1>9, JobMoves DEF GradingInv
<1> QED
  BY <1>4, <1>10

\* A callback Judge0 gives up on keeps the invariant: its handler goes on.
LEMMA CallTimesOutInv ==
  ASSUME GradingInv, TypeOK', NEW s \in Subs, NEW t \in TestIds, CallTimesOut(s, t)
  PROVE  \A x \in Subs : SubInv(x)'
<1>1. job' = [job EXCEPT ![s][t] = [job[s][t] EXCEPT !.conn = FALSE]]
  BY DEF CallTimesOut
<1>2. job \in JobTable /\ job[s][t] \in JobRec
  BY DEF GradingInv, TypeOK, JobTable
<1>3. \A x \in Subs : x # s => job'[x] = job[x]
  BY <1>1, <1>2 DEF JobTable
<1>4. \A x \in Subs : x # s => SubInv(x)'
  BY <1>3, Untouched DEF GradingInv, CallTimesOut, submissionRow
<1>5. /\ job'[s][t] = [job[s][t] EXCEPT !.conn = FALSE]
      /\ \A t1 \in TestIds : t1 # t => job'[s][t1] = job[s][t1]
  BY <1>1, <1>2 DEF JobTable
<1>6. /\ job'[s][t].st = job[s][t].st /\ job'[s][t].id = job[s][t].id
      /\ job'[s][t].tries = job[s][t].tries /\ job[s][t].tries \in Nat
  BY <1>2, <1>5, Bounds DEF JobRec
<1>7. UNCHANGED <<crashes, submit, status, caseStatus, call>>
  BY DEF CallTimesOut, submissionRow
<1>8. /\ Judged(s, t) => Judged(s, t)' /\ job'[s][t].tries >= job[s][t].tries
      /\ Judged(s, t)' => job'[s][t].id \in J0Final
  <2>1. job'[s][t].tries >= job[s][t].tries
    BY <1>6
  <2>2. Judged(s, t) => job[s][t].id \in J0Final
    BY DEF Judged, GradingInv, SubInv, TestInv
  <2> QED
    BY <1>6, <2>1, <2>2 DEF Judged
<1>9. job[s][t].st = "calling"
  BY DEF CallTimesOut, GradingInv, SubInv, TestInv
<1>10. SubInv(s)'
  BY <1>5, <1>6, <1>7, <1>8, <1>9, JobMoves DEF GradingInv
<1> QED
  BY <1>4, <1>10

\* A new handler starts beside those of the same test that go on.
LEMMA DeliverInv ==
  ASSUME GradingInv, TypeOK', NEW s \in Subs, NEW t \in TestIds, Deliver(s, t)
  PROVE  \A x \in Subs : SubInv(x)'
<1> DEFINE n == job[s][t].tries + 1
           r == [job[s][t] EXCEPT !.tries = @ + 1, !.conn = TRUE]
<1>1. job' = [job EXCEPT ![s][t] = r] /\ call' = [call EXCEPT ![s][t][n] = Call("find")]
  BY DEF Deliver
<1>2. job \in JobTable /\ job[s][t] \in JobRec /\ call \in CallTable
  BY DEF GradingInv, TypeOK, JobTable, CallTable
<1>3. job[s][t].tries \in 0..MaxTries /\ job[s][t].tries < MaxTries
  BY <1>2 DEF Deliver, CanCall, JobRec
<1>4. n \in Tries
  BY <1>3, Bounds
<1>5. /\ r.st = job[s][t].st /\ r.id = job[s][t].id /\ r.tries = n
  BY <1>2 DEF JobRec
<1>6. job[s][t].st = "calling" /\ n \in Nat /\ job[s][t].tries \in Nat
      /\ n > job[s][t].tries
  BY <1>3 DEF Deliver, CanCall
<1> HIDE DEF n, r
<1>7. \A x \in Subs : x # s => job'[x] = job[x] /\ call'[x] = call[x]
  BY <1>1, <1>2 DEF JobTable, CallTable
<1>8. \A x \in Subs : x # s => SubInv(x)'
  BY <1>7, Untouched DEF GradingInv, Deliver, submissionRow
<1>9. \A t1 \in TestIds : job'[s][t1] = IF t1 = t THEN r ELSE job[s][t1]
  BY <1>1, <1>2 DEF JobTable
<1>10. \A t1 \in TestIds, k \in Tries :
         call'[s][t1][k] = IF t1 = t /\ k = n THEN Call("find") ELSE call[s][t1][k]
  BY <1>1, <1>2, <1>4 DEF CallTable
<1>11. UNCHANGED <<crashes, submit, status, caseStatus>>
  BY DEF Deliver, submissionRow
<1>12. SubInv(s)
  BY DEF GradingInv
<1>13. \A t1 \in TestIds : /\ Judged(s, t1)' = Judged(s, t1)
                           /\ job'[s][t1].id = job[s][t1].id
                           /\ job'[s][t1].st = job[s][t1].st
                           /\ Verdict(s, t1)' = Verdict(s, t1)
  BY <1>5, <1>9 DEF Judged, Verdict
<1>14. submit[s].snap \subseteq TestIds
  BY DEF GradingInv, TypeOK, SubmitRec
<1>15. \A v : Earned(s, v) => Earned(s, v)'
  BY <1>11, <1>13, <1>14, EarnedKept
<1>16. Rows(s)' = Rows(s)
  BY <1>11 DEF Rows
<1>17. SubmitInv(s)'
  BY <1>11, <1>12, <1>16 DEF SubInv, SubmitInv
<1>18. call[s][t][n].pc = "idle"
  BY <1>4, <1>6, <1>12 DEF SubInv, CallInv
<1>19. Call("find").pc = "find"
  BY DEF Call
<1>20. WitnessInv(s)'
  <2> SUFFICES ASSUME CasesFinal(s)', status'[s] \notin FinalVerdicts
               PROVE  \E t1 \in submit'[s].snap :
                        /\ job'[s][t1].st # "ok"
                        /\ \A k \in Tries : call'[s][t1][k].pc = "write" => call'[s][t1][k].allDone
                        /\ crashes' = 0 => \E k \in Tries : WillGrade(s, t1, k)'
    BY DEF WitnessInv
  <2>1. PICK t1 \in submit[s].snap :
                        /\ job[s][t1].st # "ok"
                        /\ \A k \in Tries : call[s][t1][k].pc = "write" => call[s][t1][k].allDone
                        /\ crashes = 0 => \E k \in Tries : WillGrade(s, t1, k)
    BY <1>11, <1>12 DEF SubInv, WitnessInv, CasesFinal
  <2>2. \A k \in Tries : call'[s][t1][k].pc = "write" => call'[s][t1][k].allDone
    BY <2>1, <1>10, <1>14, <1>19
  <2>3. \A k \in Tries : WillGrade(s, t1, k) => WillGrade(s, t1, k)'
    BY <1>10, <1>14, <1>18 DEF WillGrade
  <2> QED
    BY <2>1, <2>2, <2>3, <1>11, <1>13, <1>14
<1>21. \A t1 \in TestIds : TestInv(s, t1)'
  <2> SUFFICES ASSUME NEW t1 \in TestIds PROVE TestInv(s, t1)'
    OBVIOUS
  <2>1. TestInv(s, t1)
    BY <1>12 DEF SubInv
  <2>2. job'[s][t1].conn => job'[s][t1].st = "calling"
    BY <2>1, <1>5, <1>6, <1>9 DEF TestInv
  <2> QED
    BY <2>1, <2>2, <1>11, <1>13 DEF TestInv
<1>22. \A t1 \in TestIds, k \in Tries : CallInv(s, t1, k)'
  <2> SUFFICES ASSUME NEW t1 \in TestIds, NEW k \in Tries PROVE CallInv(s, t1, k)'
    OBVIOUS
  <2>1. CallInv(s, t1, k)
    BY <1>12 DEF SubInv
  <2>2. CASE t1 = t /\ k = n
    <3>1. call'[s][t1][k].pc = "find" /\ Judged(s, t1)' /\ k <= job'[s][t1].tries
      BY <2>2, <1>5, <1>6, <1>9, <1>10, <1>19 DEF Judged
    <3> QED
      BY <3>1 DEF CallInv
  <2>3. CASE ~(t1 = t /\ k = n)
    <3>1. call'[s][t1][k] = call[s][t1][k]
      BY <2>3, <1>10
    <3>2. k <= job[s][t1].tries => k <= job'[s][t1].tries
      <4>1. k \in Nat
        BY Bounds
      <4>2. CASE t1 = t
        BY <4>1, <4>2, <1>5, <1>6, <1>9
      <4>3. CASE t1 # t
        BY <4>3, <1>9
      <4> QED
        BY <4>2, <4>3
    <3> QED
      BY <2>1, <3>1, <3>2, <1>11, <1>13, <1>15, <1>16 DEF CallInv
  <2> QED
    BY <2>2, <2>3
<1>23. SubInv(s)'
  BY <1>11, <1>12, <1>15, <1>17, <1>20, <1>21, <1>22 DEF SubInv
<1> QED
  BY <1>8, <1>23

-------------------------------------------------------------------------------
(* The steps of the callback handler.                                      *)

\* Exactly one handler of the submission moves; the cases stay as they are.
LEMMA CallMoves ==
  ASSUME TypeOK, NEW s \in Subs, NEW t \in TestIds, NEW k \in Tries, SubInv(s),
         UNCHANGED <<crashes, submit, caseStatus>>,
         \A t1 \in TestIds : t1 # t => job'[s][t1] = job[s][t1],
         job'[s][t].id = job[s][t].id, job'[s][t].tries = job[s][t].tries,
         Judged(s, t)' = Judged(s, t),
         \A t1 \in TestIds, k1 \in Tries :
           ~(t1 = t /\ k1 = k) => call'[s][t1][k1] = call[s][t1][k1],
         status[s] \in FinalVerdicts => status'[s] \in FinalVerdicts \/ Rows(s) = {},
         status'[s] \in FinalVerdicts => Earned(s, status'[s]),
         Rows(s) # {} => status'[s] # "none",
         TestInv(s, t)', CallInv(s, t, k)', WitnessInv(s)'
  PROVE  SubInv(s)'
<1>1. submit[s].snap \subseteq TestIds
  BY DEF TypeOK, SubmitRec
<1>2. \A t1 \in TestIds : /\ Judged(s, t1)' = Judged(s, t1)
                          /\ job'[s][t1].id = job[s][t1].id
                          /\ job'[s][t1].tries = job[s][t1].tries
                          /\ Verdict(s, t1)' = Verdict(s, t1)
  BY DEF Judged, Verdict
<1>3. \A v : Earned(s, v) => Earned(s, v)'
  BY <1>1, <1>2, EarnedKept
<1>4. Rows(s)' = Rows(s)
  BY DEF Rows
<1>5. SubmitInv(s)'
  BY <1>4 DEF SubInv, SubmitInv
<1>6. \A t1 \in TestIds : TestInv(s, t1)'
  BY <1>2 DEF SubInv, TestInv
<1>7. \A t1 \in TestIds, k1 \in Tries : CallInv(s, t1, k1)'
  <2> SUFFICES ASSUME NEW t1 \in TestIds, NEW k1 \in Tries, ~(t1 = t /\ k1 = k)
               PROVE  CallInv(s, t1, k1)'
    OBVIOUS
  <2>1. CallInv(s, t1, k1) /\ call'[s][t1][k1] = call[s][t1][k1]
    BY DEF SubInv
  <2> QED
    BY <1>2, <1>3, <1>4, <2>1 DEF CallInv
<1> QED
  BY <1>3, <1>5, <1>6, <1>7 DEF SubInv

\* Answering a callback ends the tries of a job, if at all, and nothing else.
LEMMA RespondEffect ==
  ASSUME TypeOK, NEW s \in Subs, NEW t \in TestIds, NEW k \in Tries,
         NEW outcome \in {"ok", "notFound"}, Respond(s, t, k, outcome), SubInv(s)
  PROVE  /\ \A x \in Subs : x # s => job'[x] = job[x] /\ call'[x] = call[x]
         /\ \A t1 \in TestIds : t1 # t => job'[s][t1] = job[s][t1]
         /\ job'[s][t].id = job[s][t].id /\ job'[s][t].tries = job[s][t].tries
         /\ Judged(s, t)' = Judged(s, t)
         /\ job'[s][t].conn => job'[s][t].st = "calling"
         /\ job'[s][t].st = job[s][t].st \/ job'[s][t].st = outcome
         /\ job'[s][t].st = job[s][t].st \/ job[s][t].st = "calling"
         /\ call'[s][t][k].pc = "done"
         /\ \A t1 \in TestIds, k1 \in Tries :
              ~(t1 = t /\ k1 = k) => call'[s][t1][k1] = call[s][t1][k1]
<1>1. job \in JobTable /\ job[s][t] \in JobRec /\ call \in CallTable
  BY DEF TypeOK, JobTable, CallTable
<1>2. job[s][t].conn => job[s][t].st = "calling"
  BY DEF SubInv, TestInv
<1>3. call' = [call EXCEPT ![s][t][k] = Call("done")]
  BY DEF Respond
<1>4. Call("done").pc = "done"
  BY DEF Call
<1>5. /\ \A x \in Subs : x # s => call'[x] = call[x]
      /\ call'[s][t][k].pc = "done"
      /\ \A t1 \in TestIds, k1 \in Tries :
              ~(t1 = t /\ k1 = k) => call'[s][t1][k1] = call[s][t1][k1]
  BY <1>1, <1>3, <1>4 DEF CallTable
<1>6. CASE job' = job
  <2>1. Judged(s, t)' = Judged(s, t)
    BY <1>6 DEF Judged
  <2> QED
    BY <1>2, <1>5, <1>6, <2>1
<1>7. CASE job' # job
  <2> DEFINE r == [job[s][t] EXCEPT !.st = outcome, !.conn = FALSE]
  <2>1. job' = [job EXCEPT ![s][t] = r] /\ job[s][t].conn
    BY <1>7 DEF Respond
  <2>2. /\ r.st = outcome /\ r.id = job[s][t].id /\ r.tries = job[s][t].tries
        /\ r.conn = FALSE
    BY <1>1 DEF JobRec
  <2> HIDE DEF r
  <2>3. /\ job'[s][t] = r
        /\ \A x \in Subs : x # s => job'[x] = job[x]
        /\ \A t1 \in TestIds : t1 # t => job'[s][t1] = job[s][t1]
    BY <1>1, <2>1 DEF JobTable
  <2> QED
    BY <1>2, <1>5, <2>1, <2>2, <2>3 DEF Judged
<1> QED
  BY <1>6, <1>7

\* FindCase keeps the invariant.
LEMMA FindCaseInv ==
  ASSUME GradingInv, TypeOK', NEW s \in Subs, NEW t \in TestIds, NEW k \in Tries,
         FindCase(s, t, k)
  PROVE  \A x \in Subs : SubInv(x)'
<1>1. UNCHANGED <<crashes, submit, status, caseStatus>>
  BY DEF FindCase, submissionRow
<1>2. SubInv(s) /\ TypeOK /\ TestInv(s, t) /\ CallInv(s, t, k) /\ WitnessInv(s)
  BY DEF GradingInv, SubInv
<1>3. call[s][t][k].pc = "find"
  BY DEF FindCase
<1>4. submit[s].snap \subseteq TestIds
  BY <1>2 DEF TypeOK, SubmitRec
<1>5. /\ status[s] \in FinalVerdicts => Earned(s, status[s])
      /\ Rows(s) # {} => status[s] # "none"
  BY <1>2 DEF SubInv, SubmitInv
<1>6. CASE caseStatus[s][t] = "none"
  <2>1. Respond(s, t, k, "notFound")
    BY <1>6 DEF FindCase
  <2>2. /\ \A x \in Subs : x # s => job'[x] = job[x] /\ call'[x] = call[x]
        /\ \A t1 \in TestIds : t1 # t => job'[s][t1] = job[s][t1]
        /\ job'[s][t].id = job[s][t].id /\ job'[s][t].tries = job[s][t].tries
        /\ Judged(s, t)' = Judged(s, t)
        /\ job'[s][t].conn => job'[s][t].st = "calling"
        /\ job'[s][t].st = job[s][t].st \/ job'[s][t].st = "notFound"
        /\ job'[s][t].st = job[s][t].st \/ job[s][t].st = "calling"
        /\ call'[s][t][k].pc = "done"
        /\ \A t1 \in TestIds, k1 \in Tries :
              ~(t1 = t /\ k1 = k) => call'[s][t1][k1] = call[s][t1][k1]
    BY <1>2, <2>1, RespondEffect
  <2>3. \A x \in Subs : x # s => SubInv(x)'
    BY <1>1, <2>2, Untouched DEF GradingInv
  <2>4. TestInv(s, t)'
    BY <1>1, <1>2, <1>6, <2>2 DEF TestInv
  <2>5. CallInv(s, t, k)'
    BY <1>1, <1>2, <1>3, <2>2 DEF CallInv, Serving
  <2>6. WitnessInv(s)'
    BY <1>1, <1>2, <1>3, <1>4, <2>2 DEF WitnessInv, CasesFinal, WillGrade
  <2>7. SubInv(s)'
    BY <1>1, <1>2, <1>5, <2>2, <2>4, <2>5, <2>6, CallMoves
  <2> QED
    BY <2>3, <2>7
<1>7. CASE caseStatus[s][t] # "none"
  <2> DEFINE r == [call[s][t][k] EXCEPT !.pc = "update"]
  <2>1. call' = [call EXCEPT ![s][t][k] = r] /\ job' = job
    BY <1>7 DEF FindCase
  <2>2. call[s][t][k] \in CallRec
    BY <1>2 DEF TypeOK
  <2>3. r \in CallRec /\ r.pc = "update"
    BY <2>2, CallPcSet, PcTypes
  <2> HIDE DEF r
  <2>4. /\ \A x \in Subs : x # s => call'[x] = call[x]
        /\ call'[s][t][k] = r
        /\ \A t1 \in TestIds, k1 \in Tries :
              ~(t1 = t /\ k1 = k) => call'[s][t1][k1] = call[s][t1][k1]
    BY <1>2, <2>1, <2>3 DEF TypeOK
  <2>5. \A x \in Subs : x # s => SubInv(x)'
    BY <1>1, <2>1, <2>4, Untouched DEF GradingInv
  <2>6. submit[s].pc = "done"
    BY <1>2, <1>7 DEF SubInv, SubmitInv, Rows
  <2>7. TestInv(s, t)' /\ Judged(s, t)' = Judged(s, t)
    BY <1>1, <1>2, <2>1 DEF TestInv, Judged, Verdict
  <2>8. CallInv(s, t, k)'
    BY <1>1, <1>2, <1>3, <2>1, <2>3, <2>4, <2>6, <2>7 DEF CallInv, Serving
  <2>9. WitnessInv(s)'
    BY <1>1, <1>2, <1>3, <1>4, <2>1, <2>3, <2>4 DEF WitnessInv, CasesFinal, WillGrade
  <2>10. SubInv(s)'
    BY <1>1, <1>2, <1>5, <2>1, <2>4, <2>7, <2>8, <2>9, CallMoves
  <2> QED
    BY <2>5, <2>10
<1> QED
  BY <1>6, <1>7

\* UpdateCase keeps the invariant; the handler that makes the last case final
\* becomes the witness that the verdict will be written.
LEMMA UpdateCaseInv ==
  ASSUME GradingInv, TypeOK', NEW s \in Subs, NEW t \in TestIds, NEW k \in Tries,
         UpdateCase(s, t, k), caseStatus[s][t] # "none"
  PROVE  \A x \in Subs : SubInv(x)'
<1> DEFINE r == [call[s][t][k] EXCEPT !.pc = "reread"]
<1>1. UNCHANGED <<crashes, submit, status, job>>
  BY DEF UpdateCase, submissionRow
<1>2. SubInv(s) /\ TypeOK /\ TestInv(s, t) /\ CallInv(s, t, k) /\ WitnessInv(s)
  BY DEF GradingInv, SubInv
<1>3. call[s][t][k].pc = "update" /\ Judged(s, t) /\ submit[s].pc = "done"
  BY <1>2 DEF UpdateCase, CallInv, Serving
<1>4. Verdict(s, t) \in FinalVerdicts
  BY <1>2, <1>3, VerdictType DEF TestInv, Verdict, J0Final
<1>5. caseStatus' = [caseStatus EXCEPT ![s][t] = Verdict(s, t)]
      /\ call' = [call EXCEPT ![s][t][k] = r]
  BY DEF UpdateCase
<1>6. call[s][t][k] \in CallRec
  BY <1>2 DEF TypeOK
<1>7. r \in CallRec /\ r.pc = "reread"
  BY <1>6, CallPcSet, PcTypes
<1> HIDE DEF r
<1>8. /\ \A x \in Subs : x # s => call'[x] = call[x] /\ caseStatus'[x] = caseStatus[x]
      /\ call'[s][t][k] = r
      /\ \A t1 \in TestIds, k1 \in Tries :
            ~(t1 = t /\ k1 = k) => call'[s][t1][k1] = call[s][t1][k1]
      /\ \A t1 \in TestIds :
           caseStatus'[s][t1] = IF t1 = t THEN Verdict(s, t) ELSE caseStatus[s][t1]
  BY <1>2, <1>5, <1>7 DEF TypeOK
<1>9. \A x \in Subs : x # s => SubInv(x)'
  BY <1>1, <1>8, Untouched DEF GradingInv
<1>10. submit[s].snap \subseteq TestIds
  BY <1>2 DEF TypeOK, SubmitRec
<1>11. \A t1 \in TestIds : Judged(s, t1)' = Judged(s, t1) /\ Verdict(s, t1)' = Verdict(s, t1)
  BY <1>1 DEF Judged, Verdict
<1>12. \A v : Earned(s, v) => Earned(s, v)'
  BY <1>1, <1>10, <1>11, EarnedKept
<1>13. Rows(s)' = Rows(s)
  BY <1>4, <1>8 DEF Rows, FinalVerdicts
<1>14. SubmitInv(s)'
  BY <1>1, <1>2, <1>13 DEF SubInv, SubmitInv
<1>15. \A t1 \in TestIds : TestInv(s, t1)'
  <2> SUFFICES ASSUME NEW t1 \in TestIds PROVE TestInv(s, t1)'
    OBVIOUS
  <2>1. TestInv(s, t1)
    BY <1>2 DEF SubInv
  <2> QED
    BY <1>1, <1>3, <1>4, <1>8, <1>11, <2>1 DEF TestInv, FinalVerdicts
<1>16. \A t1 \in TestIds, k1 \in Tries : CallInv(s, t1, k1)'
  <2> SUFFICES ASSUME NEW t1 \in TestIds, NEW k1 \in Tries PROVE CallInv(s, t1, k1)'
    OBVIOUS
  <2>1. CallInv(s, t1, k1)
    BY <1>2 DEF SubInv
  <2>2. caseStatus'[s][t] # "PENDING" /\ (caseStatus[s][t1] # "PENDING" => caseStatus'[s][t1] # "PENDING")
    BY <1>4, <1>8 DEF FinalVerdicts
  <2>3. CASE t1 = t /\ k1 = k
    BY <1>1, <1>2, <1>3, <1>7, <1>8, <1>11, <2>2, <2>3 DEF CallInv, Serving
  <2>4. CASE ~(t1 = t /\ k1 = k)
    <3>1. call'[s][t1][k1] = call[s][t1][k1]
      BY <1>8, <2>4
    <3> QED
      BY <1>1, <1>11, <1>12, <1>13, <2>1, <2>2, <3>1 DEF CallInv
  <2> QED
    BY <2>3, <2>4
<1>17. WitnessInv(s)'
  <2> SUFFICES ASSUME CasesFinal(s)', status'[s] \notin FinalVerdicts
               PROVE  \E t1 \in submit'[s].snap :
                        /\ job'[s][t1].st # "ok"
                        /\ \A k1 \in Tries : call'[s][t1][k1].pc = "write" => call'[s][t1][k1].allDone
                        /\ crashes' = 0 => \E k1 \in Tries : WillGrade(s, t1, k1)'
    BY DEF WitnessInv
  <2>1. CASE CasesFinal(s)
    <3>1. PICK t1 \in submit[s].snap :
                        /\ job[s][t1].st # "ok"
                        /\ \A k1 \in Tries : call[s][t1][k1].pc = "write" => call[s][t1][k1].allDone
                        /\ crashes = 0 => \E k1 \in Tries : WillGrade(s, t1, k1)
      BY <1>1, <1>2, <2>1 DEF WitnessInv
    <3>2. \A k1 \in Tries : call'[s][t1][k1].pc = "write" => call'[s][t1][k1].allDone
      BY <1>7, <1>8, <1>10, <3>1
    <3>3. \A k1 \in Tries : WillGrade(s, t1, k1) => WillGrade(s, t1, k1)'
      BY <1>3, <1>7, <1>8, <1>10, <3>1 DEF WillGrade
    <3> QED
      BY <1>1, <3>1, <3>2, <3>3
  <2>2. CASE ~CasesFinal(s)
    <3>1. t \in submit[s].snap
      BY <1>2, <1>3 DEF TestInv, Judged
    <3>2. caseStatus[s][t] \notin FinalVerdicts
      BY <1>1, <1>8, <1>10, <2>2, <1>4 DEF CasesFinal
    <3>3. caseStatus[s][t] = "PENDING"
      BY <1>2, <1>4, <3>2 DEF TestInv
    <3>4. job[s][t].st # "ok"
      BY <1>2, <3>3 DEF TestInv
    <3>5. \A k1 \in Tries : call[s][t][k1].pc # "write"
      BY <1>2, <3>3 DEF SubInv, CallInv, Serving
    <3>6. \A k1 \in Tries : call'[s][t][k1].pc # "write"
      BY <1>7, <1>8, <3>5
    <3>7. WillGrade(s, t, k)'
      BY <1>7, <1>8 DEF WillGrade
    <3> QED
      BY <1>1, <3>1, <3>4, <3>6, <3>7
  <2> QED
    BY <2>1, <2>2
<1>18. SubInv(s)'
  BY <1>1, <1>2, <1>12, <1>14, <1>15, <1>16, <1>17 DEF SubInv
<1> QED
  BY <1>9, <1>18

\* RereadCases keeps the invariant: a witness that rereads sees all cases final.
LEMMA RereadCasesInv ==
  ASSUME GradingInv, TypeOK', NEW s \in Subs, NEW t \in TestIds, NEW k \in Tries,
         RereadCases(s, t, k)
  PROVE  \A x \in Subs : SubInv(x)'
<1> DEFINE overall == IF AllDone(s) THEN CombineVerdicts(CaseStatuses(s)) ELSE "PENDING"
           r == [call[s][t][k] EXCEPT !.pc = "write", !.allDone = AllDone(s),
                                      !.overall = overall,
                                      !.passed = Cardinality(PassedRows(s))]
<1>1. UNCHANGED <<crashes, submit, status, job, caseStatus>>
  BY DEF RereadCases, submissionRow
<1>2. SubInv(s) /\ TypeOK /\ TestInv(s, t) /\ CallInv(s, t, k) /\ WitnessInv(s)
  BY DEF GradingInv, SubInv
<1>3. /\ call[s][t][k].pc = "reread" /\ Judged(s, t) /\ submit[s].pc = "done"
      /\ k <= job[s][t].tries /\ caseStatus[s][t] # "PENDING"
  BY <1>2 DEF RereadCases, CallInv, Serving
<1>4. call' = [call EXCEPT ![s][t][k] = r]
  BY DEF RereadCases
<1>5. call[s][t][k] \in CallRec /\ AllDone(s) \in BOOLEAN
  BY <1>2 DEF TypeOK, AllDone
<1>6. r.pc = "write" /\ r.allDone = AllDone(s) /\ r.overall = overall
  <2> HIDE DEF overall
  <2> QED
    BY <1>5 DEF CallRec
<1> HIDE DEF r
<1>7. /\ \A x \in Subs : x # s => call'[x] = call[x]
      /\ call'[s][t][k] = r
      /\ \A t1 \in TestIds, k1 \in Tries :
            ~(t1 = t /\ k1 = k) => call'[s][t1][k1] = call[s][t1][k1]
  BY <1>2, <1>4 DEF TypeOK
<1>8. \A x \in Subs : x # s => SubInv(x)'
  BY <1>1, <1>7, Untouched DEF GradingInv
<1>9. submit[s].snap \subseteq TestIds /\ Rows(s) \subseteq TestIds
  BY <1>2 DEF TypeOK, SubmitRec, Rows
<1>10. AllDone(s) => IF Rows(s) = {} THEN overall = "PENDING"
                                    ELSE overall # "PENDING" /\ Earned(s, overall)
  <2> SUFFICES ASSUME AllDone(s)
               PROVE  IF Rows(s) = {} THEN overall = "PENDING"
                                      ELSE overall # "PENDING" /\ Earned(s, overall)
    OBVIOUS
  <2>1. CASE Rows(s) = {}
    <3>1. CaseStatuses(s) = {}
      BY <2>1 DEF CaseStatuses
    <3> QED
      BY <2>1, <3>1 DEF CombineVerdicts
  <2>2. CASE Rows(s) # {}
    <3>1. Rows(s) = submit[s].snap
      BY <1>2, <2>2 DEF SubInv, SubmitInv
    <3>2. \A t1 \in Rows(s) : Judged(s, t1) /\ caseStatus[s][t1] = Verdict(s, t1)
                              /\ caseStatus[s][t1] \in FinalVerdicts
      <4> SUFFICES ASSUME NEW t1 \in Rows(s)
                   PROVE  Judged(s, t1) /\ caseStatus[s][t1] = Verdict(s, t1)
                          /\ caseStatus[s][t1] \in FinalVerdicts
        OBVIOUS
      <4>1. caseStatus[s][t1] \notin {"none", "PENDING", "RUNNING"}
        BY DEF AllDone, IsFinalVerdict, Rows
      <4>2. caseStatus[s][t1] \in SubmissionStatus \cup {"none"}
        BY <1>2, <1>9 DEF TypeOK
      <4> QED
        BY <1>2, <1>9, <4>1, <4>2 DEF SubInv, TestInv, SubmissionStatus
    <3>3. CaseStatuses(s) = {Verdict(s, t1) : t1 \in submit[s].snap}
      BY <3>1, <3>2 DEF CaseStatuses
    <3>4. CaseStatuses(s) \in SUBSET FinalVerdicts /\ CaseStatuses(s) # {}
      BY <2>2, <3>2 DEF CaseStatuses
    <3>5. overall \in FinalVerdicts
      BY <3>4, CombineFinal
    <3>6. overall # "PENDING"
      BY <3>5 DEF FinalVerdicts
    <3>7. Earned(s, overall)
      BY <2>2, <3>1, <3>2, <3>3 DEF Earned
    <3> QED
      BY <2>2, <3>6, <3>7
  <2> QED
    BY <2>1, <2>2
<1>11. CasesFinal(s) => AllDone(s)
  <2>1. SUFFICES ASSUME CasesFinal(s) PROVE AllDone(s)
    OBVIOUS
  <2>2. \A t1 \in submit[s].snap : t1 \in Rows(s)
    BY <1>9, <2>1 DEF CasesFinal, Rows, FinalVerdicts
  <2>3. Rows(s) = submit[s].snap
    BY <1>2, <2>1, <2>2 DEF CasesFinal, SubInv, SubmitInv
  <2> QED
    BY <2>1, <2>3 DEF AllDone, CasesFinal, IsFinalVerdict, FinalVerdicts
<1> HIDE DEF overall
<1>12. Judged(s, t)' = Judged(s, t) /\ Verdict(s, t)' = Verdict(s, t) /\ Rows(s)' = Rows(s)
  BY <1>1 DEF Judged, Verdict, Rows
<1>13. \A v : Earned(s, v) => Earned(s, v)'
  BY <1>1, EarnedKept DEF Judged
<1>14. TestInv(s, t)'
  BY <1>1, <1>2, <1>12 DEF TestInv
<1>15. CallInv(s, t, k)'
  BY <1>1, <1>3, <1>6, <1>7, <1>10, <1>12, <1>13 DEF CallInv, Serving
<1>16. WitnessInv(s)'
  <2> SUFFICES ASSUME CasesFinal(s)', status'[s] \notin FinalVerdicts
               PROVE  \E t1 \in submit'[s].snap :
                        /\ job'[s][t1].st # "ok"
                        /\ \A k1 \in Tries : call'[s][t1][k1].pc = "write" => call'[s][t1][k1].allDone
                        /\ crashes' = 0 => \E k1 \in Tries : WillGrade(s, t1, k1)'
    BY DEF WitnessInv
  <2>1. CasesFinal(s) /\ AllDone(s)
    BY <1>1, <1>11 DEF CasesFinal
  <2>2. PICK t1 \in submit[s].snap :
                        /\ job[s][t1].st # "ok"
                        /\ \A k1 \in Tries : call[s][t1][k1].pc = "write" => call[s][t1][k1].allDone
                        /\ crashes = 0 => \E k1 \in Tries : WillGrade(s, t1, k1)
    BY <1>1, <1>2, <2>1 DEF WitnessInv
  <2>3. \A k1 \in Tries : call'[s][t1][k1].pc = "write" => call'[s][t1][k1].allDone
    BY <1>6, <1>7, <1>9, <2>1, <2>2
  <2>4. ASSUME NEW k1 \in Tries, WillGrade(s, t1, k1) PROVE WillGrade(s, t1, k1)'
    <3>1. CASE t1 = t /\ k1 = k
      BY <1>6, <1>7, <2>1, <3>1 DEF WillGrade
    <3>2. CASE ~(t1 = t /\ k1 = k)
      <4>1. call'[s][t1][k1] = call[s][t1][k1]
        BY <1>7, <1>9, <3>2
      <4> QED
        BY <2>4, <4>1 DEF WillGrade
    <3> QED
      BY <3>1, <3>2
  <2> QED
    BY <1>1, <2>2, <2>3, <2>4
<1>17. /\ status[s] \in FinalVerdicts => Earned(s, status[s])
       /\ Rows(s) # {} => status[s] # "none"
  BY <1>2 DEF SubInv, SubmitInv
<1>18. SubInv(s)'
  BY <1>1, <1>2, <1>7, <1>12, <1>14, <1>15, <1>16, <1>17, CallMoves
<1> QED
  BY <1>8, <1>18

\* A handler that is through with the verdict does not disturb the witness.
LEMMA WitnessKept ==
  ASSUME TypeOK, NEW s \in Subs, NEW t \in TestIds, NEW k \in Tries, SubInv(s),
         UNCHANGED <<crashes, submit, status, caseStatus>>,
         call[s][t][k].pc \in {"score", "upsert"},
         \A t1 \in TestIds : t1 # t => job'[s][t1] = job[s][t1],
         \A t1 \in TestIds, k1 \in Tries :
           ~(t1 = t /\ k1 = k) => call'[s][t1][k1] = call[s][t1][k1]
  PROVE  WitnessInv(s)'
<1>1. status[s] \in FinalVerdicts \/ Rows(s) = {}
  BY DEF SubInv, CallInv
<1>2. submit[s].snap \subseteq TestIds
  BY DEF TypeOK, SubmitRec
<1>3. Rows(s) = {} => ~CasesFinal(s)'
  BY <1>2 DEF Rows, CasesFinal, FinalVerdicts
<1> QED
  BY <1>1, <1>3 DEF WitnessInv

\* ReadAccepted keeps the invariant.
LEMMA ReadAcceptedInv ==
  ASSUME GradingInv, TypeOK', NEW s \in Subs, NEW t \in TestIds, NEW k \in Tries,
         ReadAccepted(s, t, k)
  PROVE  \A x \in Subs : SubInv(x)'
<1> DEFINE r == [call[s][t][k] EXCEPT !.pc = "upsert",
                    !.solved = Solved(UserOf[s]) \cap ContestProblems]
<1>1. UNCHANGED <<crashes, submit, status, job, caseStatus>>
  BY DEF ReadAccepted, submissionRow
<1>2. SubInv(s) /\ TypeOK /\ TestInv(s, t) /\ CallInv(s, t, k)
  BY DEF GradingInv, SubInv
<1>3. call[s][t][k].pc = "score" /\ call[s][t][k] \in CallRec
  BY <1>2 DEF ReadAccepted, TypeOK
<1>4. call' = [call EXCEPT ![s][t][k] = r]
  BY DEF ReadAccepted
<1>5. r.pc = "upsert"
  BY <1>3 DEF CallRec
<1> HIDE DEF r
<1>6. /\ \A x \in Subs : x # s => call'[x] = call[x]
      /\ call'[s][t][k] = r
      /\ \A t1 \in TestIds, k1 \in Tries :
            ~(t1 = t /\ k1 = k) => call'[s][t1][k1] = call[s][t1][k1]
  BY <1>2, <1>4 DEF TypeOK
<1>7. \A x \in Subs : x # s => SubInv(x)'
  BY <1>1, <1>6, Untouched DEF GradingInv
<1>8. Judged(s, t)' = Judged(s, t) /\ Verdict(s, t)' = Verdict(s, t) /\ Rows(s)' = Rows(s)
  BY <1>1 DEF Judged, Verdict, Rows
<1>9. TestInv(s, t)'
  BY <1>1, <1>2, <1>8 DEF TestInv
<1>10. CallInv(s, t, k)'
  BY <1>1, <1>2, <1>3, <1>5, <1>6, <1>8 DEF CallInv, Serving
<1>11. WitnessInv(s)'
  BY <1>1, <1>2, <1>3, <1>6, WitnessKept
<1>12. /\ status[s] \in FinalVerdicts => Earned(s, status[s])
       /\ Rows(s) # {} => status[s] # "none"
  BY <1>2 DEF SubInv, SubmitInv
<1>13. SubInv(s)'
  BY <1>1, <1>2, <1>6, <1>8, <1>9, <1>10, <1>11, <1>12, CallMoves
<1> QED
  BY <1>7, <1>13

\* UpsertScore keeps the invariant.
LEMMA UpsertScoreInv ==
  ASSUME GradingInv, TypeOK', NEW s \in Subs, NEW t \in TestIds, NEW k \in Tries,
         UpsertScore(s, t, k)
  PROVE  \A x \in Subs : SubInv(x)'
<1>1. UNCHANGED <<crashes, submit, status, caseStatus>> /\ Respond(s, t, k, "ok")
  BY DEF UpsertScore, submissionRow
<1>2. SubInv(s) /\ TypeOK /\ TestInv(s, t) /\ CallInv(s, t, k)
  BY DEF GradingInv, SubInv
<1>3. /\ call[s][t][k].pc = "upsert" /\ submit[s].pc = "done"
      /\ caseStatus[s][t] # "PENDING" /\ Judged(s, t) /\ k <= job[s][t].tries
  BY <1>2 DEF UpsertScore, CallInv, Serving
<1>4. /\ \A x \in Subs : x # s => job'[x] = job[x] /\ call'[x] = call[x]
      /\ \A t1 \in TestIds : t1 # t => job'[s][t1] = job[s][t1]
      /\ job'[s][t].id = job[s][t].id /\ job'[s][t].tries = job[s][t].tries
      /\ Judged(s, t)' = Judged(s, t)
      /\ job'[s][t].conn => job'[s][t].st = "calling"
      /\ call'[s][t][k].pc = "done"
      /\ \A t1 \in TestIds, k1 \in Tries :
            ~(t1 = t /\ k1 = k) => call'[s][t1][k1] = call[s][t1][k1]
  BY <1>1, <1>2, RespondEffect
<1>5. \A x \in Subs : x # s => SubInv(x)'
  BY <1>1, <1>4, Untouched DEF GradingInv
<1>6. Verdict(s, t)' = Verdict(s, t) /\ Rows(s)' = Rows(s)
  BY <1>1, <1>4 DEF Verdict, Rows
<1>7. TestInv(s, t)'
  BY <1>1, <1>2, <1>3, <1>4, <1>6 DEF TestInv, Judged
<1>8. CallInv(s, t, k)'
  BY <1>1, <1>3, <1>4 DEF CallInv, Serving
<1>9. WitnessInv(s)'
  BY <1>1, <1>2, <1>3, <1>4, WitnessKept
<1>10. /\ status[s] \in FinalVerdicts => Earned(s, status[s])
       /\ Rows(s) # {} => status[s] # "none"
  BY <1>2 DEF SubInv, SubmitInv
<1>11. SubInv(s)'
  BY <1>1, <1>2, <1>4, <1>7, <1>8, <1>9, <1>10, CallMoves
<1> QED
  BY <1>5, <1>11

\* WriteSubmission keeps the invariant: a complete snapshot writes an earned
\* verdict, an incomplete one leaves the witness of another test alone.
LEMMA WriteSubmissionInv ==
  ASSUME GradingInv, TypeOK', NEW s \in Subs, NEW t \in TestIds, NEW k \in Tries,
         WriteSubmission(s, t, k), ~ProcessDies
  PROVE  \A x \in Subs : SubInv(x)'
<1> DEFINE c == call[s][t][k]
           r == [call[s][t][k] EXCEPT !.pc = "score"]
<1>1. UNCHANGED <<crashes, submit, caseStatus>> /\ status[s] # "none"
      /\ status' = IF c.allDone THEN [status EXCEPT ![s] = c.overall] ELSE status
  BY DEF WriteSubmission
<1>2. /\ SubInv(s) /\ TypeOK /\ TestInv(s, t) /\ CallInv(s, t, k) /\ WitnessInv(s)
      /\ c \in CallRec
  BY DEF GradingInv, SubInv, TypeOK
<1>3. /\ c.pc = "write" /\ submit[s].pc = "done"
      /\ caseStatus[s][t] # "PENDING" /\ Judged(s, t) /\ k <= job[s][t].tries
  BY <1>2 DEF WriteSubmission, CallInv, Serving
<1>4. submit[s].snap \subseteq TestIds
  BY <1>2 DEF TypeOK, SubmitRec
<1>5. \A x \in Subs : status'[x] = IF x = s /\ c.allDone THEN c.overall ELSE status[x]
  BY <1>1, <1>2 DEF TypeOK
<1>6. c.overall \in SubmissionStatus
  BY <1>2 DEF CallRec
<1>7. c.allDone => IF c.overall = "PENDING" THEN Rows(s) = {} ELSE Earned(s, c.overall)
  BY <1>2, <1>3 DEF CallInv
<1>8. /\ \A x \in Subs : x # s => job'[x] = job[x] /\ call'[x] = call[x]
      /\ \A t1 \in TestIds : t1 # t => job'[s][t1] = job[s][t1]
      /\ job'[s][t].id = job[s][t].id /\ job'[s][t].tries = job[s][t].tries
      /\ Judged(s, t)' = Judged(s, t)
      /\ job'[s][t].conn => job'[s][t].st = "calling"
      /\ call'[s][t][k].pc \in {"score", "done"}
      /\ call'[s][t][k].pc = "score" => c.allDone /\ c.overall = "AC"
      /\ \A t1 \in TestIds, k1 \in Tries :
            ~(t1 = t /\ k1 = k) => call'[s][t1][k1] = call[s][t1][k1]
  <2>1. CASE Respond(s, t, k, "ok")
    BY <1>2, <2>1, RespondEffect
  <2>2. CASE ~Respond(s, t, k, "ok")
    <3>1. /\ call' = [call EXCEPT ![s][t][k] = r] /\ job' = job
          /\ c.allDone /\ c.overall = "AC"
      BY <2>2 DEF WriteSubmission
    <3>2. r \in CallRec /\ r.pc = "score"
      BY <1>2, CallPcSet, PcTypes
    <3> HIDE DEF r
    <3>3. /\ \A x \in Subs : x # s => call'[x] = call[x]
          /\ call'[s][t][k] = r
          /\ \A t1 \in TestIds, k1 \in Tries :
                ~(t1 = t /\ k1 = k) => call'[s][t1][k1] = call[s][t1][k1]
      BY <1>2, <3>1 DEF TypeOK
    <3>4. Judged(s, t)' = Judged(s, t) /\ (job'[s][t].conn => job'[s][t].st = "calling")
      BY <1>2, <3>1 DEF Judged, TestInv
    <3> QED
      BY <3>1, <3>2, <3>3, <3>4
  <2> QED
    BY <2>1, <2>2
<1> HIDE DEF r
<1>9. \A x \in Subs : x # s => SubInv(x)'
  BY <1>1, <1>5, <1>8, Untouched DEF GradingInv
<1>10. Verdict(s, t)' = Verdict(s, t) /\ Rows(s)' = Rows(s)
  BY <1>1, <1>8 DEF Verdict, Rows
<1>11. TestInv(s, t)'
  BY <1>1, <1>2, <1>3, <1>8, <1>10 DEF TestInv, Judged
<1>12. CallInv(s, t, k)'
  <2>1. call'[s][t][k].pc = "score" => status'[s] \in FinalVerdicts
    BY <1>5, <1>8 DEF FinalVerdicts
  <2> QED
    BY <1>1, <1>3, <1>8, <2>1 DEF CallInv, Serving
<1>13. WitnessInv(s)'
  <2> SUFFICES ASSUME CasesFinal(s)', status'[s] \notin FinalVerdicts
               PROVE  \E t1 \in submit'[s].snap :
                        /\ job'[s][t1].st # "ok"
                        /\ \A k1 \in Tries : call'[s][t1][k1].pc = "write" => call'[s][t1][k1].allDone
                        /\ crashes' = 0 => \E k1 \in Tries : WillGrade(s, t1, k1)'
    BY DEF WitnessInv
  <2>1. CasesFinal(s)
    BY <1>1 DEF CasesFinal
  <2>2. Rows(s) # {}
    BY <1>4, <2>1 DEF CasesFinal, Rows, FinalVerdicts
  <2>3. ~c.allDone
    <3> SUFFICES ASSUME c.allDone PROVE FALSE
      OBVIOUS
    <3>1. c.overall # "PENDING" /\ Earned(s, c.overall)
      BY <1>7, <2>2
    <3>2. {Verdict(s, t1) : t1 \in submit[s].snap} \in SUBSET FinalVerdicts
      <4>1. \A t1 \in submit[s].snap : Verdict(s, t1) = caseStatus[s][t1]
        BY <1>2, <1>4, <2>1 DEF SubInv, TestInv, CasesFinal, FinalVerdicts
      <4> QED
        BY <2>1, <4>1 DEF CasesFinal
    <3>3. c.overall \in FinalVerdicts
      BY <3>1, <3>2, CombineFinal DEF Earned
    <3> QED
      BY <1>5, <3>3
  <2>4. status[s] \notin FinalVerdicts
    BY <1>5, <2>3
  <2>5. PICK t1 \in submit[s].snap :
                        /\ job[s][t1].st # "ok"
                        /\ \A k1 \in Tries : call[s][t1][k1].pc = "write" => call[s][t1][k1].allDone
                        /\ crashes = 0 => \E k1 \in Tries : WillGrade(s, t1, k1)
    BY <1>2, <2>1, <2>4 DEF WitnessInv
  <2>6. t1 # t /\ t1 \in TestIds
    BY <1>3, <1>4, <2>3, <2>5
  <2>7. \A k1 \in Tries : WillGrade(s, t1, k1) => WillGrade(s, t1, k1)'
    BY <1>8, <2>6 DEF WillGrade
  <2> QED
    BY <1>1, <1>8, <2>5, <2>6, <2>7
<1>14. /\ status[s] \in FinalVerdicts => status'[s] \in FinalVerdicts \/ Rows(s) = {}
       /\ status'[s] \in FinalVerdicts => Earned(s, status'[s])
       /\ Rows(s) # {} => status'[s] # "none"
  <2>1. CASE c.allDone /\ c.overall # "PENDING"
    <3>1. Earned(s, c.overall)
      BY <1>7, <2>1
    <3>2. {Verdict(s, t1) : t1 \in submit[s].snap} \in SUBSET FinalVerdicts
      <4>1. \A t1 \in submit[s].snap : Judged(s, t1) /\ t1 \in TestIds
        BY <1>4, <3>1 DEF Earned
      <4>2. \A t1 \in submit[s].snap : job[s][t1].id \in J0Final
        BY <1>2, <4>1 DEF SubInv, TestInv
      <4> QED
        BY <4>2, VerdictType DEF Verdict, J0Final
    <3>3. c.overall \in FinalVerdicts
      BY <3>1, <3>2, CombineFinal DEF Earned
    <3> QED
      BY <1>5, <2>1, <3>1, <3>3 DEF FinalVerdicts
  <2>2. CASE c.allDone /\ c.overall = "PENDING"
    BY <1>5, <1>7, <2>2 DEF FinalVerdicts
  <2>3. CASE ~c.allDone
    BY <1>2, <1>5, <2>3 DEF SubInv, SubmitInv
  <2> QED
    BY <2>1, <2>2, <2>3
<1>15. SubInv(s)'
  BY <1>1, <1>2, <1>8, <1>11, <1>12, <1>13, <1>14, CallMoves
<1> QED
  BY <1>9, <1>15

\* The process dies: handlers and requests are gone, rows and jobs stay.
LEMMA ProcessDiesInv ==
  ASSUME GradingInv, TypeOK', ProcessDies
  PROVE  \A x \in Subs : SubInv(x)'
<1> SUFFICES ASSUME NEW s \in Subs PROVE SubInv(s)'
  OBVIOUS
<1>1. /\ SubInv(s) /\ TypeOK /\ submit[s] \in SubmitRec /\ submit[s].snap \subseteq TestIds
      /\ \A t \in TestIds : job[s][t] \in JobRec
  BY DEF GradingInv, TypeOK, SubmitRec
<1>2. UNCHANGED <<status, caseStatus>> /\ Rows(s)' = Rows(s)
  BY DEF ProcessDies, submissionRow, Rows
<1>3. crashes' # 0
  BY <1>1 DEF ProcessDies, TypeOK
<1>4. /\ submit'[s].snap = submit[s].snap
      /\ submit[s].pc \in InFlight => submit'[s].pc = "failed"
      /\ submit[s].pc \notin InFlight => submit'[s] = submit[s]
  BY <1>1, SubmitPcSet, PcTypes DEF ProcessDies
<1>5. \A t \in TestIds :
        /\ job'[s][t].st = job[s][t].st /\ job'[s][t].id = job[s][t].id
        /\ job'[s][t].tries = job[s][t].tries /\ job'[s][t].conn = FALSE
  <2> SUFFICES ASSUME NEW t \in TestIds
               PROVE  /\ job'[s][t].st = job[s][t].st /\ job'[s][t].id = job[s][t].id
                      /\ job'[s][t].tries = job[s][t].tries /\ job'[s][t].conn = FALSE
    OBVIOUS
  <2>1. job'[s][t] = [job[s][t] EXCEPT !.conn = FALSE]
    BY DEF ProcessDies
  <2>2. job[s][t] \in JobRec
    BY <1>1
  <2> QED
    BY <2>1, <2>2 DEF JobRec
<1>6. \A t \in TestIds, k \in Tries :
        /\ call'[s][t][k].pc \notin Serving
        /\ call[s][t][k].pc = "idle" => call'[s][t][k].pc = "idle"
  <2>1. Call("dead").pc \notin Serving
    BY CallType, PcTypes DEF Serving
  <2> QED
    BY <2>1 DEF ProcessDies, Serving
<1>7. \A t \in TestIds : /\ Judged(s, t)' = Judged(s, t)
                         /\ Verdict(s, t)' = Verdict(s, t)
  BY <1>5 DEF Judged, Verdict
<1>8. \A v : Earned(s, v) => Earned(s, v)'
  BY <1>1, <1>4, <1>5, <1>7, EarnedKept
<1>9. SubmitInv(s)'
  BY <1>1, <1>2, <1>4 DEF SubInv, SubmitInv, InFlight
<1>10. WitnessInv(s)'
  BY <1>1, <1>2, <1>3, <1>4, <1>5, <1>6 DEF SubInv, WitnessInv, CasesFinal, Serving
<1>11. \A t \in TestIds : TestInv(s, t)'
  BY <1>1, <1>2, <1>4, <1>5, <1>7 DEF SubInv, TestInv, InFlight
<1>12. \A t \in TestIds, k \in Tries : CallInv(s, t, k)'
  <2> SUFFICES ASSUME NEW t \in TestIds, NEW k \in Tries PROVE CallInv(s, t, k)'
    OBVIOUS
  <2>1. CallInv(s, t, k)
    BY <1>1 DEF SubInv
  <2> QED
    BY <1>5, <1>6, <1>7, <2>1 DEF CallInv, Serving
<1> QED
  BY <1>1, <1>2, <1>8, <1>9, <1>10, <1>11, <1>12 DEF SubInv

\* The cases of a submission are deleted with their tests, and perhaps the
\* submission with them: a handler that is on its way finds no row.
LEMMA CasesGone ==
  ASSUME TypeOK, NEW s \in Subs, SubInv(s),
         UNCHANGED <<crashes, submit, job, call>>,
         \A t \in TestIds : caseStatus'[s][t] = "none",
         status'[s] = status[s] \/ status'[s] = "none"
  PROVE  SubInv(s)'
<1>1. submit[s].snap \subseteq TestIds
  BY DEF TypeOK, SubmitRec
<1>2. Rows(s)' = {}
  BY DEF Rows
<1>3. \A v : Earned(s, v) => Earned(s, v)'
  BY EarnedKept DEF Judged
<1>4. \A t \in TestIds : /\ Judged(s, t)' = Judged(s, t) /\ Verdict(s, t)' = Verdict(s, t)
  BY DEF Judged, Verdict
<1>5. SubmitInv(s)'
  BY <1>2 DEF SubInv, SubmitInv
<1>6. WitnessInv(s)'
  BY <1>1 DEF WitnessInv, CasesFinal, FinalVerdicts
<1>7. \A t \in TestIds : TestInv(s, t)'
  BY <1>4 DEF SubInv, TestInv
<1>8. \A t \in TestIds, k \in Tries : CallInv(s, t, k)'
  BY <1>2, <1>3, <1>4 DEF SubInv, CallInv
<1>9. (status[s] \in FinalVerdicts => Earned(s, status[s]))'
  <2>1. status'[s] \in FinalVerdicts => status'[s] = status[s]
    BY DEF FinalVerdicts
  <2>2. \A v : v = status[s] /\ v \in FinalVerdicts => Earned(s, v)'
    BY <1>3 DEF SubInv
  <2> QED
    BY <2>1, <2>2
<1> QED
  BY <1>5, <1>6, <1>7, <1>8, <1>9 DEF SubInv

\* Replacing the tests of a problem keeps the invariant.
LEMMA AdminPutInv ==
  ASSUME GradingInv, TypeOK', NEW p \in Problems, AdminPut(p)
  PROVE  \A x \in Subs : SubInv(x)'
<1> SUFFICES ASSUME NEW s \in Subs PROVE SubInv(s)'
  OBVIOUS
<1>1. UNCHANGED <<crashes, submit, status, job, call>>
  BY DEF AdminPut, submissionRow
<1>2. CASE ProblemOf[s] = p
  BY <1>1, <1>2, CasesGone DEF GradingInv, AdminPut, Cascade
<1>3. CASE ProblemOf[s] # p
  BY <1>1, <1>3, Untouched DEF GradingInv, AdminPut, Cascade
<1> QED
  BY <1>2, <1>3

\* Deleting a problem keeps the invariant.
LEMMA AdminDeleteInv ==
  ASSUME GradingInv, TypeOK', NEW p \in Problems, AdminDelete(p)
  PROVE  \A x \in Subs : SubInv(x)'
<1> SUFFICES ASSUME NEW s \in Subs PROVE SubInv(s)'
  OBVIOUS
<1>1. UNCHANGED <<crashes, submit, job, call>>
  BY DEF AdminDelete
<1>2. CASE ProblemOf[s] = p
  BY <1>1, <1>2, CasesGone DEF GradingInv, AdminDelete, Cascade
<1>3. CASE ProblemOf[s] # p
  BY <1>1, <1>3, Untouched DEF GradingInv, AdminDelete, Cascade
<1> QED
  BY <1>2, <1>3

\* Seeding at the start of the process keeps the invariant.
LEMMA RestartInv ==
  ASSUME GradingInv, TypeOK', Restart
  PROVE  \A x \in Subs : SubInv(x)'
<1> SUFFICES ASSUME NEW s \in Subs PROVE SubInv(s)'
  OBVIOUS
<1>1. UNCHANGED <<crashes, submit, status, job, call>>
  BY DEF Restart, submissionRow
<1>2. caseStatus' = Cascade(Seeded \cap live)
  BY DEF Restart
<1>3. CASE ProblemOf[s] \in Seeded \cap live
  BY <1>1, <1>2, <1>3, CasesGone DEF GradingInv, Cascade
<1>4. CASE ProblemOf[s] \notin Seeded \cap live
  BY <1>1, <1>2, <1>4, Untouched DEF GradingInv, Cascade
<1> QED
  BY <1>3, <1>4

\* The invariant holds initially.
LEMMA GradingInit == Init => GradingInv
<1> SUFFICES ASSUME Init PROVE GradingInv
  OBVIOUS
<1>1. TypeOK
  BY TypeInit
<1>2. \A s \in Subs : SubInv(s)
  <2> SUFFICES ASSUME NEW s \in Subs PROVE SubInv(s)
    OBVIOUS
  <2>1. \A t \in TestIds : /\ job[s][t].st = "none" /\ ~job[s][t].conn
                           /\ caseStatus[s][t] = "none"
                           /\ \A k \in Tries : call[s][t][k].pc = "idle"
    BY DEF Init, NoJob, Call
  <2>2. submit[s].pc = "idle" /\ submit[s].snap = {} /\ status[s] \notin FinalVerdicts
    BY DEF Init, FinalVerdicts
  <2>3. SubmitInv(s)
    BY <2>1, <2>2 DEF SubmitInv, InFlight, Rows
  <2> QED
    BY <1>1, <2>1, <2>2, <2>3, Fresh
<1> QED
  BY <1>1, <1>2 DEF GradingInv

\* Every step keeps the invariant.
LEMMA GradingStep == GradingInv /\ [Next]_vars => GradingInv'
<1> SUFFICES ASSUME GradingInv, [Next]_vars PROVE GradingInv'
  OBVIOUS
<1>1. TypeOK'
  BY TypeStep DEF GradingInv
<1>2. ASSUME NEW s \in Subs, SubmitStep(s) PROVE \A x \in Subs : SubInv(x)'
  BY <1>1, <1>2, SubmitReadInv, SubmitCreateInv, JudgeAcceptInv, SubmitBatchThrowsInv,
     RecordSubmissionInv DEF SubmitStep
<1>3. ASSUME NEW s \in Subs, NEW t \in TestIds,
             JudgeFinish(s, t) \/ Deliver(s, t) \/ Refused(s, t) \/ CallTimesOut(s, t)
      PROVE  \A x \in Subs : SubInv(x)'
  BY <1>1, <1>3, JudgeFinishInv, DeliverInv, RefusedInv, CallTimesOutInv
<1>4. ASSUME NEW s \in Subs, NEW t \in TestIds, NEW k \in Tries, CallStep(s, t, k)
      PROVE  \A x \in Subs : SubInv(x)'
  <2>1. CASE ProcessDies
    BY <1>1, <2>1, ProcessDiesInv
  <2>2. CASE ~ProcessDies /\ UpdateCase(s, t, k)
    <3>1. caseStatus[s][t] # "none"
      BY <2>2 DEF UpdateCase
    <3> QED
      BY <1>1, <2>2, <3>1, UpdateCaseInv
  <2>3. CASE ~ProcessDies /\ ~UpdateCase(s, t, k)
    BY <1>1, <1>4, <2>3, FindCaseInv, RereadCasesInv, WriteSubmissionInv,
       ReadAcceptedInv, UpsertScoreInv DEF CallStep
  <2> QED
    BY <2>1, <2>2, <2>3
<1>5. ASSUME NEW p \in Problems, AdminPut(p) \/ AdminDelete(p)
      PROVE  \A x \in Subs : SubInv(x)'
  BY <1>1, <1>5, AdminPutInv, AdminDeleteInv
<1>6. ASSUME Crash PROVE \A x \in Subs : SubInv(x)'
  BY <1>1, <1>6, ProcessDiesInv DEF Crash
<1>7. ASSUME Restart PROVE \A x \in Subs : SubInv(x)'
  BY <1>1, <1>7, RestartInv
<1>8. ASSUME UNCHANGED vars PROVE \A x \in Subs : SubInv(x)'
  BY <1>8, Untouched DEF vars, submissionRow, GradingInv
<1>9. \A x \in Subs : SubInv(x)'
  BY <1>2, <1>3, <1>4, <1>5, <1>6, <1>7, <1>8 DEF Next
<1> QED
  BY <1>1, <1>9 DEF GradingInv

\* The inductive invariant holds in every reachable state.
THEOREM Grading == Spec => []GradingInv
  BY GradingInit, GradingStep, PTL DEF Spec

\* No submission ever shows a final verdict that is not the worst of the
\* verdicts of all the tests it was submitted against.
THEOREM Earning == Spec => []VerdictIsEarned
<1>1. GradingInv => VerdictIsEarned
  BY DEF GradingInv, SubInv, VerdictIsEarned
<1> QED
  BY <1>1, Grading, PTL

\* Concurrent callback handlers never lose the verdict of a complete
\* submission: while it is not written some callback is unacknowledged, and
\* without a crash one of its handlers is going to write it.
THEOREM NotLosing == Spec => []GradingNotLost
<1>1. GradingInv => GradingNotLost
  BY DEF GradingInv, SubInv, WitnessInv, GradingNotLost
<1> QED
  BY <1>1, Grading, PTL

-------------------------------------------------------------------------------
(* What a step may do to one submission: a summary of all actions, for the *)
(* counts, the scores and the promise.                                     *)

\* Judge0 forgets nothing, and learns only when it finishes a test.
Learns(x, t) ==
  /\ Judged(x, t) => Judged(x, t)' /\ job'[x][t].id = job[x][t].id
  /\ ~Judged(x, t) /\ Judged(x, t)' => JudgeFinish(x, t)

\* Where the numbers and problems a handler is going to write come from.
CallMove(x, t, k) ==
  LET c == call'[x][t][k] IN
  \/ c = call[x][t][k]
  \/ c.pc \notin {"write", "upsert"}
  \/ c.pc = "write" /\ c.passed = Cardinality(PassedRows(x))
  \/ c.pc = "upsert" /\ c.solved = Solved(UserOf[x]) \cap ContestProblems

\* How far the submit request gets, and the total it stores.
SubmitMove(x) ==
  LET a == submit[x]
      b == submit'[x] IN
  \/ b = a /\ totalCount'[x] = totalCount[x]
  \/ a.pc = "idle" /\ b.pc \in {"failed", "read"}
  \/ /\ b.snap = a.snap
     /\ \/ a.pc \in InFlight /\ b.pc = "failed"
        \/ a.pc = "created" /\ b.pc = "accepted" /\ totalCount'[x] = totalCount[x]
        \/ a.pc = "accepted" /\ b.pc = "done" /\ totalCount'[x] = totalCount[x]
        \/ a.pc = "read" /\ b.pc = "created" /\ totalCount'[x] = Cardinality(a.snap)

\* Where a stored passedCount comes from.
CountMove(x) ==
  \/ passedCount'[x] \in {0, passedCount[x]}
  \/ \E t \in TestIds, k \in Tries :
       call[x][t][k].pc = "write" /\ passedCount'[x] = call[x][t][k].passed

Moved(x) ==
  /\ \A t \in TestIds : Learns(x, t)
  /\ \A t \in TestIds, k \in Tries : CallMove(x, t, k)
  /\ SubmitMove(x) /\ CountMove(x)

\* A submission that a step leaves alone, or whose rows alone it changes.
LEMMA StillMoved ==
  ASSUME NEW x \in Subs, submit'[x] = submit[x], totalCount'[x] = totalCount[x],
         job'[x] = job[x], call'[x] = call[x], CountMove(x)
  PROVE  Moved(x)
<1>1. \A t \in TestIds : Learns(x, t)
  BY DEF Learns, Judged
<1>2. \A t \in TestIds, k \in Tries : CallMove(x, t, k)
  BY DEF CallMove
<1> QED
  BY <1>1, <1>2 DEF Moved, SubmitMove

\* The submit request moves.
LEMMA SubmitMoved ==
  ASSUME NEW x \in Subs, SubmitMove(x), job'[x] = job[x], call'[x] = call[x],
         passedCount'[x] \in {0, passedCount[x]}
  PROVE  Moved(x)
<1>1. \A t \in TestIds : Learns(x, t)
  BY DEF Learns, Judged
<1>2. \A t \in TestIds, k \in Tries : CallMove(x, t, k)
  BY DEF CallMove
<1> QED
  BY <1>1, <1>2 DEF Moved, CountMove

\* Judge0 moves on with one test, or a handler of it with its request.
LEMMA TestMoved ==
  ASSUME NEW x \in Subs, NEW t \in TestIds, UNCHANGED <<submit, totalCount>>, CountMove(x),
         \A t1 \in TestIds : t1 # t => job'[x][t1] = job[x][t1],
         Learns(x, t),
         \A t1 \in TestIds, k1 \in Tries : CallMove(x, t1, k1)
  PROVE  Moved(x)
<1>1. \A t1 \in TestIds : Learns(x, t1)
  <2> SUFFICES ASSUME NEW t1 \in TestIds, t1 # t PROVE Learns(x, t1)
    OBVIOUS
  <2>1. job'[x][t1] = job[x][t1]
    OBVIOUS
  <2> QED
    BY <2>1 DEF Learns, Judged
<1> QED
  BY <1>1 DEF Moved, SubmitMove

LEMMA SubmitStepMoved ==
  ASSUME GradingInv, NEW s \in Subs, SubmitStep(s)
  PROVE  \A x \in Subs : Moved(x)
<1>1. /\ submit \in [Subs -> SubmitRec] /\ submit[s] \in SubmitRec
      /\ totalCount \in [Subs -> Nat] /\ passedCount \in [Subs -> Nat] /\ job \in JobTable
      /\ TypeOK
  BY DEF GradingInv, TypeOK, JobTable
<1>2. CASE SubmitRead(s)
  <2>1. UNCHANGED <<job, call, totalCount, passedCount>>
        /\ \A x \in Subs : x # s => submit'[x] = submit[x]
    BY <1>1, <1>2 DEF SubmitRead, submissionRow
  <2>2. submit[s].pc = "idle" /\ submit'[s].pc \in {"failed", "read"}
    BY <1>1, <1>2 DEF SubmitRead
  <2>3. \A x \in Subs : SubmitMove(x)
    BY <2>1, <2>2 DEF SubmitMove
  <2> QED
    BY <2>1, <2>3, SubmitMoved
<1>3. CASE SubmitCreate(s)
  <2>1. UNCHANGED <<job, call>>
        /\ \A x \in Subs : x # s => submit'[x] = submit[x] /\ totalCount'[x] = totalCount[x]
                                    /\ passedCount'[x] = passedCount[x]
    BY <1>1, <1>3 DEF SubmitCreate, submissionRow
  <2>2. passedCount'[s] \in {0, passedCount[s]}
    BY <1>1, <1>3 DEF SubmitCreate, submissionRow
  <2>3. submit[s].pc = "read" /\ "read" \in InFlight
    BY <1>3 DEF SubmitCreate, InFlight
  <2>4. \/ submit'[s].pc = "created" /\ submit'[s].snap = submit[s].snap
           /\ totalCount'[s] = Cardinality(submit[s].snap)
        \/ submit'[s].pc = "failed" /\ submit'[s].snap = submit[s].snap
    BY <1>1, <1>3, SubmitMoves, PcTypes DEF SubmitCreate
  <2>5. \A x \in Subs : SubmitMove(x)
    BY <2>1, <2>3, <2>4 DEF SubmitMove
  <2> QED
    BY <2>1, <2>2, <2>5, SubmitMoved
<1>4. CASE JudgeAccept(s)
  <2>1. UNCHANGED <<call, totalCount, passedCount>>
        /\ \A x \in Subs : x # s => submit'[x] = submit[x] /\ job'[x] = job[x]
    BY <1>1, <1>4 DEF JudgeAccept, submissionRow, JobTable
  <2>2. submit[s].pc = "created" /\ "created" \in InFlight
    BY <1>4 DEF JudgeAccept, InFlight
  <2>3. submit'[s].pc \in {"accepted", "failed"} /\ submit'[s].snap = submit[s].snap
    BY <1>1, <1>4, SubmitMoves, PcTypes DEF JudgeAccept
  <2>4. \A x \in Subs : SubmitMove(x) /\ CountMove(x)
    BY <2>1, <2>2, <2>3 DEF SubmitMove, CountMove
  <2>5. \A t \in TestIds : ~Judged(s, t)
    BY <1>4, FreshBefore DEF GradingInv, JudgeAccept, Judged
  <2>6. \A t \in TestIds : ~Judged(s, t)'
    <3>1. PICK accepted \in SUBSET submit[s].snap :
            job' = [job EXCEPT ![s] = [t \in TestIds |->
                      IF t \in accepted THEN [NoJob EXCEPT !.st = "judging"] ELSE job[s][t]]]
      BY <1>4 DEF JudgeAccept
    <3>2. [NoJob EXCEPT !.st = "judging"].st = "judging"
      BY DEF NoJob
    <3>3. \A t \in TestIds : job'[s][t] \in {[NoJob EXCEPT !.st = "judging"], job[s][t]}
      BY <1>1, <3>1 DEF JobTable
    <3> QED
      BY <2>5, <3>2, <3>3 DEF Judged
  <2>7. Moved(s)
    BY <2>1, <2>4, <2>5, <2>6 DEF Moved, Learns, CallMove
  <2>8. \A x \in Subs : x # s => Moved(x)
    BY <2>1, <2>4, SubmitMoved
  <2> QED
    BY <2>7, <2>8
<1>5. CASE SubmitBatchThrows(s)
  <2>1. UNCHANGED <<job, call, totalCount, passedCount>>
        /\ \A x \in Subs : x # s => submit'[x] = submit[x]
    BY <1>1, <1>5 DEF SubmitBatchThrows, submissionRow
  <2>2. submit[s].pc \in InFlight
    BY <1>5 DEF SubmitBatchThrows, InFlight
  <2>3. submit'[s].pc = "failed" /\ submit'[s].snap = submit[s].snap
    BY <1>1, <1>5, SubmitMoves, PcTypes DEF SubmitBatchThrows
  <2>4. \A x \in Subs : SubmitMove(x)
    BY <2>1, <2>2, <2>3 DEF SubmitMove
  <2> QED
    BY <2>1, <2>4, SubmitMoved
<1>6. CASE RecordSubmission(s)
  <2>1. UNCHANGED <<job, call, totalCount, passedCount>>
        /\ \A x \in Subs : x # s => submit'[x] = submit[x]
    BY <1>1, <1>6 DEF RecordSubmission
  <2>2. submit[s].pc = "accepted" /\ "accepted" \in InFlight
    BY <1>6 DEF RecordSubmission, InFlight
  <2>3. submit'[s].pc \in {"done", "failed"} /\ submit'[s].snap = submit[s].snap
    BY <1>1, <1>6, SubmitMoves, PcTypes DEF RecordSubmission
  <2>4. \A x \in Subs : SubmitMove(x)
    BY <2>1, <2>2, <2>3 DEF SubmitMove
  <2> QED
    BY <2>1, <2>4, SubmitMoved
<1> QED
  BY <1>2, <1>3, <1>4, <1>5, <1>6 DEF SubmitStep

LEMMA JudgeMoved ==
  ASSUME GradingInv, NEW s \in Subs, NEW t \in TestIds,
         JudgeFinish(s, t) \/ Deliver(s, t) \/ Refused(s, t) \/ CallTimesOut(s, t)
  PROVE  \A x \in Subs : Moved(x)
<1>1. job \in JobTable /\ job[s][t] \in JobRec /\ call \in CallTable
  BY DEF GradingInv, TypeOK, JobTable, CallTable
<1>2. UNCHANGED <<submit, totalCount, passedCount>>
  BY DEF JudgeFinish, Deliver, Refused, CallTimesOut, submissionRow
<1>3. \A x \in Subs : CountMove(x)
  BY <1>2 DEF CountMove
<1>4. ASSUME NEW r, job' = [job EXCEPT ![s][t] = r], Judged(s, t) => r.id = job[s][t].id,
             Judged(s, t) => r.st \notin {"none", "judging"},
             Judged(s, t) \/ JudgeFinish(s, t),
             \A x \in Subs, t1 \in TestIds, k1 \in Tries : CallMove(x, t1, k1)
      PROVE  \A x \in Subs : Moved(x)
  <2>1. /\ job'[s][t] = r /\ \A x \in Subs : x # s => job'[x] = job[x]
        /\ \A t1 \in TestIds : t1 # t => job'[s][t1] = job[s][t1]
    BY <1>1, <1>4 DEF JobTable
  <2>2. Learns(s, t)
    BY <1>4, <2>1 DEF Learns, Judged
  <2>3. Moved(s)
    BY <1>2, <1>3, <1>4, <2>1, <2>2, TestMoved
  <2>4. \A x \in Subs : x # s => \A t1 \in TestIds : Learns(x, t1)
    BY <2>1 DEF Learns, Judged
  <2>5. \A x \in Subs : x # s => Moved(x)
    BY <1>2, <1>3, <1>4, <2>4 DEF Moved, SubmitMove
  <2> QED
    BY <2>3, <2>5
<1>5. CASE JudgeFinish(s, t)
  <2>1. PICK id \in Outcomes :
          job' = [job EXCEPT ![s][t] = [job[s][t] EXCEPT !.st = "calling", !.id = id]]
    BY <1>5 DEF JudgeFinish
  <2>2. ~Judged(s, t)
    BY <1>5 DEF JudgeFinish, Judged
  <2>3. \A x \in Subs, t1 \in TestIds, k1 \in Tries : CallMove(x, t1, k1)
    BY <1>5 DEF JudgeFinish, CallMove
  <2> QED
    BY <1>4, <1>5, <2>1, <2>2, <2>3
<1>6. ASSUME CanCall(s, t) PROVE Judged(s, t) /\ job[s][t].st = "calling"
  BY <1>6 DEF CanCall, Judged
<1>7. CASE Deliver(s, t)
  <2> DEFINE n == job[s][t].tries + 1
             r == [job[s][t] EXCEPT !.tries = @ + 1, !.conn = TRUE]
  <2>1. job' = [job EXCEPT ![s][t] = r] /\ call' = [call EXCEPT ![s][t][n] = Call("find")]
    BY <1>7 DEF Deliver
  <2>2. r.st = job[s][t].st /\ r.id = job[s][t].id
    BY <1>1 DEF JobRec
  <2>3. Judged(s, t) /\ job[s][t].st = "calling"
    BY <1>6, <1>7 DEF Deliver
  <2>4. n \in Tries
    <3>1. job[s][t].tries \in 0..MaxTries /\ job[s][t].tries < MaxTries
      BY <1>1, <1>7 DEF Deliver, CanCall, JobRec
    <3> QED
      BY <3>1, Bounds
  <2>5. Call("find").pc = "find"
    BY DEF Call
  <2> HIDE DEF n, r
  <2>6. \A x \in Subs, t1 \in TestIds, k1 \in Tries :
          call'[x][t1][k1] = IF x = s /\ t1 = t /\ k1 = n THEN Call("find") ELSE call[x][t1][k1]
    BY <1>1, <2>1, <2>4 DEF CallTable
  <2>7. \A x \in Subs, t1 \in TestIds, k1 \in Tries : CallMove(x, t1, k1)
    BY <2>5, <2>6 DEF CallMove
  <2> QED
    BY <1>4, <2>1, <2>2, <2>3, <2>7
<1>8. CASE Refused(s, t)
  <2> DEFINE r == [job[s][t] EXCEPT !.tries = @ + 1]
  <2>1. job' = [job EXCEPT ![s][t] = r] /\ call' = call
    BY <1>8 DEF Refused
  <2>2. r.st = job[s][t].st /\ r.id = job[s][t].id
    BY <1>1 DEF JobRec
  <2>3. Judged(s, t) /\ job[s][t].st = "calling"
    BY <1>6, <1>8 DEF Refused
  <2>4. \A x \in Subs, t1 \in TestIds, k1 \in Tries : CallMove(x, t1, k1)
    BY <2>1 DEF CallMove
  <2> HIDE DEF r
  <2> QED
    BY <1>4, <2>1, <2>2, <2>3, <2>4
<1>9. CASE CallTimesOut(s, t)
  <2> DEFINE r == [job[s][t] EXCEPT !.conn = FALSE]
  <2>1. job' = [job EXCEPT ![s][t] = r] /\ call' = call
    BY <1>9 DEF CallTimesOut
  <2>2. r.st = job[s][t].st /\ r.id = job[s][t].id
    BY <1>1 DEF JobRec
  <2>3. Judged(s, t) /\ job[s][t].st = "calling"
    BY <1>9 DEF CallTimesOut, Judged, GradingInv, SubInv, TestInv
  <2>4. \A x \in Subs, t1 \in TestIds, k1 \in Tries : CallMove(x, t1, k1)
    BY <2>1 DEF CallMove
  <2> HIDE DEF r
  <2> QED
    BY <1>4, <2>1, <2>2, <2>3, <2>4
<1> QED
  BY <1>5, <1>7, <1>8, <1>9

\* Answering a callback.
LEMMA RespondMoved ==
  ASSUME GradingInv, NEW s \in Subs, NEW t \in TestIds, NEW k \in Tries,
         NEW outcome \in {"ok", "notFound"}, Respond(s, t, k, outcome),
         UNCHANGED <<submit, totalCount>>, \A x \in Subs : CountMove(x)
  PROVE  \A x \in Subs : Moved(x)
<1>1. TypeOK /\ SubInv(s) /\ TestInv(s, t)
  BY DEF GradingInv, SubInv
<1>2. /\ \A x \in Subs : x # s => job'[x] = job[x] /\ call'[x] = call[x]
      /\ \A t1 \in TestIds : t1 # t => job'[s][t1] = job[s][t1]
      /\ job'[s][t].id = job[s][t].id /\ Judged(s, t)' = Judged(s, t)
      /\ call'[s][t][k].pc = "done"
      /\ \A t1 \in TestIds, k1 \in Tries :
              ~(t1 = t /\ k1 = k) => call'[s][t1][k1] = call[s][t1][k1]
  BY <1>1, RespondEffect
<1>3. \A t1 \in TestIds, k1 \in Tries : CallMove(s, t1, k1)
  BY <1>2 DEF CallMove
<1>4. Learns(s, t)
  BY <1>2 DEF Learns
<1>5. Moved(s)
  BY <1>2, <1>3, <1>4, TestMoved
<1>6. \A x \in Subs : x # s => Moved(x)
  BY <1>2, StillMoved
<1> QED
  BY <1>5, <1>6

\* One handler moves on, and Judge0 is not told.
LEMMA HandlerMoved ==
  ASSUME GradingInv, NEW s \in Subs, NEW t \in TestIds, NEW k \in Tries, NEW r,
         call' = [call EXCEPT ![s][t][k] = r], UNCHANGED <<submit, totalCount, job>>,
         \A x \in Subs : CountMove(x),
         \/ r.pc \notin {"write", "upsert"}
         \/ r.pc = "write" /\ r.passed = Cardinality(PassedRows(s))
         \/ r.pc = "upsert" /\ r.solved = Solved(UserOf[s]) \cap ContestProblems
  PROVE  \A x \in Subs : Moved(x)
<1>1. call \in CallTable
  BY DEF GradingInv, TypeOK, CallTable
<1>2. \A x \in Subs, t1 \in TestIds, k1 \in Tries :
        call'[x][t1][k1] = IF x = s /\ t1 = t /\ k1 = k THEN r ELSE call[x][t1][k1]
  BY <1>1 DEF CallTable
<1>3. \A x \in Subs, t1 \in TestIds, k1 \in Tries : CallMove(x, t1, k1)
  BY <1>2 DEF CallMove
<1>4. \A x \in Subs, t1 \in TestIds : Learns(x, t1)
  BY DEF Learns, Judged
<1> QED
  BY <1>3, <1>4 DEF Moved, SubmitMove

\* The death of the process ends requests and handlers.
LEMMA DiesMoved ==
  ASSUME GradingInv, ProcessDies
  PROVE  \A x \in Subs : Moved(x)
<1> SUFFICES ASSUME NEW x \in Subs PROVE Moved(x)
  OBVIOUS
<1>1. /\ submit[x] \in SubmitRec /\ job \in JobTable /\ call \in CallTable
      /\ UNCHANGED <<passedCount, totalCount>>
  BY DEF GradingInv, TypeOK, JobTable, CallTable, ProcessDies, submissionRow
<1>2. SubmitMove(x)
  <2>1. CASE submit[x].pc \in InFlight
    <3>1. submit'[x] = [submit[x] EXCEPT !.pc = "failed"]
      BY <2>1 DEF ProcessDies
    <3>2. submit'[x].pc = "failed" /\ submit'[x].snap = submit[x].snap
      BY <1>1, <3>1, SubmitPcSet, PcTypes
    <3> QED
      BY <2>1, <3>2 DEF SubmitMove
  <2>2. CASE submit[x].pc \notin InFlight
    BY <1>1, <2>2 DEF ProcessDies, SubmitMove
  <2> QED
    BY <2>1, <2>2
<1>3. \A t \in TestIds : Learns(x, t)
  <2> SUFFICES ASSUME NEW t \in TestIds PROVE Learns(x, t)
    OBVIOUS
  <2>1. job'[x][t] = [job[x][t] EXCEPT !.conn = FALSE] /\ job[x][t] \in JobRec
    BY <1>1 DEF ProcessDies, JobTable
  <2>2. job'[x][t].st = job[x][t].st /\ job'[x][t].id = job[x][t].id
    BY <2>1 DEF JobRec
  <2> QED
    BY <2>2 DEF Learns, Judged
<1>4. \A t \in TestIds, k \in Tries : CallMove(x, t, k)
  <2>1. Call("dead").pc = "dead"
    BY DEF Call
  <2>2. \A t \in TestIds, k \in Tries : call'[x][t][k] \in {Call("dead"), call[x][t][k]}
    BY DEF ProcessDies
  <2> QED
    BY <2>1, <2>2 DEF CallMove
<1> QED
  BY <1>1, <1>2, <1>3, <1>4 DEF Moved, CountMove

LEMMA CallStepMoved ==
  ASSUME GradingInv, NEW s \in Subs, NEW t \in TestIds, NEW k \in Tries, CallStep(s, t, k)
  PROVE  \A x \in Subs : Moved(x)
<1>1. call[s][t][k] \in CallRec /\ passedCount \in [Subs -> Nat]
  BY DEF GradingInv, TypeOK
<1>2. ASSUME passedCount' = passedCount PROVE \A x \in Subs : CountMove(x)
  BY <1>2 DEF CountMove
<1>3. CASE ProcessDies
  BY <1>3, DiesMoved
<1>4. CASE FindCase(s, t, k)
  <2>1. CASE caseStatus[s][t] = "none"
    BY <1>2, <1>4, <2>1, RespondMoved DEF FindCase, submissionRow
  <2>2. CASE caseStatus[s][t] # "none"
    <3> DEFINE r == [call[s][t][k] EXCEPT !.pc = "update"]
    <3>1. call' = [call EXCEPT ![s][t][k] = r] /\ UNCHANGED <<submit, submissionRow, job>>
      BY <1>4, <2>2 DEF FindCase
    <3>2. r.pc = "update"
      BY <1>1, CallPcSet, PcTypes
    <3> HIDE DEF r
    <3> QED
      BY <1>2, <3>1, <3>2, HandlerMoved DEF submissionRow
  <2> QED
    BY <2>1, <2>2
<1>5. CASE UpdateCase(s, t, k) /\ ~ProcessDies
  <2> DEFINE r == [call[s][t][k] EXCEPT !.pc = "reread"]
  <2>1. call' = [call EXCEPT ![s][t][k] = r] /\ UNCHANGED <<submit, submissionRow, job>>
    BY <1>5 DEF UpdateCase
  <2>2. r.pc = "reread"
    BY <1>1, CallPcSet, PcTypes
  <2> HIDE DEF r
  <2> QED
    BY <1>2, <2>1, <2>2, HandlerMoved DEF submissionRow
<1>6. CASE RereadCases(s, t, k)
  <2> DEFINE o == IF AllDone(s) THEN CombineVerdicts(CaseStatuses(s)) ELSE "PENDING"
             n == Cardinality(PassedRows(s))
             r == [call[s][t][k] EXCEPT !.pc = "write", !.allDone = AllDone(s),
                                        !.overall = o, !.passed = n]
  <2>1. call' = [call EXCEPT ![s][t][k] = r] /\ UNCHANGED <<submit, submissionRow, job>>
    BY <1>6 DEF RereadCases
  <2>2. r.pc = "write" /\ r.passed = Cardinality(PassedRows(s))
    <3> HIDE DEF o
    <3> QED
      BY <1>1 DEF CallRec
  <2> HIDE DEF r
  <2> QED
    BY <1>2, <2>1, <2>2, HandlerMoved DEF submissionRow
<1>7. CASE WriteSubmission(s, t, k) /\ ~ProcessDies
  <2> DEFINE r == [call[s][t][k] EXCEPT !.pc = "score"]
  <2>1. /\ UNCHANGED <<submit, totalCount>> /\ call[s][t][k].pc = "write"
        /\ passedCount' = [passedCount EXCEPT ![s] = call[s][t][k].passed]
    BY <1>7 DEF WriteSubmission
  <2>2. \A x \in Subs : CountMove(x)
    BY <1>1, <2>1 DEF CountMove
  <2>3. CASE Respond(s, t, k, "ok")
    BY <2>1, <2>2, <2>3, RespondMoved
  <2>4. CASE call' = [call EXCEPT ![s][t][k] = r] /\ job' = job
    <3>1. r.pc = "score"
      BY <1>1, CallPcSet, PcTypes
    <3> HIDE DEF r
    <3> QED
      BY <2>1, <2>2, <2>4, <3>1, HandlerMoved
  <2> QED
    BY <1>7, <2>3, <2>4 DEF WriteSubmission
<1>8. CASE ReadAccepted(s, t, k)
  <2> DEFINE q == Solved(UserOf[s]) \cap ContestProblems
             r == [call[s][t][k] EXCEPT !.pc = "upsert", !.solved = q]
  <2>1. call' = [call EXCEPT ![s][t][k] = r] /\ UNCHANGED <<submit, submissionRow, job>>
    BY <1>8 DEF ReadAccepted
  <2>2. r.pc = "upsert" /\ r.solved = Solved(UserOf[s]) \cap ContestProblems
    BY <1>1 DEF CallRec
  <2> HIDE DEF r
  <2> QED
    BY <1>2, <2>1, <2>2, HandlerMoved DEF submissionRow
<1>9. CASE UpsertScore(s, t, k)
  BY <1>2, <1>9, RespondMoved DEF UpsertScore, submissionRow
<1> QED
  BY <1>3, <1>4, <1>5, <1>6, <1>7, <1>8, <1>9 DEF CallStep

\* Every step does no more than that to a submission.
LEMMA EveryMoved ==
  ASSUME GradingInv, [Next]_vars
  PROVE  \A x \in Subs : Moved(x)
<1>1. ASSUME UNCHANGED <<submit, totalCount, passedCount, job, call>>
      PROVE  \A x \in Subs : Moved(x)
  BY <1>1, StillMoved DEF CountMove
<1>2. ASSUME NEW p \in Problems, AdminPut(p) \/ AdminDelete(p)
      PROVE  \A x \in Subs : Moved(x)
  BY <1>1, <1>2 DEF AdminPut, AdminDelete, submissionRow
<1>3. CASE Restart
  BY <1>1, <1>3 DEF Restart, submissionRow
<1>4. CASE Crash
  BY <1>4, DiesMoved DEF Crash
<1>5. CASE UNCHANGED vars
  BY <1>1, <1>5 DEF vars, submissionRow
<1> QED
  BY <1>2, <1>3, <1>4, <1>5, SubmitStepMoved, JudgeMoved, CallStepMoved DEF Next

-------------------------------------------------------------------------------
(* passedCount: a count of cases whose tests Judge0 accepted, read before. *)

CountInv(s) ==
  /\ passedCount[s] <= Cardinality(AcceptedTests(s))
  /\ submit[s].pc # "done" => passedCount[s] = 0
  /\ submit[s].pc \in {"created", "accepted", "done"} =>
       totalCount[s] = Cardinality(submit[s].snap)
  /\ \A t \in TestIds, k \in Tries :
       call[s][t][k].pc = "write" => call[s][t][k].passed <= Cardinality(AcceptedTests(s))

\* Only tests are counted.
LEMMA Counted ==
  ASSUME TypeOK, NEW x \in Subs
  PROVE  /\ submit[x].snap \subseteq TestIds /\ AcceptedTests(x) \subseteq submit[x].snap
         /\ PassedRows(x) \subseteq TestIds /\ IsFiniteSet(AcceptedTests(x))
         /\ Cardinality(AcceptedTests(x)) \in Nat /\ Cardinality(submit[x].snap) \in Nat
         /\ Cardinality(AcceptedTests(x)) <= Cardinality(submit[x].snap)
<1>1. submit[x].snap \subseteq TestIds
  BY DEF TypeOK, SubmitRec
<1>2. AcceptedTests(x) \subseteq submit[x].snap /\ PassedRows(x) \subseteq TestIds
  BY DEF AcceptedTests, PassedRows, Rows
<1>3. IsFiniteSet(submit[x].snap)
  BY <1>1, CountType
<1>4. Cardinality(AcceptedTests(x)) <= Cardinality(submit[x].snap)
  BY <1>2, <1>3, FS_Subset
<1>5. AcceptedTests(x) \in SUBSET TestIds /\ submit[x].snap \in SUBSET TestIds
  BY <1>1, <1>2
<1> QED
  BY <1>1, <1>2, <1>4, <1>5, CountType

\* A test Judge0 accepted stays accepted.
LEMMA AcceptedKept ==
  ASSUME GradingInv, TypeOK', NEW x \in Subs, Moved(x)
  PROVE  /\ AcceptedTests(x) \subseteq AcceptedTests(x)'
         /\ Cardinality(AcceptedTests(x)) <= Cardinality(AcceptedTests(x))'
         /\ submit[x].pc # "idle" => submit'[x].snap = submit[x].snap
<1>1. submit[x].pc # "idle" => submit'[x].snap = submit[x].snap
  BY DEF Moved, SubmitMove
<1>2. submit[x].pc = "idle" => submit[x].snap = {}
  BY DEF GradingInv, SubInv, SubmitInv
<1>3. TypeOK /\ submit[x].snap \subseteq TestIds
  BY DEF GradingInv, TypeOK, SubmitRec
<1>4. \A t \in TestIds : Judged(x, t) => Judged(x, t)' /\ Verdict(x, t)' = Verdict(x, t)
  BY DEF Moved, Learns, Verdict
<1>5. AcceptedTests(x) \subseteq AcceptedTests(x)'
  BY <1>1, <1>2, <1>3, <1>4 DEF AcceptedTests
<1>6. IsFiniteSet(AcceptedTests(x)')
  <2>1. AcceptedTests(x)' \subseteq submit'[x].snap /\ submit'[x].snap \subseteq TestIds
    BY DEF AcceptedTests, TypeOK, SubmitRec
  <2>2. AcceptedTests(x)' \in SUBSET TestIds
    BY <2>1
  <2> QED
    BY <2>2, CountType
<1>7. Cardinality(AcceptedTests(x)) <= Cardinality(AcceptedTests(x)')
  BY <1>5, <1>6, FS_Subset
<1> QED
  BY <1>1, <1>5, <1>7

\* The cases that show AC are those of tests Judge0 accepted.
LEMMA PassedAccepted ==
  ASSUME GradingInv, NEW x \in Subs
  PROVE  Cardinality(PassedRows(x)) <= Cardinality(AcceptedTests(x))
<1>1. PassedRows(x) \subseteq AcceptedTests(x)
  BY DEF PassedRows, AcceptedTests, Rows, GradingInv, SubInv, SubmitInv, TestInv
<1>2. IsFiniteSet(AcceptedTests(x))
  BY Counted DEF GradingInv
<1> QED
  BY <1>1, <1>2, FS_Subset

LEMMA CountStep ==
  ASSUME GradingInv, TypeOK', NEW x \in Subs, Moved(x), CountInv(x)
  PROVE  CountInv(x)'
<1> DEFINE a == Cardinality(AcceptedTests(x))
           b == Cardinality(AcceptedTests(x)')
<1>1. a <= b /\ a \in Nat /\ b \in Nat
  <2>1. a <= b
    BY AcceptedKept
  <2>2. a \in Nat
    BY Counted DEF GradingInv
  <2>3. AcceptedTests(x)' \in SUBSET TestIds
    BY DEF AcceptedTests, TypeOK, SubmitRec
  <2>4. b \in Nat
    BY <2>3, CountType
  <2> QED
    BY <2>1, <2>2, <2>4
<1>2. /\ passedCount[x] \in Nat
      /\ \A t \in TestIds, k \in Tries : call[x][t][k].passed \in Nat
                                         /\ call'[x][t][k].passed \in Nat
  BY DEF GradingInv, TypeOK, CallRec
<1>3. /\ passedCount[x] <= a
      /\ \A t \in TestIds, k \in Tries : call[x][t][k].pc = "write" => call[x][t][k].passed <= a
  BY DEF CountInv
<1>4. Cardinality(PassedRows(x)) <= a /\ Cardinality(PassedRows(x)) \in Nat
  BY PassedAccepted, Counted, CountType DEF GradingInv
<1> HIDE DEF a, b
<1>5. \A t \in TestIds, k \in Tries :
        call'[x][t][k].pc = "write" => call'[x][t][k].passed <= b
  <2> SUFFICES ASSUME NEW t \in TestIds, NEW k \in Tries, call'[x][t][k].pc = "write"
               PROVE  call'[x][t][k].passed <= b
    OBVIOUS
  <2>1. CallMove(x, t, k)
    BY DEF Moved
  <2>2. call'[x][t][k].passed <= a
    BY <1>3, <1>4, <2>1 DEF CallMove
  <2> QED
    BY <1>1, <1>2, <2>2
<1>6. passedCount'[x] <= b
  <2>1. passedCount'[x] \in Nat /\ passedCount'[x] <= a
    BY <1>1, <1>2, <1>3 DEF Moved, CountMove
  <2> QED
    BY <1>1, <2>1
<1>7. ASSUME submit'[x].pc # "done" PROVE passedCount'[x] = 0
  <2>1. submit[x].pc # "done"
    BY <1>7 DEF Moved, SubmitMove, InFlight
  <2>2. \A t \in TestIds, k \in Tries : call[x][t][k].pc # "write"
    BY <2>1 DEF GradingInv, SubInv, CallInv, Serving
  <2>3. passedCount[x] = 0
    BY <2>1 DEF CountInv
  <2> QED
    BY <2>2, <2>3 DEF Moved, CountMove
<1>8. ASSUME submit'[x].pc \in {"created", "accepted", "done"}
      PROVE  totalCount'[x] = Cardinality(submit'[x].snap)
  BY <1>8 DEF Moved, SubmitMove, CountInv, InFlight
<1> QED
  BY <1>5, <1>6, <1>7, <1>8 DEF CountInv, b

\* What a handler counted stays backed by Judge0 until it is written, and after.
THEOREM Counting == Spec => []PassedCountIsBacked
<1> DEFINE Inv == GradingInv /\ \A s \in Subs : CountInv(s)
<1>1. Init => Inv
  <2> SUFFICES ASSUME Init, NEW s \in Subs PROVE CountInv(s)
    BY GradingInit
  <2>1. Cardinality(AcceptedTests(s)) \in Nat
    BY TypeInit, Counted
  <2>2. /\ passedCount[s] = 0 /\ submit[s].pc = "idle"
        /\ \A t \in TestIds, k \in Tries : call[s][t][k].pc = "idle"
    BY DEF Init, Call
  <2> QED
    BY <2>1, <2>2 DEF CountInv
<1>2. Inv /\ [Next]_vars => Inv'
  <2> SUFFICES ASSUME Inv, [Next]_vars PROVE Inv'
    OBVIOUS
  <2>1. GradingInv' /\ TypeOK'
    BY GradingStep DEF GradingInv
  <2>2. \A s \in Subs : CountInv(s)'
    BY <2>1, EveryMoved, CountStep
  <2> QED
    BY <2>1, <2>2
<1>3. Inv => PassedCountIsBacked
  <2> SUFFICES ASSUME Inv, NEW s \in Subs
               PROVE  /\ passedCount[s] <= Cardinality(AcceptedTests(s))
                      /\ passedCount[s] <= totalCount[s]
    BY DEF PassedCountIsBacked
  <2>1. CountInv(s) /\ TypeOK
    BY DEF GradingInv
  <2>2. /\ passedCount[s] \in Nat /\ totalCount[s] \in Nat
        /\ Cardinality(AcceptedTests(s)) \in Nat /\ Cardinality(submit[s].snap) \in Nat
        /\ Cardinality(AcceptedTests(s)) <= Cardinality(submit[s].snap)
    BY <2>1, Counted DEF TypeOK
  <2>3. CASE submit[s].pc = "done"
    BY <2>1, <2>2, <2>3 DEF CountInv
  <2>4. CASE submit[s].pc # "done"
    BY <2>1, <2>2, <2>4 DEF CountInv
  <2> QED
    BY <2>3, <2>4
<1> QED
  BY <1>1, <1>2, <1>3, PTL DEF Spec

-------------------------------------------------------------------------------
(* The contest score: every problem in it was once really solved.          *)

Backed(u, p) ==
  \E s \in ContestSubs \cap InWindow :
    /\ UserOf[s] = u /\ ProblemOf[s] = p /\ submit[s].snap # {}
    /\ AcceptedTests(s) = submit[s].snap

ScoreInv ==
  /\ \A u \in Users : \A p \in counted[u] : Backed(u, p)
  /\ \A s \in Subs, t \in TestIds, k \in Tries :
       call[s][t][k].pc = "upsert" =>
         \A p \in call[s][t][k].solved : Backed(UserOf[s], p)

\* A problem once solved stays solved, whatever happens to the submission.
LEMMA BackedKept ==
  ASSUME GradingInv, TypeOK', \A x \in Subs : Moved(x), NEW u, NEW p, Backed(u, p)
  PROVE  Backed(u, p)'
<1>1. PICK s \in ContestSubs \cap InWindow :
        /\ UserOf[s] = u /\ ProblemOf[s] = p /\ submit[s].snap # {}
        /\ AcceptedTests(s) = submit[s].snap
  BY DEF Backed
<1>2. s \in Subs
  BY GradingAssumption
<1>3. submit[s].pc # "idle"
  BY <1>1, <1>2 DEF GradingInv, SubInv, SubmitInv
<1>4. submit'[s].snap = submit[s].snap /\ AcceptedTests(s) \subseteq AcceptedTests(s)'
  BY <1>2, <1>3, AcceptedKept
<1>5. AcceptedTests(s)' \subseteq submit'[s].snap
  BY DEF AcceptedTests
<1>6. AcceptedTests(s)' = submit'[s].snap /\ submit'[s].snap # {}
  BY <1>1, <1>4, <1>5
<1> QED
  BY <1>1, <1>6 DEF Backed

\* An accepted contest submission backs its problem.
LEMMA SolvedBacked ==
  ASSUME GradingInv, NEW u, NEW p \in Solved(u)
  PROVE  Backed(u, p)
<1>1. PICK s \in ContestSubs \cap InWindow :
        ProblemOf[s] = p /\ UserOf[s] = u /\ status[s] = "AC"
  BY DEF Solved
<1>2. s \in Subs /\ Earned(s, "AC")
  <2>1. s \in Subs
    BY GradingAssumption
  <2> QED
    BY <1>1, <2>1 DEF GradingInv, SubInv, FinalVerdicts
<1>3. submit[s].snap \subseteq TestIds /\ submit[s].snap # {}
  BY <1>2 DEF GradingInv, TypeOK, SubmitRec, Earned
<1> DEFINE V == {Verdict(s, t) : t \in submit[s].snap}
<1>4. V \in SUBSET SubmissionStatus /\ V # {}
  <2>1. \A t \in submit[s].snap : Verdict(s, t) \in SubmissionStatus
    <3>1. \A t \in submit[s].snap : job[s][t].id \in 1..14
      BY <1>2, <1>3 DEF GradingInv, TypeOK, JobRec
    <3> QED
      BY <3>1, VerdictType DEF Verdict
  <2> QED
    BY <1>3, <2>1
<1>5. CombineVerdicts(V) = "AC"
  BY <1>2 DEF Earned
<1>6. V = {"AC"}
  BY <1>4, <1>5, CombineAccepts
<1>7. \A t \in submit[s].snap : Judged(s, t) /\ Verdict(s, t) = "AC"
  BY <1>2, <1>6 DEF Earned
<1> QED
  BY <1>1, <1>3, <1>7 DEF Backed, AcceptedTests

\* Only the upsert of a handler changes a score.
LEMMA ScoreMove ==
  ASSUME [Next]_vars
  PROVE  \/ counted' = counted
         \/ \E s \in Subs, t \in TestIds, k \in Tries :
              /\ call[s][t][k].pc = "upsert"
              /\ counted' = [counted EXCEPT ![UserOf[s]] = call[s][t][k].solved]
<1>1. ASSUME NEW s \in Subs, SubmitStep(s) PROVE counted' = counted
  BY <1>1 DEF SubmitStep, SubmitRead, SubmitCreate, JudgeAccept, SubmitBatchThrows,
              RecordSubmission
<1>2. ASSUME NEW s \in Subs, NEW t \in TestIds,
             JudgeFinish(s, t) \/ Deliver(s, t) \/ Refused(s, t) \/ CallTimesOut(s, t)
      PROVE  counted' = counted
  BY <1>2 DEF JudgeFinish, Deliver, Refused, CallTimesOut
<1>3. ASSUME NEW s \in Subs, NEW t \in TestIds, NEW k \in Tries, CallStep(s, t, k)
      PROVE  \/ counted' = counted
             \/ /\ call[s][t][k].pc = "upsert"
                /\ counted' = [counted EXCEPT ![UserOf[s]] = call[s][t][k].solved]
  BY <1>3 DEF CallStep, FindCase, UpdateCase, RereadCases, WriteSubmission, ReadAccepted,
              UpsertScore, ProcessDies
<1>4. ASSUME NEW p \in Problems, AdminPut(p) \/ AdminDelete(p) PROVE counted' = counted
  BY <1>4 DEF AdminPut, AdminDelete
<1>5. ASSUME Crash \/ Restart \/ UNCHANGED vars PROVE counted' = counted
  BY <1>5 DEF Crash, ProcessDies, Restart, vars
<1> QED
  BY <1>1, <1>2, <1>3, <1>4, <1>5 DEF Next

LEMMA ScoreStep ==
  ASSUME GradingInv, TypeOK', ScoreInv, [Next]_vars
  PROVE  ScoreInv'
<1>1. \A x \in Subs : Moved(x)
  BY EveryMoved
<1>2. \A u, p : Backed(u, p) => Backed(u, p)'
  BY <1>1, BackedKept
<1>3. ASSUME NEW u \in Users, NEW p \in counted'[u] PROVE Backed(u, p)'
  <2>1. CASE counted' = counted
    BY <1>2, <1>3, <2>1 DEF ScoreInv
  <2>2. ASSUME NEW s \in Subs, NEW t \in TestIds, NEW k \in Tries,
               call[s][t][k].pc = "upsert",
               counted' = [counted EXCEPT ![UserOf[s]] = call[s][t][k].solved]
        PROVE  Backed(u, p)'
    <3>1. counted \in [Users -> SUBSET Problems]
      BY DEF GradingInv, TypeOK
    <3>2. CASE u = UserOf[s]
      BY <1>2, <1>3, <2>2, <3>1, <3>2 DEF ScoreInv
    <3>3. CASE u # UserOf[s]
      BY <1>2, <1>3, <2>2, <3>1, <3>3 DEF ScoreInv
    <3> QED
      BY <3>2, <3>3
  <2> QED
    BY <2>1, <2>2, ScoreMove
<1>4. ASSUME NEW s \in Subs, NEW t \in TestIds, NEW k \in Tries,
             call'[s][t][k].pc = "upsert", NEW p \in call'[s][t][k].solved
      PROVE  Backed(UserOf[s], p)'
  <2>1. CallMove(s, t, k)
    BY <1>1 DEF Moved
  <2>2. CASE call'[s][t][k] = call[s][t][k]
    BY <1>2, <1>4, <2>2 DEF ScoreInv
  <2>3. CASE call'[s][t][k].solved = Solved(UserOf[s]) \cap ContestProblems
    BY <1>2, <1>4, <2>3, SolvedBacked
  <2> QED
    BY <1>4, <2>1, <2>2, <2>3 DEF CallMove
<1> QED
  BY <1>3, <1>4 DEF ScoreInv

\* Whatever handlers of one user interleave, fail or are retried, a contest
\* score never holds a problem that was not solved inside the window.
THEOREM Scoring == Spec => []ScoreIsBacked
<1> DEFINE Inv == GradingInv /\ ScoreInv
<1>1. Init => Inv
  <2> SUFFICES ASSUME Init PROVE ScoreInv
    BY GradingInit
  <2>1. /\ \A u \in Users : counted[u] = {}
        /\ \A s \in Subs, t \in TestIds, k \in Tries : call[s][t][k].pc = "idle"
    BY DEF Init, Call
  <2> QED
    BY <2>1 DEF ScoreInv
<1>2. Inv /\ [Next]_vars => Inv'
  <2> SUFFICES ASSUME Inv, [Next]_vars PROVE Inv'
    OBVIOUS
  <2>1. GradingInv' /\ TypeOK'
    BY GradingStep DEF GradingInv
  <2> QED
    BY <2>1, ScoreStep
<1>3. Inv => ScoreIsBacked
  BY DEF ScoreInv, Backed, ScoreIsBacked
<1> QED
  BY <1>1, <1>2, <1>3, PTL DEF Spec

-------------------------------------------------------------------------------
(* The promise: what the statuses a reader sees may do.                    *)

\* The tests a submission read are never tests of the problem again once they
\* were replaced; a submission without its cases was overtaken in this way.
OldInv(s) ==
  /\ submit[s].snap \cap unused = {}
  /\ submit[s].pc = "done" /\ Rows(s) = {} => ~(submit[s].snap \subseteq tests[ProblemOf[s]])
  /\ submit[s].pc \in {"idle", "read"} => status[s] = "none"
  /\ submit[s].pc \in {"created", "accepted"} => status[s] \in {"none", "PENDING"}

StaleInv == /\ \A p \in Problems : tests[p] \cap unused = {}
            /\ \A s \in Subs : OldInv(s)

LEMMA StaleInit == Init => StaleInv
<1> SUFFICES ASSUME Init PROVE StaleInv
  OBVIOUS
<1>1. \A p \in Problems : tests[p] \cap unused = {}
  BY DEF Init
<1>2. \A s \in Subs : submit[s].pc = "idle" /\ submit[s].snap = {} /\ status[s] = "none"
  BY DEF Init
<1> QED
  BY <1>1, <1>2 DEF StaleInv, OldInv

\* A step that leaves request and cases of x alone, and its status as long as
\* the request is not answered.
LEMMA OldKept ==
  ASSUME NEW x \in Subs, OldInv(x), UNCHANGED <<tests, unused>>, Rows(x)' = Rows(x),
         submit'[x].snap = submit[x].snap,
         submit'[x].pc = "failed" \/ submit'[x].pc = submit[x].pc,
         status'[x] = status[x] \/ submit[x].pc = "done"
  PROVE  OldInv(x)'
  BY DEF OldInv

LEMMA SubmitStepStale ==
  ASSUME GradingInv, StaleInv, NEW s \in Subs, SubmitStep(s)
  PROVE  StaleInv'
<1>1. /\ submit \in [Subs -> SubmitRec] /\ submit[s] \in SubmitRec /\ OldInv(s)
      /\ status \in [Subs -> SubmissionStatus \cup {"none"}] /\ caseStatus \in CaseTable
      /\ TypeOK
  BY DEF GradingInv, TypeOK, CaseTable, CaseValue, StaleInv
<1>2. UNCHANGED <<tests, unused>>
  BY DEF SubmitStep, SubmitRead, SubmitCreate, JudgeAccept, SubmitBatchThrows, RecordSubmission
<1>3. \A x \in Subs : x # s => submit'[x] = submit[x] /\ status'[x] = status[x]
                               /\ Rows(x)' = Rows(x)
  BY <1>1 DEF SubmitStep, SubmitRead, SubmitCreate, JudgeAccept, SubmitBatchThrows,
              RecordSubmission, submissionRow, Rows, CaseTable
<1>4. \A x \in Subs : x # s => OldInv(x)'
  BY <1>2, <1>3, OldKept DEF StaleInv
<1>5. OldInv(s)'
  <2>1. CASE SubmitRead(s)
    <3>1. status'[s] = "none"
      BY <1>1, <2>1 DEF SubmitRead, OldInv, submissionRow
    <3>2. submit'[s].pc \in {"failed", "read"}
          /\ submit'[s].snap \in {{}, tests[ProblemOf[s]]}
      BY <1>1, <2>1 DEF SubmitRead
    <3>3. ProblemOf[s] \in Problems
      BY GradingAssumption
    <3> QED
      BY <1>2, <3>1, <3>2, <3>3 DEF OldInv, StaleInv
  <2>2. CASE SubmitCreate(s)
    <3>1. Rows(s)' = Rows(s)
      BY <2>2 DEF SubmitCreate, Rows
    <3>2. \/ submit'[s].pc = "created" /\ submit'[s].snap = submit[s].snap
             /\ status'[s] = "PENDING"
          \/ submit'[s].pc = "failed" /\ submit'[s].snap = submit[s].snap /\ status' = status
      BY <1>1, <2>2, SubmitMoves, PcTypes DEF SubmitCreate, submissionRow
    <3> QED
      BY <1>1, <1>2, <3>1, <3>2 DEF OldInv
  <2>3. CASE JudgeAccept(s)
    <3>1. submit[s].pc = "created" /\ UNCHANGED <<status, caseStatus>>
      BY <2>3 DEF JudgeAccept, submissionRow
    <3>2. submit'[s].pc \in {"accepted", "failed"} /\ submit'[s].snap = submit[s].snap
      BY <1>1, <2>3, SubmitMoves, PcTypes DEF JudgeAccept
    <3> QED
      BY <1>1, <1>2, <3>1, <3>2 DEF OldInv
  <2>4. CASE SubmitBatchThrows(s)
    <3>1. UNCHANGED <<status, caseStatus>> /\ Rows(s)' = Rows(s)
      BY <2>4 DEF SubmitBatchThrows, submissionRow, Rows
    <3>2. submit'[s].pc = "failed" /\ submit'[s].snap = submit[s].snap
      BY <1>1, <2>4, SubmitMoves, PcTypes DEF SubmitBatchThrows
    <3> QED
      BY <1>1, <1>2, <3>1, <3>2, OldKept
  <2>5. CASE RecordSubmission(s) /\ Recordable(s)
    <3>1. submit'[s].pc = "done" /\ submit'[s].snap = submit[s].snap
      BY <1>1, <2>5, SubmitMoves, PcTypes DEF RecordSubmission
    <3>2. submit[s].snap # {} /\ submit[s].snap \subseteq TestIds
      BY <1>1, <2>5 DEF GradingInv, SubInv, SubmitInv, RecordSubmission, InFlight, SubmitRec
    <3>3. \A t \in submit[s].snap : caseStatus'[s][t] = "PENDING"
      BY <1>1, <2>5, <3>2 DEF RecordSubmission, CaseTable
    <3>4. Rows(s)' # {}
      BY <3>2, <3>3 DEF Rows
    <3> QED
      BY <1>1, <1>2, <3>1, <3>4 DEF OldInv
  <2>6. CASE RecordSubmission(s) /\ ~Recordable(s)
    <3>1. UNCHANGED <<status, caseStatus>> /\ Rows(s)' = Rows(s)
      BY <2>6 DEF RecordSubmission, Rows
    <3>2. submit'[s].pc = "failed" /\ submit'[s].snap = submit[s].snap
      BY <1>1, <2>6, SubmitMoves, PcTypes DEF RecordSubmission
    <3> QED
      BY <1>1, <1>2, <3>1, <3>2, OldKept
  <2> QED
    BY <2>1, <2>2, <2>3, <2>4, <2>5, <2>6 DEF SubmitStep
<1> QED
  BY <1>2, <1>4, <1>5 DEF StaleInv

LEMMA DiesStale ==
  ASSUME GradingInv, StaleInv, ProcessDies
  PROVE  StaleInv'
<1>1. UNCHANGED <<tests, unused, status, caseStatus>> /\ \A x \in Subs : Rows(x)' = Rows(x)
  BY DEF ProcessDies, submissionRow, Rows
<1>2. ASSUME NEW x \in Subs
      PROVE  /\ submit'[x].snap = submit[x].snap
             /\ submit'[x].pc = "failed" \/ submit'[x].pc = submit[x].pc
  <2>1. submit[x] \in SubmitRec
    BY DEF GradingInv, TypeOK
  <2>2. submit'[x] = [submit[x] EXCEPT !.pc = "failed"] \/ submit'[x] = submit[x]
    BY DEF ProcessDies
  <2>3. ASSUME submit'[x] = [submit[x] EXCEPT !.pc = "failed"]
        PROVE  submit'[x].pc = "failed" /\ submit'[x].snap = submit[x].snap
    BY <2>1, <2>3 DEF SubmitRec
  <2> QED
    BY <2>2, <2>3
<1> QED
  BY <1>1, <1>2, OldKept DEF StaleInv

\* What a handler writes: cases that are there, the status of its submission.
LEMMA CallStepEffect ==
  ASSUME GradingInv, NEW s \in Subs, NEW t \in TestIds, NEW k \in Tries,
         CallStep(s, t, k), ~ProcessDies
  PROVE  /\ UNCHANGED <<tests, unused, submit>>
         /\ \A x \in Subs : Rows(x)' = Rows(x)
         /\ status' = status \/ WriteSubmission(s, t, k)
<1>1. CASE UpdateCase(s, t, k)
  <2>1. /\ caseStatus' = [caseStatus EXCEPT ![s][t] = Verdict(s, t)]
        /\ UNCHANGED <<tests, unused, submit, status>> /\ caseStatus[s][t] # "none"
    BY <1>1 DEF UpdateCase, submissionRow
  <2>2. Verdict(s, t) \in SubmissionStatus /\ caseStatus \in CaseTable
    <3>1. job[s][t].id \in 1..14
      BY DEF GradingInv, TypeOK, JobRec
    <3> QED
      BY <3>1, VerdictType DEF Verdict, GradingInv, TypeOK, CaseTable, CaseValue
  <2>3. Verdict(s, t) # "none"
    BY <2>2 DEF SubmissionStatus, FinalVerdicts
  <2>4. \A x \in Subs, t1 \in TestIds :
          caseStatus'[x][t1] = IF x = s /\ t1 = t THEN Verdict(s, t) ELSE caseStatus[x][t1]
    BY <2>1, <2>2 DEF CaseTable
  <2>5. \A x \in Subs : Rows(x)' = Rows(x)
    BY <2>1, <2>3, <2>4 DEF Rows
  <2> QED
    BY <2>1, <2>5
<1>2. CASE ~UpdateCase(s, t, k)
  <2>1. /\ UNCHANGED <<tests, unused, submit, caseStatus>>
        /\ status' = status \/ WriteSubmission(s, t, k)
    BY <1>2 DEF CallStep, FindCase, RereadCases, WriteSubmission, ReadAccepted, UpsertScore,
                submissionRow
  <2> QED
    BY <2>1 DEF Rows
<1> QED
  BY <1>1, <1>2

\* What WriteSubmission writes, when the process survives it.
LEMMA WriteEffect ==
  ASSUME GradingInv, NEW s \in Subs, NEW t \in TestIds, NEW k \in Tries,
         WriteSubmission(s, t, k), ~ProcessDies
  PROVE  /\ submit[s].pc = "done" /\ status[s] # "none"
         /\ UNCHANGED <<tests, submit>>
         /\ \/ status' = status
            \/ status' = [status EXCEPT ![s] = "PENDING"] /\ Rows(s) = {}
            \/ \E v : status' = [status EXCEPT ![s] = v] /\ Earned(s, v)
<1>1. /\ call[s][t][k].pc = "write" /\ status[s] # "none" /\ UNCHANGED <<tests, submit>>
      /\ status' = IF call[s][t][k].allDone
                   THEN [status EXCEPT ![s] = call[s][t][k].overall] ELSE status
  BY DEF WriteSubmission
<1>2. CallInv(s, t, k)
  BY DEF GradingInv, SubInv
<1> QED
  BY <1>1, <1>2 DEF CallInv, Serving

\* The tests of some problems are replaced by unused ones, or by none.
LEMMA ReplacedStale ==
  ASSUME GradingInv, StaleInv, NEW P \in SUBSET Problems, UNCHANGED submit,
         unused' \subseteq unused,
         \A p \in Problems \ P : tests'[p] = tests[p],
         \A p \in P : tests'[p] \subseteq unused /\ tests'[p] \cap unused' = {},
         caseStatus' = Cascade(P),
         \A x \in Subs : status'[x] = status[x] \/ status'[x] = "none"
  PROVE  /\ StaleInv'
         /\ \A x \in Subs : ~(submit[x].snap \subseteq tests[ProblemOf[x]]) =>
              ~(submit[x].snap \subseteq tests'[ProblemOf[x]])
<1>1. \A p \in Problems : tests'[p] \cap unused' = {}
  BY DEF StaleInv
<1>2. ASSUME NEW x \in Subs
      PROVE  /\ OldInv(x)'
             /\ ~(submit[x].snap \subseteq tests[ProblemOf[x]]) =>
                  ~(submit[x].snap \subseteq tests'[ProblemOf[x]])
  <2>1. ProblemOf[x] \in Problems /\ OldInv(x) /\ SubmitInv(x) /\ submit'[x] = submit[x]
    BY GradingAssumption DEF StaleInv, GradingInv, SubInv
  <2>2. CASE ProblemOf[x] \in P
    <3>1. submit[x].snap # {} => ~(submit[x].snap \subseteq tests'[ProblemOf[x]])
      BY <2>1, <2>2 DEF OldInv
    <3>2. submit[x].pc = "done" => submit[x].snap # {}
      BY <2>1 DEF SubmitInv
    <3> QED
      BY <2>1, <3>1, <3>2 DEF OldInv
  <2>3. CASE ProblemOf[x] \notin P
    <3>1. Rows(x)' = Rows(x)
      BY <2>3 DEF Rows, Cascade
    <3>2. tests'[ProblemOf[x]] = tests[ProblemOf[x]]
      BY <2>1, <2>3
    <3> QED
      BY <2>1, <3>1, <3>2 DEF OldInv
  <2> QED
    BY <2>2, <2>3
<1> QED
  BY <1>1, <1>2 DEF StaleInv

\* The three steps that replace tests are of this kind.
LEMMA Replacing ==
  ASSUME GradingInv,
         Restart \/ (\E p \in Problems : AdminPut(p) \/ AdminDelete(p))
  PROVE  \E P \in SUBSET Problems :
           /\ UNCHANGED <<submit, job>> /\ unused' \subseteq unused
           /\ \A p \in Problems \ P : tests'[p] = tests[p]
           /\ \A p \in P : tests'[p] \subseteq unused /\ tests'[p] \cap unused' = {}
           /\ caseStatus' = Cascade(P)
           /\ \/ status' = status
              \/ /\ status' = [s \in Subs |-> IF ProblemOf[s] \in P THEN "none" ELSE status[s]]
                 /\ \A p \in P : tests'[p] = {}
<1>1. tests \in [Problems -> SUBSET TestIds] /\ live \subseteq Problems
  BY DEF GradingInv, TypeOK
<1>2. ASSUME NEW p \in Problems, AdminPut(p)
      PROVE  /\ UNCHANGED <<submit, job, status>> /\ unused' \subseteq unused
             /\ \A q \in Problems \ {p} : tests'[q] = tests[q]
             /\ tests'[p] \subseteq unused /\ tests'[p] \cap unused' = {}
             /\ caseStatus' = Cascade({p})
  BY <1>1, <1>2 DEF AdminPut, submissionRow
<1>3. ASSUME NEW p \in Problems, AdminDelete(p)
      PROVE  /\ UNCHANGED <<submit, job, unused>>
             /\ \A q \in Problems \ {p} : tests'[q] = tests[q]
             /\ tests'[p] = {} /\ caseStatus' = Cascade({p})
             /\ status' = [s \in Subs |-> IF ProblemOf[s] \in {p} THEN "none" ELSE status[s]]
  BY <1>1, <1>3 DEF AdminDelete
<1>4. ASSUME Restart
      PROVE  /\ UNCHANGED <<submit, job, status>> /\ unused' \subseteq unused
             /\ \A q \in Problems \ (Seeded \cap live) : tests'[q] = tests[q]
             /\ \A p \in Seeded \cap live : tests'[p] \subseteq unused
                                            /\ tests'[p] \cap unused' = {}
             /\ caseStatus' = Cascade(Seeded \cap live)
  <2>1. PICK new \in [Seeded \cap live -> SUBSET unused \ {{}}] :
          /\ tests' = [p \in Problems |-> IF p \in Seeded \cap live THEN new[p] ELSE tests[p]]
          /\ unused' = unused \ UNION {new[p] : p \in Seeded \cap live}
    BY <1>4 DEF Restart
  <2>2. \A p \in Seeded \cap live : tests'[p] = new[p] /\ new[p] \subseteq unused
    BY <1>1, <2>1
  <2>3. \A p \in Seeded \cap live : new[p] \cap unused' = {}
    BY <2>1
  <2> QED
    BY <1>1, <1>4, <2>1, <2>2, <2>3 DEF Restart, submissionRow
<1>5. Seeded \cap live \in SUBSET Problems /\ \A p \in Problems : {p} \in SUBSET Problems
  BY <1>1
<1>6. CASE \E p \in Problems : AdminPut(p)
  <2>1. PICK p \in Problems : AdminPut(p)
    BY <1>6
  <2> QED
    BY <1>2, <1>5, <2>1
<1>7. CASE \E p \in Problems : AdminDelete(p)
  <2>1. PICK p \in Problems : AdminDelete(p)
    BY <1>7
  <2>2. /\ UNCHANGED <<submit, job>> /\ unused' \subseteq unused
        /\ \A q \in Problems \ {p} : tests'[q] = tests[q]
        /\ tests'[p] \subseteq unused /\ tests'[p] \cap unused' = {}
        /\ tests'[p] = {} /\ caseStatus' = Cascade({p})
        /\ status' = [s \in Subs |-> IF ProblemOf[s] \in {p} THEN "none" ELSE status[s]]
    BY <1>3, <2>1
  <2>3. \A q \in {p} : /\ tests'[q] \subseteq unused /\ tests'[q] \cap unused' = {}
                       /\ tests'[q] = {}
    BY <2>2
  <2> QED
    BY <1>5, <2>2, <2>3
<1>8. CASE Restart
  BY <1>4, <1>5, <1>8
<1> QED
  BY <1>6, <1>7, <1>8

LEMMA StaleStep ==
  ASSUME GradingInv, StaleInv, [Next]_vars
  PROVE  StaleInv'
<1>1. ASSUME UNCHANGED <<tests, unused, submit, status, caseStatus>> PROVE StaleInv'
  BY <1>1 DEF StaleInv, OldInv, Rows
<1>2. ASSUME NEW s \in Subs, NEW t \in TestIds,
             JudgeFinish(s, t) \/ Deliver(s, t) \/ Refused(s, t) \/ CallTimesOut(s, t)
      PROVE  StaleInv'
  BY <1>1, <1>2 DEF JudgeFinish, Deliver, Refused, CallTimesOut, submissionRow
<1>3. ASSUME NEW s \in Subs, NEW t \in TestIds, NEW k \in Tries, CallStep(s, t, k)
      PROVE  StaleInv'
  <2>1. CASE ProcessDies
    BY <2>1, DiesStale
  <2>2. CASE ~ProcessDies
    <3>1. /\ UNCHANGED <<tests, unused, submit>> /\ \A x \in Subs : Rows(x)' = Rows(x)
          /\ status' = status \/ WriteSubmission(s, t, k)
      BY <1>3, <2>2, CallStepEffect
    <3>2. \A x \in Subs : status'[x] = status[x] \/ submit[x].pc = "done"
      <4>1. CASE status' = status
        BY <4>1
      <4>2. CASE WriteSubmission(s, t, k)
        <5>1. submit[s].pc = "done"
              /\ (status' = status \/ \E v : status' = [status EXCEPT ![s] = v])
          BY <2>2, <4>2, WriteEffect
        <5> QED
          BY <5>1 DEF GradingInv, TypeOK
      <4> QED
        BY <3>1, <4>1, <4>2
    <3> QED
      BY <3>1, <3>2, OldKept DEF StaleInv
  <2> QED
    BY <2>1, <2>2
<1>4. ASSUME Restart \/ (\E p \in Problems : AdminPut(p) \/ AdminDelete(p)) PROVE StaleInv'
  <2>1. PICK P \in SUBSET Problems :
           /\ UNCHANGED <<submit, job>> /\ unused' \subseteq unused
           /\ \A p \in Problems \ P : tests'[p] = tests[p]
           /\ \A p \in P : tests'[p] \subseteq unused /\ tests'[p] \cap unused' = {}
           /\ caseStatus' = Cascade(P)
           /\ \/ status' = status
              \/ status' = [s \in Subs |-> IF ProblemOf[s] \in P THEN "none" ELSE status[s]]
    BY <1>4, Replacing
  <2>2. \A x \in Subs : status'[x] = status[x] \/ status'[x] = "none"
    BY <2>1
  <2> QED
    BY <2>1, <2>2, ReplacedStale
<1>5. CASE Crash
  BY <1>5, DiesStale DEF Crash
<1>6. CASE UNCHANGED vars
  BY <1>1, <1>6 DEF vars, submissionRow
<1> QED
  BY <1>2, <1>3, <1>4, <1>5, <1>6, SubmitStepStale DEF Next

\* The state of GradingPromise, as the pipeline shows it.
Asked == [s \in Subs |-> submit[s].snap]
Ids   == [s \in Subs |-> [t \in TestIds |-> IF Judged(s, t) THEN job[s][t].id ELSE 0]]
Stale == {s \in Subs : ~(submit[s].snap \subseteq tests[ProblemOf[s]])}
Shown == <<Asked, Ids, Stale, status>>

\* The promise combines verdicts as the grader does.
LEMMA SameAlgebra ==
  /\ \A S : Promise!CombineVerdicts(S) = CombineVerdicts(S)
  /\ \A id : Promise!Judge0StatusToVerdict(id) = Judge0StatusToVerdict(id)
<1>2. \A S : Promise!CombineVerdicts(S) = CombineVerdicts(S)
  BY DEF Promise!CombineVerdicts, CombineVerdicts, Promise!IsWorst, IsWorst, Promise!RANK,
         RANK, Promise!SubmissionStatus, SubmissionStatus, Promise!FinalVerdicts, FinalVerdicts
<1>3. \A id : Promise!Judge0StatusToVerdict(id) = Judge0StatusToVerdict(id)
  BY DEF Promise!Judge0StatusToVerdict, Judge0StatusToVerdict
<1> QED
  BY <1>2, <1>3

\* The steps of the promise, in terms of what the pipeline shows.
LEMMA AsAsk ==
  ASSUME NEW s \in Subs, NEW ts \in SUBSET TestIds, Asked[s] = {},
         Asked' = [Asked EXCEPT ![s] = ts], UNCHANGED <<Ids, Stale, status>>
  PROVE  Promise!Next
  BY DEF Promise!Next, Promise!Ask, Asked, Ids, Stale

LEMMA AsPublish ==
  ASSUME NEW s \in Subs, Asked[s] # {}, status[s] = "none",
         status' = [status EXCEPT ![s] = "PENDING"], UNCHANGED <<Asked, Ids, Stale>>
  PROVE  Promise!Next
  BY DEF Promise!Next, Promise!Publish, Asked, Ids, Stale

LEMMA AsStart ==
  ASSUME NEW s \in Subs, s \notin Stale, status[s] = "PENDING",
         status' = [status EXCEPT ![s] = "RUNNING"], UNCHANGED <<Asked, Ids, Stale>>
  PROVE  Promise!Next
  BY DEF Promise!Next, Promise!Start, Asked, Ids, Stale

LEMMA AsJudgeOne ==
  ASSUME NEW s \in Subs, NEW t \in TestIds, NEW id \in Outcomes, t \in Asked[s],
         Ids[s][t] = 0, Ids' = [Ids EXCEPT ![s][t] = id], UNCHANGED <<Asked, Stale, status>>
  PROVE  Promise!Next
<1>1. \E i \in Outcomes : Ids' = [Ids EXCEPT ![s][t] = i]
  OBVIOUS
<1>2. Promise!JudgeOne(s, t)
  BY <1>1 DEF Promise!JudgeOne, Asked, Ids, Stale
<1> QED
  BY <1>2 DEF Promise!Next

LEMMA AsReset ==
  ASSUME NEW s \in Subs, s \in Stale, status[s] # "none",
         status' = [status EXCEPT ![s] = "PENDING"], UNCHANGED <<Asked, Ids, Stale>>
  PROVE  Promise!Next
  BY DEF Promise!Next, Promise!Reset, Asked, Ids, Stale

LEMMA AsGrade ==
  ASSUME TypeOK, NEW s \in Subs, NEW v, Earned(s, v), SubInv(s), status[s] # "none",
         status' = [status EXCEPT ![s] = v], UNCHANGED <<Asked, Ids, Stale>>
  PROVE  Promise!Next
<1>1. Asked[s] = submit[s].snap /\ submit[s].snap \subseteq TestIds
  BY DEF Asked, TypeOK, SubmitRec
<1>2. \A t \in Asked[s] : Ids[s][t] = job[s][t].id /\ Ids[s][t] # 0
  BY <1>1 DEF Earned, Ids, SubInv, TestInv, J0Final
<1>3. {Promise!Judge0StatusToVerdict(Ids[s][t]) : t \in Asked[s]}
        = {Verdict(s, t) : t \in submit[s].snap}
  BY <1>1, <1>2, SameAlgebra DEF Verdict
<1>4. v = Promise!CombineVerdicts({Promise!Judge0StatusToVerdict(Ids[s][t]) : t \in Asked[s]})
  BY <1>3, SameAlgebra DEF Earned
<1>5. Promise!Grade(s)
  BY <1>1, <1>2, <1>4 DEF Earned, Promise!Grade, Asked, Ids, Stale
<1> QED
  BY <1>5 DEF Promise!Next

LEMMA AsReplace ==
  ASSUME NEW gone \in SUBSET Subs, UNCHANGED <<Asked, Ids>>, Stale \subseteq Stale',
         \A s \in gone : Asked[s] = {} \/ s \in Stale',
         status' = [s \in Subs |-> IF s \in gone THEN "none" ELSE status[s]]
  PROVE  Promise!Next
<1>1. Stale' \in SUBSET Subs /\ Stale' = Stale \cup Stale'
  BY DEF Stale
<1>2. Promise!Replace
  BY <1>1 DEF Promise!Replace, Asked, Ids, Stale
<1> QED
  BY <1>2 DEF Promise!Next

\* Nobody sees a test judged but in the step of Judge0 that judges it.
LEMMA IdsKept ==
  ASSUME GradingInv, \A x \in Subs, t \in TestIds : Learns(x, t) /\ ~JudgeFinish(x, t)
  PROVE  UNCHANGED Ids
  BY DEF Learns, Ids

\* The tests of problems and requests decide who is stale.
LEMMA StaleKept ==
  ASSUME \A s \in Subs : submit'[s].snap = submit[s].snap
  PROVE  UNCHANGED Asked /\ (UNCHANGED tests => UNCHANGED Stale)
  BY DEF Asked, Stale

\* A step that touches no request, no test and no status shows nothing new.
LEMMA NothingShown ==
  ASSUME \A s \in Subs : submit'[s].snap = submit[s].snap, UNCHANGED <<tests, status, Ids>>
  PROVE  UNCHANGED Shown
  BY StaleKept DEF Shown

LEMMA JudgeFinishShown ==
  ASSUME GradingInv, NEW s \in Subs, NEW t \in TestIds, JudgeFinish(s, t)
  PROVE  Promise!Next
<1>1. job \in JobTable /\ job[s][t] \in JobRec /\ TestInv(s, t) /\ submit[s] \in SubmitRec
  BY DEF GradingInv, TypeOK, JobTable, SubInv
<1>2. job[s][t].st = "judging" /\ UNCHANGED <<submit, tests, status>>
  BY DEF JudgeFinish, submissionRow
<1>3. PICK id \in Outcomes :
        job' = [job EXCEPT ![s][t] = [job[s][t] EXCEPT !.st = "calling", !.id = id]]
  BY DEF JudgeFinish
<1>4. id \in 1..14 /\ "calling" \in JobState
  BY Bounds DEF JobState
<1>5. \A s1 \in Subs, t1 \in TestIds :
        job'[s1][t1] = IF s1 = s /\ t1 = t
                       THEN [job[s][t] EXCEPT !.st = "calling", !.id = id] ELSE job[s1][t1]
  BY <1>1, <1>3 DEF JobTable
<1>6. job'[s][t].st = "calling" /\ job'[s][t].id = id
  BY <1>1, <1>5 DEF JobRec
<1>7. ~Judged(s, t) /\ Judged(s, t)'
  BY <1>2, <1>6 DEF Judged
<1>8. \A s1 \in Subs, t1 \in TestIds : ~(s1 = s /\ t1 = t) =>
        Judged(s1, t1)' = Judged(s1, t1) /\ job'[s1][t1].id = job[s1][t1].id
  BY <1>5 DEF Judged
<1>9. Ids' = [Ids EXCEPT ![s][t] = id]
  <2>1. \A s1 \in Subs, t1 \in TestIds :
          (IF Judged(s1, t1) THEN job[s1][t1].id ELSE 0)'
            = IF s1 = s /\ t1 = t THEN id ELSE IF Judged(s1, t1) THEN job[s1][t1].id ELSE 0
    BY <1>6, <1>7, <1>8
  <2> QED
    BY <2>1 DEF Ids
<1>10. Ids[s][t] = 0 /\ t \in Asked[s] /\ UNCHANGED <<Asked, Stale>>
  BY <1>1, <1>2, <1>7, StaleKept DEF Ids, Asked, TestInv
<1> QED
  BY <1>2, <1>9, <1>10, AsJudgeOne

LEMMA SubmitShown ==
  ASSUME GradingInv, StaleInv, NEW s \in Subs, SubmitStep(s), UNCHANGED Ids
  PROVE  Promise!Next \/ UNCHANGED Shown
<1>1. /\ TypeOK /\ submit \in [Subs -> SubmitRec] /\ submit[s] \in SubmitRec
      /\ SubmitInv(s) /\ OldInv(s) /\ Asked[s] = submit[s].snap
  BY DEF GradingInv, TypeOK, SubInv, StaleInv, Asked
<1>2. UNCHANGED tests /\ \A x \in Subs : x # s => submit'[x] = submit[x]
  BY <1>1 DEF SubmitStep, SubmitRead, SubmitCreate, JudgeAccept, SubmitBatchThrows,
              RecordSubmission
<1>3. CASE SubmitRead(s)
  <2>1. UNCHANGED status /\ submit[s].snap = {}
    BY <1>1, <1>3 DEF SubmitRead, SubmitInv, submissionRow
  <2>2. submit'[s].snap \in {{}, tests[ProblemOf[s]]}
    BY <1>1, <1>3 DEF SubmitRead
  <2>3. submit'[s].snap \in SUBSET TestIds
    BY <1>1, <2>2, GradingAssumption DEF TypeOK
  <2>4. Asked' = [Asked EXCEPT ![s] = submit'[s].snap]
    BY <1>2 DEF Asked
  <2>5. Stale' = Stale
    <3>1. \A x \in Subs : (submit'[x].snap \subseteq tests[ProblemOf[x]])
                            <=> (submit[x].snap \subseteq tests[ProblemOf[x]])
      BY <1>2, <2>1, <2>2
    <3> QED
      BY <1>2, <3>1 DEF Stale
  <2> QED
    BY <1>1, <2>1, <2>3, <2>4, <2>5, AsAsk
<1>4. ASSUME submit'[s].snap = submit[s].snap PROVE UNCHANGED <<Asked, Stale>>
  BY <1>2, <1>4, StaleKept
<1>5. ASSUME submit'[s].snap = submit[s].snap, UNCHANGED status PROVE UNCHANGED Shown
  BY <1>4, <1>5 DEF Shown
<1>6. CASE SubmitCreate(s)
  <2>1. submit'[s].snap = submit[s].snap /\ submit[s].pc = "read"
    BY <1>1, <1>6, SubmitMoves, PcTypes DEF SubmitCreate
  <2>2. status' = status \/ status' = [status EXCEPT ![s] = "PENDING"]
    BY <1>6 DEF SubmitCreate, submissionRow
  <2>3. status[s] = "none" /\ Asked[s] # {}
    BY <1>1, <2>1 DEF OldInv, SubmitInv, InFlight
  <2> QED
    BY <1>4, <1>5, <2>1, <2>2, <2>3, AsPublish
<1>7. CASE JudgeAccept(s)
  <2>1. submit'[s].snap = submit[s].snap /\ UNCHANGED status
    BY <1>1, <1>7, SubmitMoves, PcTypes DEF JudgeAccept, submissionRow
  <2> QED
    BY <1>5, <2>1
<1>8. CASE SubmitBatchThrows(s)
  <2>1. submit'[s].snap = submit[s].snap /\ UNCHANGED status
    BY <1>1, <1>8, SubmitMoves, PcTypes DEF SubmitBatchThrows, submissionRow
  <2> QED
    BY <1>5, <2>1
<1>9. CASE RecordSubmission(s)
  <2>1. submit'[s].snap = submit[s].snap /\ submit[s].pc = "accepted"
    BY <1>1, <1>9, SubmitMoves, PcTypes DEF RecordSubmission
  <2>2. CASE Recordable(s)
    <3>1. status' = [status EXCEPT ![s] = "RUNNING"]
      BY <1>9, <2>2 DEF RecordSubmission
    <3>2. status[s] = "PENDING" /\ s \notin Stale
      BY <1>1, <2>1, <2>2 DEF Recordable, OldInv, Stale
    <3> QED
      BY <1>4, <2>1, <3>1, <3>2, AsStart
  <2>3. CASE ~Recordable(s)
    <3>1. UNCHANGED status
      BY <1>9, <2>3 DEF RecordSubmission
    <3> QED
      BY <1>5, <2>1, <3>1
  <2> QED
    BY <2>2, <2>3
<1> QED
  BY <1>3, <1>6, <1>7, <1>8, <1>9 DEF SubmitStep

LEMMA DiesShown ==
  ASSUME GradingInv, ProcessDies, UNCHANGED Ids
  PROVE  UNCHANGED Shown
<1>1. UNCHANGED <<tests, status>>
  BY DEF ProcessDies, submissionRow
<1>2. ASSUME NEW x \in Subs PROVE submit'[x].snap = submit[x].snap
  <2>1. submit[x] \in SubmitRec
    BY DEF GradingInv, TypeOK
  <2>2. submit'[x] = [submit[x] EXCEPT !.pc = "failed"] \/ submit'[x] = submit[x]
    BY DEF ProcessDies
  <2> QED
    BY <2>1, <2>2 DEF SubmitRec
<1> QED
  BY <1>1, <1>2, NothingShown

LEMMA CallShown ==
  ASSUME GradingInv, StaleInv, NEW s \in Subs, NEW t \in TestIds, NEW k \in Tries,
         CallStep(s, t, k), ~ProcessDies, UNCHANGED Ids
  PROVE  Promise!Next \/ UNCHANGED Shown
<1>1. UNCHANGED <<tests, submit>> /\ (status' = status \/ WriteSubmission(s, t, k))
  BY CallStepEffect
<1>2. UNCHANGED <<Asked, Stale>>
  BY <1>1, StaleKept
<1>3. CASE status' = status
  BY <1>2, <1>3 DEF Shown
<1>4. CASE status' # status
  <2>1. /\ submit[s].pc = "done" /\ status[s] # "none"
        /\ \/ status' = [status EXCEPT ![s] = "PENDING"] /\ Rows(s) = {}
           \/ \E v : status' = [status EXCEPT ![s] = v] /\ Earned(s, v)
    BY <1>1, <1>4, WriteEffect
  <2>2. CASE status' = [status EXCEPT ![s] = "PENDING"] /\ Rows(s) = {}
    <3>1. s \in Stale
      BY <2>1, <2>2 DEF StaleInv, OldInv, Stale
    <3> QED
      BY <1>2, <2>1, <2>2, <3>1, AsReset
  <2>3. CASE \E v : status' = [status EXCEPT ![s] = v] /\ Earned(s, v)
    <3>1. PICK v : status' = [status EXCEPT ![s] = v] /\ Earned(s, v)
      BY <2>3
    <3> QED
      BY <1>2, <2>1, <3>1, AsGrade DEF GradingInv
  <2> QED
    BY <2>1, <2>2, <2>3
<1> QED
  BY <1>3, <1>4

LEMMA ReplaceShown ==
  ASSUME GradingInv, StaleInv, UNCHANGED Ids,
         Restart \/ (\E p \in Problems : AdminPut(p) \/ AdminDelete(p))
  PROVE  Promise!Next
<1>1. PICK P \in SUBSET Problems :
           /\ UNCHANGED <<submit, job>> /\ unused' \subseteq unused
           /\ \A p \in Problems \ P : tests'[p] = tests[p]
           /\ \A p \in P : tests'[p] \subseteq unused /\ tests'[p] \cap unused' = {}
           /\ caseStatus' = Cascade(P)
           /\ \/ status' = status
              \/ /\ status' = [s \in Subs |-> IF ProblemOf[s] \in P THEN "none" ELSE status[s]]
                 /\ \A p \in P : tests'[p] = {}
  BY Replacing
<1>2. \A x \in Subs : status'[x] = status[x] \/ status'[x] = "none"
  BY <1>1
<1>3. \A x \in Subs : ~(submit[x].snap \subseteq tests[ProblemOf[x]]) =>
                        ~(submit[x].snap \subseteq tests'[ProblemOf[x]])
  BY <1>1, <1>2, ReplacedStale
<1>4. UNCHANGED Asked /\ Stale \subseteq Stale'
  BY <1>1, <1>3 DEF Asked, Stale
<1>5. CASE status' = status
  <2>1. status' = [s \in Subs |-> IF s \in {} THEN "none" ELSE status[s]]
    BY <1>5 DEF GradingInv, TypeOK
  <2>2. {} \in SUBSET Subs /\ \A s \in {} : Asked[s] = {} \/ s \in Stale'
    OBVIOUS
  <2> QED
    BY <1>1, <1>4, <2>1, <2>2, AsReplace
<1>6. CASE /\ status' = [s \in Subs |-> IF ProblemOf[s] \in P THEN "none" ELSE status[s]]
           /\ \A p \in P : tests'[p] = {}
  <2> DEFINE gone == {s \in Subs : ProblemOf[s] \in P}
  <2>1. status' = [s \in Subs |-> IF s \in gone THEN "none" ELSE status[s]]
    BY <1>6
  <2>2. \A s \in gone : Asked[s] = {} \/ s \in Stale'
    BY <1>1, <1>6 DEF Asked, Stale
  <2> QED
    BY <1>4, <2>1, <2>2, AsReplace
<1> QED
  BY <1>1, <1>5, <1>6

LEMMA PromiseStep ==
  ASSUME GradingInv, StaleInv, [Next]_vars
  PROVE  Promise!Next \/ UNCHANGED Shown
<1>1. CASE \E s \in Subs, t \in TestIds : JudgeFinish(s, t)
  BY <1>1, JudgeFinishShown
<1>2. CASE ~\E s \in Subs, t \in TestIds : JudgeFinish(s, t)
  <2>1. UNCHANGED Ids
    BY <1>2, EveryMoved, IdsKept DEF Moved
  <2>2. ASSUME NEW s \in Subs, NEW t \in TestIds,
               Deliver(s, t) \/ Refused(s, t) \/ CallTimesOut(s, t)
        PROVE  UNCHANGED Shown
    BY <2>1, <2>2, NothingShown DEF Deliver, Refused, CallTimesOut, submissionRow
  <2>3. ASSUME NEW s \in Subs, NEW t \in TestIds, NEW k \in Tries, CallStep(s, t, k)
        PROVE  Promise!Next \/ UNCHANGED Shown
    BY <2>1, <2>3, DiesShown, CallShown
  <2>4. CASE Restart \/ (\E p \in Problems : AdminPut(p) \/ AdminDelete(p))
    BY <2>1, <2>4, ReplaceShown
  <2>5. CASE Crash
    BY <2>1, <2>5, DiesShown DEF Crash
  <2>6. CASE UNCHANGED vars
    BY <2>1, <2>6, NothingShown DEF vars, submissionRow
  <2> QED
    BY <1>2, <2>1, <2>2, <2>3, <2>4, <2>5, <2>6, SubmitShown DEF Next
<1> QED
  BY <1>1, <1>2

\* The pipeline keeps the promise of GradingPromise, crashes, restarts, edits,
\* retries and racing handlers included: whatever a reader sees of a
\* submission, it gets a final verdict only when all its tests are judged, and
\* loses one only when its tests were replaced or its problem deleted.
THEOREM KeepingThePromise == Spec => PromiseKept
<1> DEFINE Inv == GradingInv /\ StaleInv
<1>1. Init => Inv
  BY GradingInit, StaleInit
<1>2. Inv /\ [Next]_vars => Inv'
  BY GradingStep, StaleStep
<1>3. Init => Promise!Init
  <2> SUFFICES ASSUME Init PROVE Promise!Init
    OBVIOUS
  <2>1. /\ \A s \in Subs : submit[s].snap = {}
        /\ \A s \in Subs, t \in TestIds : ~Judged(s, t)
        /\ status = [s \in Subs |-> "none"]
    BY DEF Init, Judged, NoJob
  <2> QED
    BY <2>1 DEF Promise!Init
<1>4. Inv /\ [Next]_vars => [Promise!Next]_(Promise!vars)
  BY PromiseStep DEF Shown, Asked, Ids, Stale, Promise!vars
<1> QED
  BY <1>1, <1>2, <1>3, <1>4, PTL DEF Spec, PromiseKept, Promise!Spec
===============================================================================
