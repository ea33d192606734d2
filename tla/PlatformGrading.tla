---------------------------- MODULE PlatformGrading ----------------------------
(***************************************************************************)
(* The grading pipeline of the platform backend: POST /:slug/submit        *)
(* (routes/problems.ts), the Judge0 callback handler and the contest score *)
(* it maintains (routes/internal.ts), the problem edits that run beside    *)
(* them (routes/admin.ts, prisma/seed.ts) and the death and restart of the *)
(* one Node process they all live in.                                      *)
(*                                                                         *)
(* A handler is cut at its awaits: one action runs from the answer of one  *)
(* database or HTTP call to the answer of the next, so actions of          *)
(* different requests interleave exactly where Node may interleave them.   *)
(* Judge0 is the environment here: a batch is accepted or not, every       *)
(* accepted job ends with a status and is PUT to its callback_url at most  *)
(* MaxTries times, until some HTTP response arrives.                       *)
(***************************************************************************)
EXTENDS Grader, FiniteSets

CONSTANTS
  Subs,         \* one POST /submit each
  Problems, TestIds, Users,
  ProblemOf, UserOf,       \* [Subs -> Problems], [Subs -> Users]
  ContestSubs,  \* the submissions sent with a contestId
  InWindow,     \* the submissions created between startsAt and endsAt
  ContestProblems,         \* the problems of that contest
  Seeded,       \* the problems prisma/seed.ts rewrites when the process starts
  InitTests,    \* [Problems -> SUBSET TestIds]
  Outcomes,     \* Judge0 status ids a job may end with
  MaxTries,     \* CALLBACKS_MAX_TRIES of Judge0
  MaxCrashes, MaxEdits     \* bounds

ASSUME GradingAssumption ==
  /\ IsFiniteSet(TestIds)
  /\ ProblemOf \in [Subs -> Problems] /\ UserOf \in [Subs -> Users]
  /\ ContestSubs \subseteq Subs /\ InWindow \subseteq Subs
  /\ ContestProblems \subseteq Problems /\ Seeded \subseteq Problems
  /\ InitTests \in [Problems -> SUBSET TestIds]
  /\ \A p, q \in Problems : p # q => InitTests[p] \cap InitTests[q] = {}
  /\ Outcomes \subseteq J0Final
  /\ MaxTries \in Nat \ {0} /\ MaxCrashes \in Nat /\ MaxEdits \in Nat

VARIABLES
  up,           \* the Node process is running
  crashes, edits,          \* how often the two bounded events happened
  live,         \* rows of Problem
  tests,        \* rows of TestCase, by problem
  unused,       \* cuids no TestCase ever had
  submit,       \* the submit requests: where each is, and the tests it read
  status, passedCount, totalCount,   \* rows of Submission ("none": no row)
  caseStatus,   \* rows of SubmissionCase
  job,          \* Judge0's side of every test of every submission
  call,         \* the callback requests: call[s][t][k] is the k-th try
  counted       \* the problems summed up in ContestParticipant.score

submissionRow == <<status, passedCount, totalCount>>
vars == <<up, crashes, edits, live, tests, unused, submit, submissionRow,
          caseStatus, job, call, counted>>

Tries == 1..MaxTries

NoJob    == [st |-> "none", id |-> 1, tries |-> 0, conn |-> FALSE]
Call(pc) == [pc |-> pc, allDone |-> FALSE, overall |-> "PENDING",
             passed |-> 0, solved |-> {}]

Init ==
  /\ up = TRUE /\ crashes = 0 /\ edits = 0
  /\ live = Problems /\ tests = InitTests
  /\ unused = TestIds \ UNION {InitTests[p] : p \in Problems}
  /\ submit = [s \in Subs |-> [pc |-> "idle", snap |-> {}]]
  /\ status = [s \in Subs |-> "none"]
  /\ passedCount = [s \in Subs |-> 0] /\ totalCount = [s \in Subs |-> 0]
  /\ caseStatus = [s \in Subs |-> [t \in TestIds |-> "none"]]
  /\ job = [s \in Subs |-> [t \in TestIds |-> NoJob]]
  /\ call = [s \in Subs |-> [t \in TestIds |-> [k \in Tries |-> Call("idle")]]]
  /\ counted = [u \in Users |-> {}]

-------------------------------------------------------------------------------
(* Reading the database.                                                   *)

Rows(s)        == {t \in TestIds : caseStatus[s][t] # "none"}
CaseStatuses(s) == {caseStatus[s][t] : t \in Rows(s)}
\* Faults a change of these helpers could introduce.
PassedRowsFinal(s) == {t \in Rows(s) : IsFinalVerdict(caseStatus[s][t])}
AllDoneSome(s)   == \E t \in Rows(s) : IsFinalVerdict(caseStatus[s][t])
AllDonePassed(s) == \A t \in Rows(s) : caseStatus[s][t] = "AC"
SolvedAnyTime(u) == {ProblemOf[s] : s \in {r \in ContestSubs :
                                        UserOf[r] = u /\ status[r] = "AC"}}

PassedRows(s)  == {t \in Rows(s) : caseStatus[s][t] = "AC"}
AllDone(s)     == \A t \in Rows(s) : IsFinalVerdict(caseStatus[s][t])
Verdict(s, t)  == Judge0StatusToVerdict(job[s][t].id)

\* The distinct problems user u solved in the contest and in its window.
Solved(u) == {ProblemOf[s] : s \in {r \in ContestSubs \cap InWindow :
                                       UserOf[r] = u /\ status[r] = "AC"}}

\* Deleting the TestCase rows of the problems in P cascades to their
\* SubmissionCase rows.
Cascade(P) == [s \in Subs |-> IF ProblemOf[s] \in P
                              THEN [t \in TestIds |-> "none"] ELSE caseStatus[s]]

-------------------------------------------------------------------------------
(* The Node process dies: every request it was serving is gone, every      *)
(* open callback connection is reset.                                      *)

InFlight == {"read", "created", "accepted"}
Serving  == {"find", "update", "reread", "write", "score", "upsert"}

ProcessDies ==
  /\ up' = FALSE /\ crashes' = crashes + 1
  /\ submit' = [s \in Subs |-> IF submit[s].pc \in InFlight
                               THEN [submit[s] EXCEPT !.pc = "failed"]
                               ELSE submit[s]]
  /\ call' = [s \in Subs |-> [t \in TestIds |-> [k \in Tries |->
                IF call[s][t][k].pc \in Serving THEN Call("dead") ELSE call[s][t][k]]]]
  /\ job' = [s \in Subs |-> [t \in TestIds |-> [job[s][t] EXCEPT !.conn = FALSE]]]
  /\ UNCHANGED <<edits, live, tests, unused, submissionRow, caseStatus, counted>>

\* Killed from outside, out of memory, a new deployment.
Crash == up /\ crashes < MaxCrashes /\ ProcessDies

\* migrate, prisma/seed.ts, then the server: nothing is served before the
\* seed is through, so what it does is one step for everybody else.
Restart ==
  /\ ~up
  /\ up' = TRUE
  /\ LET again == Seeded \cap live IN
     \E new \in [again -> SUBSET unused \ {{}}] :
       /\ \A p, q \in again : p # q => new[p] \cap new[q] = {}
       /\ tests' = [p \in Problems |-> IF p \in again THEN new[p] ELSE tests[p]]
       /\ unused' = unused \ UNION {new[p] : p \in again}
       /\ caseStatus' = Cascade(again)
  /\ UNCHANGED <<crashes, edits, live, submit, submissionRow, job, call, counted>>

-------------------------------------------------------------------------------
(* PUT /problems/:id and DELETE /problems/:id of an administrator.         *)

AdminPut(p) ==
  /\ up /\ p \in live /\ edits < MaxEdits
  /\ edits' = edits + 1
  /\ \E new \in SUBSET unused :
       /\ tests' = [tests EXCEPT ![p] = new]
       /\ unused' = unused \ new
  /\ caseStatus' = Cascade({p})
  /\ UNCHANGED <<up, crashes, live, submit, submissionRow, job, call, counted>>

AdminDelete(p) ==
  /\ up /\ p \in live /\ edits < MaxEdits
  /\ edits' = edits + 1
  /\ live' = live \ {p}
  /\ tests' = [tests EXCEPT ![p] = {}]
  /\ caseStatus' = Cascade({p})
  /\ status' = [s \in Subs |-> IF ProblemOf[s] = p THEN "none" ELSE status[s]]
  /\ UNCHANGED <<up, crashes, unused, submit, passedCount, totalCount, job, call,
                 counted>>

-------------------------------------------------------------------------------
(* POST /:slug/submit, cut at its four awaits.                             *)

\* findUnique with the test cases; 404 and 400 when there is nothing to run.
SubmitRead(s) ==
  /\ up /\ submit[s].pc = "idle"
  /\ LET ts == tests[ProblemOf[s]] IN
     submit' = [submit EXCEPT ![s] =
                  IF ProblemOf[s] \notin live \/ ts = {}
                  THEN [pc |-> "failed", snap |-> {}]
                  ELSE [pc |-> "read", snap |-> ts]]
  /\ UNCHANGED <<up, crashes, edits, live, tests, unused, submissionRow,
                 caseStatus, job, call, counted>>

\* submission.create; the foreign key fails when the problem is gone.
SubmitCreate(s) ==
  /\ submit[s].pc = "read"
  /\ IF ProblemOf[s] \in live
     THEN /\ status' = [status EXCEPT ![s] = "PENDING"]
          /\ passedCount' = [passedCount EXCEPT ![s] = 0]
          /\ totalCount' = [totalCount EXCEPT ![s] = Cardinality(submit[s].snap)]
          /\ submit' = [submit EXCEPT ![s] = [@ EXCEPT !.pc = "created"]]
     ELSE /\ submit' = [submit EXCEPT ![s] = [@ EXCEPT !.pc = "failed"]]
          /\ UNCHANGED submissionRow
  /\ UNCHANGED <<up, crashes, edits, live, tests, unused, caseStatus, job, call,
                 counted>>

\* POST /submissions/batch: Judge0 stores and queues the items one by one, and
\* may stop half way; the answer then is an error.
JudgeAccept(s) ==
  /\ submit[s].pc = "created"
  /\ \E accepted \in SUBSET submit[s].snap :
       /\ job' = [job EXCEPT ![s] = [t \in TestIds |->
                    IF t \in accepted THEN [NoJob EXCEPT !.st = "judging"]
                                      ELSE job[s][t]]]
       /\ submit' = [submit EXCEPT ![s] = [@ EXCEPT !.pc =
                       IF accepted = submit[s].snap THEN "accepted" ELSE "failed"]]
  /\ UNCHANGED <<up, crashes, edits, live, tests, unused, submissionRow,
                 caseStatus, call, counted>>

\* submitBatch throws although nothing was refused: the 30 s are over or the
\* answer is lost. The error handler answers 500, the rows stay as they are.
SubmitBatchThrows(s) ==
  /\ submit[s].pc \in {"created", "accepted"}
  /\ submit' = [submit EXCEPT ![s] = [@ EXCEPT !.pc = "failed"]]
  /\ UNCHANGED <<up, crashes, edits, live, tests, unused, submissionRow,
                 caseStatus, job, call, counted>>

\* The foreign keys of the new rows hold. (The fault checks only one of them.)
RecordableSubmission(s) == status[s] # "none"
Recordable(s) == status[s] # "none" /\ submit[s].snap \subseteq tests[ProblemOf[s]]

\* The transaction that makes the submission RUNNING and creates its cases;
\* it rolls back when the submission or one of the tests is gone.
RecordSubmission(s) ==
  /\ submit[s].pc = "accepted"
  /\ IF Recordable(s)
     THEN /\ status' = [status EXCEPT ![s] = "RUNNING"]
          /\ caseStatus' = [caseStatus EXCEPT ![s] = [t \in TestIds |->
                              IF t \in submit[s].snap THEN "PENDING"
                                                      ELSE caseStatus[s][t]]]
          /\ submit' = [submit EXCEPT ![s] = [@ EXCEPT !.pc = "done"]]
     ELSE /\ submit' = [submit EXCEPT ![s] = [@ EXCEPT !.pc = "failed"]]
          /\ UNCHANGED <<status, caseStatus>>
  /\ UNCHANGED <<up, crashes, edits, live, tests, unused, passedCount, totalCount,
                 job, call, counted>>

-------------------------------------------------------------------------------
(* Judge0, as far as the platform sees it.                                 *)

JudgeFinish(s, t) ==
  /\ job[s][t].st = "judging"
  /\ \E id \in Outcomes :
       job' = [job EXCEPT ![s][t] = [@ EXCEPT !.st = "calling", !.id = id]]
  /\ UNCHANGED <<up, crashes, edits, live, tests, unused, submit, submissionRow,
                 caseStatus, call, counted>>

\* (The fault allows one try too many.)
CanCallOnceMore(s, t) ==
  job[s][t].st = "calling" /\ ~job[s][t].conn /\ job[s][t].tries <= MaxTries

CanCall(s, t) ==
  job[s][t].st = "calling" /\ ~job[s][t].conn /\ job[s][t].tries < MaxTries

\* The PUT arrives and its signature is right: the handler starts.
Deliver(s, t) ==
  /\ CanCall(s, t) /\ up
  /\ job' = [job EXCEPT ![s][t] = [job[s][t] EXCEPT !.tries = @ + 1, !.conn = TRUE]]
  /\ call' = [call EXCEPT ![s][t][job[s][t].tries + 1] = Call("find")]
  /\ UNCHANGED <<up, crashes, edits, live, tests, unused, submit, submissionRow,
                 caseStatus, counted>>

\* Connection refused: nobody listens.
Refused(s, t) ==
  /\ CanCall(s, t) /\ ~up
  /\ job' = [job EXCEPT ![s][t] = [job[s][t] EXCEPT !.tries = @ + 1]]
  /\ UNCHANGED <<up, crashes, edits, live, tests, unused, submit, submissionRow,
                 caseStatus, call, counted>>

\* CALLBACKS_TIMEOUT: Judge0 stops waiting, the handler does not notice.
CallTimesOut(s, t) ==
  /\ job[s][t].conn
  /\ job' = [job EXCEPT ![s][t] = [@ EXCEPT !.conn = FALSE]]
  /\ UNCHANGED <<up, crashes, edits, live, tests, unused, submit, submissionRow,
                 caseStatus, call, counted>>

-------------------------------------------------------------------------------
(* PUT /judge0-callback, cut at its awaits.                                *)

\* The handler ends with an HTTP response, which ends Judge0's tries if Judge0
\* still waits for this one.
Respond(s, t, k, outcome) ==
  /\ call' = [call EXCEPT ![s][t][k] = Call("done")]
  /\ job' = IF job[s][t].conn /\ job[s][t].tries = k
            THEN [job EXCEPT ![s][t] = [@ EXCEPT !.st = outcome, !.conn = FALSE]]
            ELSE job

\* submissionCase.findFirst
FindCase(s, t, k) ==
  /\ call[s][t][k].pc = "find"
  /\ IF caseStatus[s][t] = "none"
     THEN Respond(s, t, k, "notFound")
     ELSE call' = [call EXCEPT ![s][t][k] = [@ EXCEPT !.pc = "update"]] /\ UNCHANGED job
  /\ UNCHANGED <<up, crashes, edits, live, tests, unused, submit, submissionRow,
                 caseStatus, counted>>

\* submissionCase.update; a row that is gone rejects the promise, and no one
\* catches it: Node ends the process.
UpdateCase(s, t, k) ==
  /\ call[s][t][k].pc = "update"
  /\ IF caseStatus[s][t] = "none"
     THEN ProcessDies
     ELSE /\ caseStatus' = [caseStatus EXCEPT ![s][t] = Verdict(s, t)]
          /\ call' = [call EXCEPT ![s][t][k] = [@ EXCEPT !.pc = "reread"]]
          /\ UNCHANGED <<up, crashes, edits, live, tests, unused, submit,
                         submissionRow, job, counted>>

\* submissionCase.findMany and what is computed from it. On no row at all
\* every() holds and the combined verdict is PENDING.
RereadCases(s, t, k) ==
  /\ call[s][t][k].pc = "reread"
  /\ call' = [call EXCEPT ![s][t][k] =
                [@ EXCEPT !.pc = "write", !.allDone = AllDone(s),
                          !.overall = IF AllDone(s) THEN CombineVerdicts(CaseStatuses(s))
                                                    ELSE "PENDING",
                          !.passed = Cardinality(PassedRows(s))]]
  /\ UNCHANGED <<up, crashes, edits, live, tests, unused, submit, submissionRow,
                 caseStatus, job, counted>>

\* submission.update, with the verdict or with the count alone. The row may be
\* gone; and with no case at all the runtime is -Infinity, which the database
\* client may refuse or store as null.
WriteSubmission(s, t, k) ==
  LET c == call[s][t][k] IN
  /\ c.pc = "write"
  /\ \/ /\ status[s] = "none" \/ (c.allDone /\ c.overall = "PENDING")
        /\ ProcessDies
     \/ /\ status[s] # "none"
        /\ passedCount' = [passedCount EXCEPT ![s] = c.passed]
        /\ status' = IF c.allDone THEN [status EXCEPT ![s] = c.overall] ELSE status
        /\ IF c.allDone /\ c.overall = "AC" /\ s \in ContestSubs
           THEN call' = [call EXCEPT ![s][t][k] = [@ EXCEPT !.pc = "score"]] /\ UNCHANGED job
           ELSE Respond(s, t, k, "ok")
        /\ UNCHANGED <<up, crashes, edits, live, tests, unused, submit, totalCount,
                       caseStatus, counted>>

\* updateContestScore: the accepted submissions inside the window ...
ReadAccepted(s, t, k) ==
  /\ call[s][t][k].pc = "score"
  /\ call' = [call EXCEPT ![s][t][k] =
                [@ EXCEPT !.pc = "upsert",
                          !.solved = Solved(UserOf[s]) \cap ContestProblems]]
  /\ UNCHANGED <<up, crashes, edits, live, tests, unused, submit, submissionRow,
                 caseStatus, job, counted>>

\* ... and the score computed from them, written whatever happened since.
UpsertScore(s, t, k) ==
  /\ call[s][t][k].pc = "upsert"
  /\ counted' = [counted EXCEPT ![UserOf[s]] = call[s][t][k].solved]
  /\ Respond(s, t, k, "ok")
  /\ UNCHANGED <<up, crashes, edits, live, tests, unused, submit, submissionRow,
                 caseStatus>>

CallStep(s, t, k) ==
  \/ FindCase(s, t, k) \/ UpdateCase(s, t, k) \/ RereadCases(s, t, k)
  \/ WriteSubmission(s, t, k) \/ ReadAccepted(s, t, k) \/ UpsertScore(s, t, k)

SubmitStep(s) ==
  \/ SubmitRead(s) \/ SubmitCreate(s) \/ JudgeAccept(s) \/ SubmitBatchThrows(s)
  \/ RecordSubmission(s)

Next ==
  \/ \E s \in Subs : SubmitStep(s)
  \/ \E s \in Subs, t \in TestIds :
       \/ JudgeFinish(s, t) \/ Deliver(s, t) \/ Refused(s, t) \/ CallTimesOut(s, t)
       \/ \E k \in Tries : CallStep(s, t, k)
  \/ \E p \in Problems : AdminPut(p) \/ AdminDelete(p)
  \/ Crash \/ Restart

Spec == Init /\ [][Next]_vars

\* Node resumes every pending await, an HTTP call of a live process is sent, a
\* Judge0 job ends and Judge0 makes its callbacks. Nothing obliges a user to
\* submit, an administrator to edit, a call to time out, a process to die.
Fairness ==
  /\ \A s \in Subs : WF_vars(SubmitCreate(s)) /\ WF_vars(JudgeAccept(s))
                     /\ WF_vars(RecordSubmission(s))
  /\ \A s \in Subs, t \in TestIds :
       /\ WF_vars(JudgeFinish(s, t)) /\ WF_vars(Deliver(s, t)) /\ WF_vars(Refused(s, t))
       /\ \A k \in Tries : WF_vars(CallStep(s, t, k))

FairSpec == Spec /\ Fairness

-------------------------------------------------------------------------------
(* Properties.                                                             *)

SubmitPc == InFlight \cup {"idle", "done", "failed"}
JobState == {"none", "judging", "calling", "ok", "notFound"}
CallPc   == Serving \cup {"idle", "done", "dead"}

SubmitRec == [pc : SubmitPc, snap : SUBSET TestIds]
JobRec    == [st : JobState, id : 1..14, tries : 0..MaxTries, conn : BOOLEAN]
CallRec   == [pc : CallPc, allDone : BOOLEAN, overall : SubmissionStatus,
              passed : Nat, solved : SUBSET Problems]

\* The values the rows, the requests, Judge0's jobs and the handlers' locals
\* range over; in particular no job is called back more than MaxTries times.
TypeOK ==
  /\ up \in BOOLEAN /\ crashes \in Nat /\ edits \in 0..MaxEdits
  /\ live \subseteq Problems /\ tests \in [Problems -> SUBSET TestIds]
  /\ unused \subseteq TestIds
  /\ submit \in [Subs -> SubmitRec]
  /\ status \in [Subs -> SubmissionStatus \cup {"none"}]
  /\ passedCount \in [Subs -> Nat] /\ totalCount \in [Subs -> Nat]
  /\ caseStatus \in [Subs -> [TestIds -> SubmissionStatus \cup {"none"}]]
  /\ job \in [Subs -> [TestIds -> JobRec]]
  /\ call \in [Subs -> [TestIds -> [Tries -> CallRec]]]
  /\ counted \in [Users -> SUBSET Problems]

Judged(s, t) == job[s][t].st \notin {"none", "judging"}
AcceptedTests(s) == {t \in submit[s].snap : Judged(s, t) /\ Verdict(s, t) = "AC"}
CasesFinal(s) == /\ submit[s].snap # {}
                 /\ \A t \in submit[s].snap : caseStatus[s][t] \in FinalVerdicts

\* v is what the verdicts of the tests that were asked for combine to.
Earned(s, v) ==
  /\ submit[s].snap # {} /\ \A t \in submit[s].snap : Judged(s, t)
  /\ v = CombineVerdicts({Verdict(s, t) : t \in submit[s].snap})

\* A submission carries a final verdict only when Judge0 has finished every
\* test the submit request read, and it is the worst of those verdicts:
\* whichever of the racing handlers wrote it, from whichever snapshot of the
\* cases, and whatever was edited, restarted or retried meanwhile.
VerdictIsEarned ==
  \A s \in Subs : status[s] \in FinalVerdicts => Earned(s, status[s])

\* passedCount may lag behind, but it never counts a test Judge0 did not accept
\* and never exceeds the totalCount shown beside it.
PassedCountIsBacked ==
  \A s \in Subs : /\ passedCount[s] <= Cardinality(AcceptedTests(s))
                  /\ passedCount[s] <= totalCount[s]

\* A handler that is about to write the verdict of a complete set of cases.
WillGrade(s, t, k) ==
  \/ call[s][t][k].pc = "reread"
  \/ call[s][t][k].pc = "write" /\ call[s][t][k].allDone

\* The verdict is not lost between concurrent handlers. When all cases of a
\* submission are final and the submission is not, then some test has not been
\* acknowledged to Judge0 with a 204 yet (so after a crash Judge0 still tries
\* again), and as long as the process never died a handler of that test is on
\* its way to write the verdict.
GradingNotLost ==
  \A s \in Subs : CasesFinal(s) /\ status[s] \notin FinalVerdicts =>
    \E t \in submit[s].snap :
      /\ job[s][t].st # "ok"
      /\ crashes = 0 => \E k \in Tries : WillGrade(s, t, k)

\* A contest score counts only problems the user really solved inside the
\* window: for each there is a contest submission of this user all of whose
\* tests Judge0 accepted.
ScoreIsBacked ==
  \A u \in Users : \A p \in counted[u] :
    \E s \in ContestSubs \cap InWindow :
      /\ UserOf[s] = u /\ ProblemOf[s] = p /\ submit[s].snap # {}
      /\ AcceptedTests(s) = submit[s].snap

\* When the last case becomes final the submission becomes final, however the
\* handlers of its cases interleave (no crash: a run without them).
CasesFinalLeadToVerdict ==
  \A s \in Subs : CasesFinal(s) ~> status[s] \in FinalVerdicts \/ ~CasesFinal(s)

\* The promise this pipeline implements.
Promise == INSTANCE GradingPromise WITH
  asked  <- [s \in Subs |-> submit[s].snap],
  judged <- [s \in Subs |-> [t \in TestIds |-> IF Judged(s, t) THEN job[s][t].id ELSE 0]],
  stale  <- {s \in Subs : ~(submit[s].snap \subseteq tests[ProblemOf[s]])},
  result <- status

PromiseKept == Promise!Spec

-------------------------------------------------------------------------------
(* The inductive invariant behind the safety properties, in parts: one     *)
(* submission, one test of it, one callback request of that test.          *)

SubmitInv(s) ==
  /\ submit[s].pc = "idle" => submit[s].snap = {}
  /\ submit[s].pc \in InFlight \cup {"done"} => submit[s].snap # {}
  /\ Rows(s) # {} => /\ submit[s].pc = "done" /\ status[s] # "none"
                     /\ Rows(s) = submit[s].snap

TestInv(s, t) ==
  /\ job[s][t].st # "none" => /\ t \in submit[s].snap
                              /\ submit[s].pc \notin {"idle", "read", "created"}
  /\ Judged(s, t) => job[s][t].id \in J0Final
  /\ job[s][t].conn => job[s][t].st = "calling"
  /\ caseStatus[s][t] \notin {"none", "PENDING"} =>
       Judged(s, t) /\ caseStatus[s][t] = Verdict(s, t)
  /\ job[s][t].st = "ok" => submit[s].pc = "done" /\ caseStatus[s][t] # "PENDING"

CallInv(s, t, k) ==
  LET c == call[s][t][k] IN
  /\ c.pc # "idle" => Judged(s, t) /\ k <= job[s][t].tries
  /\ c.pc \in Serving \ {"find"} => submit[s].pc = "done"
  /\ c.pc \in Serving \ {"find", "update"} => caseStatus[s][t] # "PENDING"
  /\ c.pc = "write" /\ c.allDone => IF c.overall = "PENDING" THEN Rows(s) = {}
                                                            ELSE Earned(s, c.overall)
  /\ c.pc \in {"score", "upsert"} => status[s] \in FinalVerdicts \/ Rows(s) = {}

\* Some test is not acknowledged, no handler of it holds an incomplete
\* snapshot, and unless the process died one of them holds a complete one.
WitnessInv(s) ==
  CasesFinal(s) /\ status[s] \notin FinalVerdicts =>
    \E t \in submit[s].snap :
      /\ job[s][t].st # "ok"
      /\ \A k \in Tries : call[s][t][k].pc = "write" => call[s][t][k].allDone
      /\ crashes = 0 => \E k \in Tries : WillGrade(s, t, k)

SubInv(s) ==
  /\ status[s] \in FinalVerdicts => Earned(s, status[s])
  /\ SubmitInv(s) /\ WitnessInv(s)
  /\ \A t \in TestIds : TestInv(s, t)
  /\ \A t \in TestIds, k \in Tries : CallInv(s, t, k)

GradingInv == TypeOK /\ \A s \in Subs : SubInv(s)

-------------------------------------------------------------------------------
(* What the documentation and the comments say and the code does not do.   *)

\* platform/README.md, end-to-end smoke: the verdict of a submission flips
\* within a few seconds.
RunningIsGraded ==
  \A s \in Subs : status[s] = "RUNNING" ~> status[s] \in FinalVerdicts

NoCallServed == \A s \in Subs, t \in TestIds, k \in Tries :
                  call[s][t][k].pc \notin Serving

\* internal.ts, "Recompute submission state": with all handlers through, an
\* accepted submission shows all its tests as passed.
CountMatchesVerdict ==
  NoCallServed => \A s \in Subs : status[s] = "AC" => passedCount[s] = totalCount[s]

\* internal.ts, "Sum points for distinct AC problems within contest window":
\* with all handlers through, the score sums up every problem solved.
ScoreIsComplete ==
  NoCallServed => \A u \in Users : Solved(u) \cap ContestProblems \subseteq counted[u]
===============================================================================
