------------------------------- MODULE IsolateJob -------------------------------
(***************************************************************************)
(* The worker's job of Judge0 (app/jobs/isolate_job.rb): perform runs a    *)
(* submission number_of_runs times in an isolate sandbox, writes the       *)
(* verdict to the row and calls the callback. One submission, its row, its *)
(* sandbox (box_id is the submission's id) and the jobs that may run it:   *)
(* the one its creation enqueued and those lib/tasks enqueue again, on any *)
(* number of workers. One action is one step that can fail: a database     *)
(* statement, a command of isolate, a file read.                           *)
(***************************************************************************)
EXTENDS Naturals, FiniteSets

CONSTANTS
  Jobs, First,     \* the jobs that may run; the one the creation enqueues
  NumberOfRuns,    \* number_of_runs
  MaxAttempts,     \* attempts of retry_on (100 in the code)
  Expected,        \* expected_output is given
  Outcomes,        \* what a run can give: [id, out, measured], see below
  Faults           \* what may go wrong, a subset of FaultKinds

FaultKinds == {"db", "box", "kill", "archive", "delete", "rake"}

\* Status ids (app/enumerations/status.rb).
Queue == 1  Process == 2  Ac == 3  Wa == 4  Ce == 6  BoxErr == 13
FinalIds == 3..14

\* A run leaves an id that isolate's metadata determine (0: none, the output
\* decides), an output (right, wrong or empty, which is read as nil), and a
\* time and a memory or not.
OutKinds == {"right", "wrong", "nil"}

ASSUME JobAssumption ==
  /\ First \in Jobs
  /\ NumberOfRuns \in Nat \ {0} /\ MaxAttempts \in Nat \ {0}
  /\ Expected \in BOOLEAN /\ Faults \subseteq FaultKinds
  /\ Outcomes \subseteq [id : {0} \cup (FinalIds \ {Ac, Wa, Ce}), out : OutKinds,
                         measured : BOOLEAN]

VARIABLES
  row,        \* the row of the submission; st 0: deleted
  archived,   \* its language was archived: no validation holds any more
  deleting,   \* a DELETE request has read the status and may delete
  box,        \* the sandbox directory exists
  job,        \* the jobs, with the Submission object each holds
  sent        \* the status id each job put to the callback URL, 0 for none

vars == <<row, archived, deleting, box, job, sent>>

Running == {"mark", "init", "compile", "run", "verify", "clean", "check", "average",
            "rescue", "lastclean", "callback"}

NoJob == [pc |-> "none", tries |-> 0, runs |-> 0, status |-> Queue, out |-> "nil",
          was |-> "nil", memo |-> "nil", fin |-> FALSE, unmeasured |-> FALSE,
          saves |-> TRUE, inited |-> FALSE]

Init ==
  /\ row = [st |-> Queue, out |-> "nil", fin |-> FALSE]
  /\ archived = FALSE /\ deleting = FALSE /\ box = FALSE
  /\ job = [j \in Jobs |-> IF j = First THEN [NoJob EXCEPT !.pc = "queued"] ELSE NoJob]
  /\ sent = [j \in Jobs |-> 0]

At(j, pc) == job[j].pc = pc
Set(j, r) == job' = [job EXCEPT ![j] = r]
Goto(r, pc) == [r EXCEPT !.pc = pc]

-------------------------------------------------------------------------------
(* ActiveRecord.                                                           *)

\* (A fault: the attributes are assigned, never saved.)
SaveNothing(r) == row

\* (A fault: a row that is gone is written like any other.)
SaveRestores(r) ==
  IF ~r.saves THEN row
  ELSE [st |-> r.status, fin |-> row.fin \/ r.fin, out |-> r.out]

\* submission.save writes the attributes that changed since the object was
\* loaded, nothing when a validation fails (it returns false and nobody
\* looks), and an UPDATE of a deleted row succeeds on no row.
Save(r) ==
  IF row.st = 0 \/ ~r.saves THEN row
  ELSE [st  |-> r.status, fin |-> row.fin \/ r.fin,
        out |-> IF r.out # r.was THEN r.out ELSE row.out]

Saved(r) == IF r.saves THEN [r EXCEPT !.was = r.out] ELSE r

\* The reader stdout keeps what it decoded first (@decoded_stdout ||= ...).
ReadStdout(r) == IF r.memo # "nil" THEN r.memo ELSE r.out

-------------------------------------------------------------------------------
(* perform, step by step.                                                  *)

\* Submission.find; a missing row or a database error becomes a RuntimeError,
\* which retry_on puts back into the queue.
Find(j) ==
  /\ At(j, "queued")
  /\ \/ /\ row.st = 0 \/ "db" \in Faults
        /\ Set(j, [job[j] EXCEPT !.tries = @ + 1,
                     !.pc = IF job[j].tries + 1 < MaxAttempts THEN "queued" ELSE "failed"])
     \/ /\ row.st # 0
        /\ Set(j, [job[j] EXCEPT !.pc = "mark", !.status = row.st, !.out = row.out,
                                 !.was = row.out])
  /\ UNCHANGED <<row, archived, deleting, box, sent>>

DbFails(j) ==
  /\ "db" \in Faults /\ Set(j, Goto(job[j], "rescue"))
  /\ UNCHANGED <<row, archived, deleting, box, sent>>

\* submission.update(status: process). The validation reads the language, once
\* for all saves of this object; a statement may fail before it has.
MarkProcess(j) ==
  /\ At(j, "mark")
  /\ \/ DbFails(j)
     \/ LET r == [job[j] EXCEPT !.status = Process, !.saves = ~archived, !.pc = "init"] IN
        /\ Set(j, r)
        /\ row' = IF job[j].status = Process THEN row ELSE Save(r)
        /\ UNCHANGED <<archived, deleting, box, sent>>

\* isolate --init; it may refuse a box that is there already.
InitializeWorkdir(j) ==
  /\ At(j, "init")
  /\ \/ /\ box' = TRUE
        /\ Set(j, [job[j] EXCEPT !.pc = "compile", !.inited = TRUE])
     \/ /\ box \/ "box" \in Faults
        /\ Set(j, [job[j] EXCEPT !.pc = "rescue", !.inited = TRUE])
        /\ UNCHANGED box
  /\ UNCHANGED <<row, archived, deleting, sent>>

\* (Faults of the compile error: no finished_at, no cleanup.)
CompileErrorUnfinished(r) == [r EXCEPT !.status = Ce, !.out = "nil", !.pc = "clean"]
CompileErrorLeaves(r) == [r EXCEPT !.status = Ce, !.out = "nil", !.fin = TRUE,
                                   !.pc = "callback"]
CompileError(r) == [r EXCEPT !.status = Ce, !.out = "nil", !.fin = TRUE, !.pc = "clean"]

\* A file of the sandbox is not there: it was cleaned up by another job.
BoxFails(j) ==
  /\ ~box \/ "box" \in Faults
  /\ Set(j, Goto(job[j], "rescue"))
  /\ UNCHANGED <<row, archived, deleting, box, sent>>

Compile(j) ==
  /\ At(j, "compile")
  /\ \/ Set(j, Goto(job[j], "run")) /\ UNCHANGED <<row, archived, deleting, box, sent>>
     \/ LET r == CompileError(job[j]) IN
        /\ box
        /\ Set(j, Saved(r)) /\ row' = Save(r)
        /\ UNCHANGED <<archived, deleting, box, sent>>
     \/ box /\ "db" \in Faults /\ Set(j, Goto(CompileError(job[j]), "rescue"))
        /\ UNCHANGED <<row, archived, deleting, box, sent>>
     \/ BoxFails(j)

Run(j) ==
  /\ At(j, "run")
  /\ \/ Set(j, Goto(job[j], "verify")) /\ UNCHANGED <<row, archived, deleting, box, sent>>
     \/ BoxFails(j)

\* determine_status: nil is compared like any other output.
DetermineStatus(r, id) ==
  IF id # 0 THEN id ELSE IF ~Expected \/ ReadStdout(r) = "right" THEN Ac ELSE Wa

\* (A fault: every run's verdict goes to the row at once.)
RowSavedByVerify(r) == Save(r)
RowAfterVerify(r) == row

Verify(j) ==
  /\ At(j, "verify")
  /\ \/ \E o \in Outcomes :
          LET r == [job[j] EXCEPT !.out = o.out, !.fin = TRUE, !.runs = @ + 1,
                                  !.unmeasured = @ \/ ~o.measured, !.pc = "clean"]
              q == [r EXCEPT !.status = DetermineStatus(r, o.id),
                             !.memo = IF o.id = 0 /\ Expected THEN ReadStdout(r) ELSE @] IN
          /\ box
          /\ Set(j, q) /\ row' = RowAfterVerify(q)
          /\ UNCHANGED <<archived, deleting, box, sent>>
     \/ BoxFails(j)

\* isolate --cleanup
Cleanup(j) ==
  /\ At(j, "clean")
  /\ box' \in {FALSE} \cup (IF "box" \in Faults THEN {box} ELSE {})
  /\ Set(j, Goto(job[j], "check"))
  /\ UNCHANGED <<row, archived, deleting, sent>>

\* (Faults: one run is enough; the runs are not counted.)
LastRunAlways(r) == TRUE
LastRunUncounted(r) == r.status # Ac
LastRun(r) == r.status # Ac \/ r.runs = NumberOfRuns

\* "Cleanup of sandbox failed" is raised when the directory is still there; a
\* compile error returns, any other run is followed by the next or by the last
\* lines of perform.
CheckCleanup(j) ==
  /\ At(j, "check")
  /\ Set(j, Goto(job[j], CASE box -> "rescue"
                           [] ~box /\ job[j].status = Ce -> "callback"
                           [] ~box /\ job[j].status # Ce /\ LastRun(job[j]) -> "average"
                           [] OTHER -> "init"))
  /\ UNCHANGED <<row, archived, deleting, box, sent>>

\* The averages of time and memory: a nil among several raises.
AverageAndSave(j) ==
  /\ At(j, "average")
  /\ IF job[j].unmeasured /\ job[j].runs > 1
     THEN Set(j, Goto(job[j], "rescue")) /\ UNCHANGED <<row, archived, deleting, box, sent>>
     ELSE \/ DbFails(j)
          \/ /\ Set(j, Goto(Saved(job[j]), "callback")) /\ row' = Save(job[j])
             /\ UNCHANGED <<archived, deleting, box, sent>>

\* rescue Exception: the row becomes an internal error; when that statement
\* fails too the exception leaves perform and the sandbox stays.  A job that
\* failed at its first statement may read the language only now.
Rescue(j) ==
  /\ At(j, "rescue")
  /\ \E v \in {job[j].saves, job[j].saves /\ (job[j].inited \/ ~archived)} :
       LET r == [job[j] EXCEPT !.status = BoxErr, !.fin = TRUE, !.saves = v] IN
       \/ Set(j, Goto(Saved(r), "lastclean")) /\ row' = Save(r)
       \/ "db" \in Faults /\ Set(j, Goto(r, "callback")) /\ UNCHANGED row
  /\ UNCHANGED <<archived, deleting, box, sent>>

\* cleanup(false): whatever comes of it.  For a job that failed before it had a
\* sandbox, boxdir and tmpdir are nil and the files removed are those of /*; of
\* that only the sandbox is modelled, which may or may not be reached.
LastCleanup(j) ==
  /\ At(j, "lastclean")
  /\ box' \in IF job[j].inited /\ "box" \notin Faults THEN {FALSE} ELSE {FALSE, box}
  /\ Set(j, Goto(job[j], "callback"))
  /\ UNCHANGED <<row, archived, deleting, sent>>

\* ensure call_callback
CallCallback(j) ==
  /\ At(j, "callback")
  /\ sent' = [sent EXCEPT ![j] = job[j].status]
  /\ Set(j, Goto(job[j], "done"))
  /\ UNCHANGED <<row, archived, deleting, box>>

JobStep(j) ==
  \/ Find(j) \/ MarkProcess(j) \/ InitializeWorkdir(j) \/ Compile(j) \/ Run(j)
  \/ Verify(j) \/ Cleanup(j) \/ CheckCleanup(j) \/ AverageAndSave(j) \/ Rescue(j)
  \/ LastCleanup(j) \/ CallCallback(j)

-------------------------------------------------------------------------------
(* What happens around the jobs.                                           *)

\* The worker process is killed: the job was popped, nobody has it any more.
Kill(j) ==
  /\ "kill" \in Faults /\ job[j].pc \in Running
  /\ Set(j, Goto(job[j], "killed"))
  /\ UNCHANGED <<row, archived, deleting, box, sent>>

\* judge0:run_in_queue reads every submission that is In Queue, as this one is
\* at first, and gets to perform_later of each whenever it does: the row may be
\* processed, finished or deleted by then. Its status is not written again.
RunInQueue(j) ==
  /\ "rake" \in Faults /\ At(j, "none")
  /\ Set(j, Goto(job[j], "queued"))
  /\ UNCHANGED <<row, archived, deleting, box, sent>>

\* An upgrade archives the language of the submission.
Archive ==
  /\ "archive" \in Faults /\ ~archived /\ archived' = TRUE
  /\ UNCHANGED <<row, deleting, box, job, sent>>

\* DELETE /submissions/:token: find, refuse In Queue and Processing, delete.
DestroyCheck ==
  /\ "delete" \in Faults /\ row.st \in FinalIds /\ ~deleting /\ deleting' = TRUE
  /\ UNCHANGED <<row, archived, box, job, sent>>

Destroy ==
  /\ deleting /\ deleting' = FALSE
  /\ row' = [st |-> 0, out |-> "nil", fin |-> FALSE]
  /\ UNCHANGED <<archived, box, job, sent>>

Next ==
  \/ \E j \in Jobs : JobStep(j) \/ Kill(j) \/ RunInQueue(j)
  \/ Archive \/ DestroyCheck \/ Destroy

Spec == Init /\ [][Next]_vars

\* A worker that is not killed goes on with its job, and the queue is served.
FairSpec == Spec /\ \A j \in Jobs : WF_vars(JobStep(j))

-------------------------------------------------------------------------------
(* Properties.                                                             *)

Pcs == Running \cup {"none", "queued", "failed", "killed", "done"}

JobRec == [pc : Pcs, tries : 0..MaxAttempts, runs : 0..NumberOfRuns,
           status : {Queue, Process} \cup FinalIds, out : OutKinds, was : OutKinds,
           memo : OutKinds, fin : BOOLEAN, unmeasured : BOOLEAN, saves : BOOLEAN,
           inited : BOOLEAN]

\* The values the row, the Submission objects and the callbacks range over; no
\* job is performed more often than retry_on allows.
TypeOK ==
  /\ row \in [st : {0, Queue, Process} \cup FinalIds, out : OutKinds, fin : BOOLEAN]
  /\ archived \in BOOLEAN /\ deleting \in BOOLEAN /\ box \in BOOLEAN
  /\ job \in [Jobs -> JobRec]
  /\ sent \in [Jobs -> {0} \cup FinalIds]

\* Accepted is written only by a job that got through all its runs, each of
\* them accepted and cleaned up, however jobs overlap and whatever fails.
AcceptedIsEarned ==
  row.st = Ac => \E j \in Jobs : job[j].status = Ac /\ job[j].runs = NumberOfRuns

\* A row with a verdict has a finished_at, whichever of the four places that
\* write a verdict wrote it.
FinalIsFinished == row.st \in FinalIds => row.fin

\* A sandbox that is left behind was left by a job in it, by one that was
\* killed, or by one that ended with an internal error: never by a verdict.
\* The next submission with this box_id starts clean.
SandboxIsClean ==
  box => \E j \in Jobs :
           /\ job[j].inited
           /\ \/ job[j].pc \in {"compile", "run", "verify", "clean", "check", "rescue",
                                "lastclean", "killed"}
              \/ job[j].status = BoxErr

\* A submission that waits or is processed has a job that will go on with it,
\* unless its worker was killed, its row can no longer be saved, or the
\* database failed: in every attempt, or when the internal error was written.
NotStuck ==
  row.st \in {Queue, Process} =>
    \E j \in Jobs : \/ job[j].pc \in {"queued", "killed", "failed"} \cup Running
                    \/ ~job[j].saves
                    \/ job[j].pc = "done" /\ job[j].status = BoxErr

\* Once all jobs are through, the row shows the verdict of one of the
\* callbacks: nobody was told something that is nowhere to be read, unless it
\* is the internal error that the database refused to store.
CallbackTellsRow ==
  (\A j \in Jobs : job[j].pc \in {"none", "done"} /\ job[j].saves) =>
    \/ row.st \in {0} \cup {sent[j] : j \in Jobs}
    \/ "db" \in Faults /\ \E j \in Jobs : sent[j] = BoxErr

\* Without a second job a verdict appears once; only a compile error can still
\* become an internal error, when its sandbox cannot be cleaned up.
PublishedOnce ==
  [][row.st \in FinalIds /\ row'.st # row.st =>
       \/ row'.st = 0 \/ (row.st = Ce /\ row'.st = BoxErr)
       \/ \E j \in Jobs \ {First} : job[j].pc # "none"]_vars

\* Every submission ends with a verdict and keeps one, also when it is run
\* twice at once and the two jobs pull the sandbox away under each other.
EndsWithVerdict == <>[](row.st \in FinalIds)

\* The row as a client sees it; the job implements the life cycle of a
\* submission whatever fails and whoever else works on it.
SeenAs ==
  CASE row.st = 0 -> "deleted" [] row.st = Queue -> "queue" [] row.st = Process -> "process"
    [] OTHER -> "final"

Lifecycle == INSTANCE SubmissionLifecycle WITH
  Subm <- {First}, MayRerun <- "rake" \in Faults, seen <- [s \in {First} |-> SeenAs]

LifecycleKept == Lifecycle!Spec

-------------------------------------------------------------------------------
(* The inductive invariant: what holds of every job, and which job stands  *)
(* for what the row and the sandbox show.                                  *)

JobInv(r) ==
  /\ r.pc \in {"none", "queued"} => r.tries < MaxAttempts
  /\ r.pc \in {"none", "queued", "mark"} => ~r.inited /\ r.runs = 0
  /\ r.pc \in {"clean", "check", "average"} => r.fin /\ r.status \in FinalIds
  /\ r.pc = "average" /\ r.status = Ac => r.runs = NumberOfRuns
  /\ r.pc = "init" => r.runs < NumberOfRuns
  /\ r.pc \in {"compile", "run", "verify"} => r.runs < NumberOfRuns
  /\ r.pc = "lastclean" => r.status = BoxErr
  /\ r.pc \in {"callback", "done"} => r.status \in FinalIds

\* This job has written Accepted.
Accepts(r) == /\ r.status = Ac /\ r.runs = NumberOfRuns
              /\ r.pc \in {"callback", "done", "killed"}

\* This job answers for the sandbox.
Owns(r) ==
  /\ r.inited
  /\ \/ r.pc \in {"compile", "run", "verify", "clean", "check", "rescue", "lastclean",
                  "killed"}
     \/ r.status = BoxErr

\* This job has not written its verdict yet, or could not.
Pending(r) ==
  \/ r.pc \in {"queued", "mark", "init", "compile", "run", "verify", "average", "rescue",
              "killed", "failed"}
  \/ r.pc \in {"clean", "check"} /\ r.status # Ce
  \/ ~r.saves
  \/ r.pc \in {"callback", "done"} /\ r.status = BoxErr

IsolateInv ==
  /\ TypeOK /\ FinalIsFinished
  /\ \A j \in Jobs : JobInv(job[j])
  /\ row.st = Ac => \E j \in Jobs : Accepts(job[j])
  /\ box => \E j \in Jobs : Owns(job[j])
  /\ row.st \in {Queue, Process} => \E j \in Jobs : Pending(job[j])

-------------------------------------------------------------------------------
(* What the documentation says and the code does not do.                   *)

\* docs/api/submissions/submissions.md, expected_output: it is compared with
\* stdout. An accepted submission then shows the stdout that was expected.
AcceptedStdoutMatches == Expected /\ row.st = Ac => row.out = "right"

\* The same document, callback_url: the callback is made after the submission
\* has been done.
CalledBackWhenDone == \A j \in Jobs : sent[j] # 0 => row.st \notin {Queue, Process}
=================================================================================
