------------------------------ MODULE JudgeService ------------------------------
(***************************************************************************)
(* Judge0 as its clients use it: the Rails servers that create submissions *)
(* (app/controllers/submissions_controller.rb), the Resque queue in Redis  *)
(* they enqueue jobs on (app/helpers/isolate_runner.rb), the workers that  *)
(* take them off, and the rows in PostgreSQL all of them meet in.          *)
(*                                                                         *)
(* A request is cut at its statements: the size of the queue, each save,   *)
(* each enqueue, each poll. What a job does between its first statement    *)
(* and its verdict is IsolateJob's; here it starts and it ends.            *)
(***************************************************************************)
EXTENDS Naturals, Sequences, FiniteSets, Functions

CONSTANTS
  Reqs, Kind, Size,   \* the creations: "create", "wait" or "batch"; how many items
  Invalid,            \* the items that fail a validation
  Workers,
  Threads,            \* requests served at once (threads of all server processes)
  MaxQueueSize,       \* MAX_QUEUE_SIZE
  MaxBatch,           \* MAX_SUBMISSION_BATCH_SIZE
  MaxWait,            \* MAX_WAIT_TIME_S, in half seconds
  MaxAttempts,        \* attempts of retry_on
  Maintenance,        \* MAINTENANCE_MODE
  Enabled,            \* the kinds ENABLE_WAIT_RESULT and ENABLE_BATCHED_... allow
  Faults,
  MaxRakes            \* bound: how often judge0:run_in_queue is started

FaultKinds == {"db", "redis", "server", "worker", "rake", "delete"}
Kinds == {"create", "wait", "batch"}
Subm  == {<<r, i>> : r \in Reqs, i \in 1..MaxBatch}

ASSUME ServiceAssumption ==
  /\ Kind \in [Reqs -> Kinds] /\ Size \in [Reqs -> Nat]
  /\ \A r \in Reqs : Kind[r] # "batch" => Size[r] = 1
  /\ Invalid \subseteq Subm /\ IsFiniteSet(Reqs)
  /\ Threads \in Nat \ {0} /\ MaxQueueSize \in Nat /\ MaxBatch \in Nat \ {0}
  /\ MaxWait \in Nat /\ MaxAttempts \in Nat \ {0} /\ MaxRakes \in Nat
  /\ Maintenance \in BOOLEAN /\ Enabled \subseteq Kinds /\ Faults \subseteq FaultKinds

VARIABLES
  row,       \* [Subm -> status of the row]
  req,       \* [Reqs -> where the request is]
  queue,     \* the jobs in the Resque queue
  delayed,   \* the jobs retry_on has put into the schedule
  worker,    \* [Workers -> the job it has and whether it started it]
  rake,      \* submissions a run_in_queue task has read and not enqueued yet
  rakes,
  deleting,  \* submissions a DELETE has read as done and not deleted yet
  lost       \* history: submissions one of whose jobs was lost

vars == <<row, req, queue, delayed, worker, rake, rakes, deleting, lost>>

Job(s) == [sub |-> s, tries |-> 0]
Idle   == [pc |-> "idle", job |-> Job(<<>>)]

Init ==
  /\ row = [s \in Subm |-> "none"]
  /\ req = [r \in Reqs |-> [pc |-> "new", item |-> 1, polls |-> 0, waited |-> 0,
                            answer |-> "none"]]
  /\ queue = <<>> /\ delayed = <<>>
  /\ worker = [w \in Workers |-> Idle]
  /\ rake = {} /\ rakes = 0 /\ deleting = {} /\ lost = {}

-------------------------------------------------------------------------------
(* Creating submissions.                                                   *)

Serving == {"save", "enqueue", "sleep", "reload"}
Served  == {r \in Reqs : req[r].pc \in Serving}

At(r, pc) == req[r].pc = pc
Answered(r, a) == [req[r] EXCEPT !.pc = "answered", !.answer = a]
Failed(r)      == [req[r] EXCEPT !.pc = "failed"]

\* The before_actions, and the size checks of batch_create. batch_create knows
\* no maintenance.
Refused(r) ==
  \/ Maintenance /\ Kind[r] # "batch"
  \/ Kind[r] \notin Enabled
  \/ Kind[r] = "batch" /\ Size[r] \notin 1..MaxBatch

\* (A fault: the size of the queue is not looked at.)
HasRoomAlways(r) == TRUE
\* check_queue_size
HasRoom(r) == Len(queue) + Size[r] <= MaxQueueSize

Admit(r) ==
  /\ At(r, "new") /\ Cardinality(Served) < Threads
  /\ req' = [req EXCEPT ![r] = [@ EXCEPT !.pc = IF Refused(r) \/ ~HasRoom(r)
                                                THEN "refused" ELSE "save"]]
  /\ UNCHANGED <<row, queue, delayed, worker, rake, rakes, deleting, lost>>

\* (A fault: a batch is answered after its first item.)
AfterItemFirst(r) ==
  IF Kind[r] = "wait" THEN [req[r] EXCEPT !.pc = "sleep"] ELSE Answered(r, "tokens")

\* (A fault: the loop over the batch does not move on.)
AfterItemAgain(r) ==
  IF req[r].item < Size[r] THEN [req[r] EXCEPT !.pc = "save"]
  ELSE IF Kind[r] = "wait" THEN [req[r] EXCEPT !.pc = "sleep"] ELSE Answered(r, "tokens")

\* After an item: the next one, the wait for the result or the answer.
AfterItem(r) ==
  IF req[r].item < Size[r]
  THEN [req[r] EXCEPT !.pc = "save", !.item = @ + 1]
  ELSE IF Kind[r] = "wait" THEN [req[r] EXCEPT !.pc = "sleep"] ELSE Answered(r, "tokens")

AfterInvalid(r) ==
  IF Kind[r] = "batch" THEN AfterItem(r) ELSE Answered(r, "errors")

\* submission.save, then submission.update(queued_at).
SaveItem(r) ==
  LET s == <<r, req[r].item>> IN
  /\ At(r, "save")
  /\ \/ /\ s \in Invalid
        /\ req' = [req EXCEPT ![r] = AfterInvalid(r)]
        /\ UNCHANGED row
     \/ /\ s \notin Invalid
        /\ row' = [row EXCEPT ![s] = "queue"]
        /\ req' = [req EXCEPT ![r] = [@ EXCEPT !.pc = "enqueue"]]
     \/ /\ "db" \in Faults
        /\ req' = [req EXCEPT ![r] = Failed(r)]
        /\ UNCHANGED row
  /\ UNCHANGED <<queue, delayed, worker, rake, rakes, deleting, lost>>

\* IsolateJob.perform_later; without the database (queued_at) or Redis the
\* answer is a 500, and the row stays In Queue, with a job when only the
\* answer of Redis was lost.
EnqueueItem(r) ==
  LET s == <<r, req[r].item>> IN
  /\ At(r, "enqueue")
  /\ \/ /\ queue' = Append(queue, Job(s))
        /\ req' = [req EXCEPT ![r] = AfterItem(r)]
        /\ UNCHANGED lost
     \/ /\ {"db", "redis"} \cap Faults # {}
        /\ req' = [req EXCEPT ![r] = Failed(r)]
        /\ \/ lost' = lost \cup {s} /\ UNCHANGED queue
           \/ "redis" \in Faults /\ queue' = Append(queue, Job(s)) /\ UNCHANGED lost
  /\ UNCHANGED <<row, delayed, worker, rake, rakes, deleting>>

\* (A fault: WAIT_TIME_FACTOR_S is left out, so the sleeps grow twice as fast.)
WaitTimeUnscaled(i) == CASE i = 0 -> 4 [] i = 1 -> 2 [] OTHER -> 2 * i
\* How long perform_now sleeps before its i-th look (from 0), in half seconds.
WaitTime(i) == CASE i = 0 -> 4 [] i = 1 -> 2 [] OTHER -> i

\* (A fault: a submission that is processed is not waited for.)
WaitingForStart(s) == row[s] \in {"queue", "deleted"}
\* WAITING_STATUSES: a row that is gone is waited for like any other.
Waiting(s) == row[s] \in {"queue", "process", "deleted"}

Poll(r) ==
  LET total == req[r].waited + WaitTime(req[r].polls) IN
  /\ At(r, "sleep")
  /\ req' = [req EXCEPT ![r] = [req[r] EXCEPT !.polls = @ + 1, !.waited = total,
               !.pc = IF ~Waiting(<<r, 1>>) \/ total >= MaxWait THEN "reload"
                                                               ELSE "sleep"]]
  /\ UNCHANGED <<row, queue, delayed, worker, rake, rakes, deleting, lost>>

\* submission.reload, and what it finds is the answer; 404 when it is deleted.
Reload(r) ==
  /\ At(r, "reload")
  /\ req' = [req EXCEPT ![r] = IF row[<<r, 1>>] = "deleted" THEN Failed(r)
                               ELSE Answered(r, row[<<r, 1>>])]
  /\ UNCHANGED <<row, queue, delayed, worker, rake, rakes, deleting, lost>>

ReqStep(r) == SaveItem(r) \/ EnqueueItem(r) \/ Poll(r) \/ Reload(r)

\* A server process dies with the request it serves.
ServerDies(r) ==
  /\ "server" \in Faults /\ req[r].pc \in Serving
  /\ req' = [req EXCEPT ![r] = Failed(r)]
  /\ lost' = IF At(r, "enqueue") THEN lost \cup {<<r, req[r].item>>} ELSE lost
  /\ UNCHANGED <<row, queue, delayed, worker, rake, rakes, deleting>>

-------------------------------------------------------------------------------
(* Workers.                                                                *)

\* Where a job has no verdict in the database yet.
Working == {"popped", "running"}
Busy    == Working \cup {"saved", "calling"}

Set(w, pc, job) == worker' = [worker EXCEPT ![w] = [pc |-> pc, job |-> job]]
Release(w) == worker' = [worker EXCEPT ![w] = Idle]

Pop(w) ==
  /\ worker[w].pc = "idle" /\ queue # <<>>
  /\ Set(w, "popped", Head(queue))
  /\ queue' = Tail(queue)
  /\ UNCHANGED <<row, req, delayed, rake, rakes, deleting, lost>>

\* (A fault: the row is not looked for.)
FoundAlways(s) == TRUE
Found(s) == row[s] # "deleted"

\* Submission.find and the update to Processing.
StartJob(w) ==
  LET s == worker[w].job.sub IN
  /\ worker[w].pc = "popped" /\ Found(s)
  /\ row' = [row EXCEPT ![s] = "process"]
  /\ Set(w, "running", worker[w].job)
  /\ UNCHANGED <<req, queue, delayed, rake, rakes, deleting, lost>>

\* (A fault: the job that is tried again is forgotten.)
RetryForgotten(job) == delayed
Retry(job) == Append(delayed, [job EXCEPT !.tries = @ + 1])

\* (A fault: one attempt too many.)
MoreAttemptsByOne(job) == job.tries < MaxAttempts
MoreAttempts(job) == job.tries + 1 < MaxAttempts

\* find raises: retry_on schedules the job again, up to its attempts.
FindFails(w) ==
  LET job == worker[w].job IN
  /\ worker[w].pc = "popped" /\ (~Found(job.sub) \/ "db" \in Faults)
  /\ IF MoreAttempts(job)
     THEN delayed' = Retry(job) /\ UNCHANGED lost
     ELSE lost' = lost \cup {job.sub} /\ UNCHANGED delayed
  /\ Release(w)
  /\ UNCHANGED <<row, req, queue, rake, rakes, deleting>>

\* resque-scheduler: the time of the retry has come.
EnqueueDelayed ==
  /\ delayed # <<>>
  /\ queue' = Append(queue, Head(delayed)) /\ delayed' = Tail(delayed)
  /\ UNCHANGED <<row, req, worker, rake, rakes, deleting, lost>>

\* A verdict is written; an UPDATE of a deleted row changes none.
WriteFinal(s) ==
  row' = IF row[s] = "deleted" THEN row ELSE [row EXCEPT ![s] = "final"]

\* The verdict is saved: after the runs, after a compile error or by the rescue.
SaveVerdict(w) ==
  /\ worker[w].pc = "running"
  /\ WriteFinal(worker[w].job.sub)
  /\ Set(w, "saved", worker[w].job)
  /\ UNCHANGED <<req, queue, delayed, rake, rakes, deleting, lost>>

\* The cleanup after a compile error fails: the rescue writes once more.
RescueSave(w) ==
  /\ worker[w].pc = "saved"
  /\ WriteFinal(worker[w].job.sub)
  /\ Set(w, "calling", worker[w].job)
  /\ UNCHANGED <<req, queue, delayed, rake, rakes, deleting, lost>>

\* The sandbox is cleaned up and the callback made, or given up.
EndJob(w) ==
  /\ worker[w].pc \in {"saved", "calling"}
  /\ Release(w)
  /\ UNCHANGED <<row, req, queue, delayed, rake, rakes, deleting, lost>>

\* The worker is killed, or the job ends and could not save (IsolateJob), or it
\* could not be scheduled again. After the save only its callback is lost.
LoseJob(w) ==
  /\ {"worker", "db", "redis"} \cap Faults # {} /\ worker[w].pc # "idle"
  /\ lost' = IF worker[w].pc \in Working THEN lost \cup {worker[w].job.sub} ELSE lost
  /\ Release(w)
  /\ UNCHANGED <<row, req, queue, delayed, rake, rakes, deleting>>

WorkerStep(w) ==
  Pop(w) \/ StartJob(w) \/ FindFails(w) \/ SaveVerdict(w) \/ RescueSave(w) \/ EndJob(w)

\* Redis restarts; it keeps nothing (docker-compose.yml: --appendonly no).
RedisRestarts ==
  /\ "redis" \in Faults /\ queue \o delayed # <<>>
  /\ lost' = lost \cup {job.sub : job \in Range(queue \o delayed)}
  /\ queue' = <<>> /\ delayed' = <<>>
  /\ UNCHANGED <<row, req, worker, rake, rakes, deleting>>

-------------------------------------------------------------------------------
(* Operators.                                                              *)

\* judge0:run_in_queue reads the submissions that are In Queue ...
RunInQueue ==
  /\ "rake" \in Faults /\ rakes < MaxRakes /\ rake = {}
  /\ rakes' = rakes + 1
  /\ rake' = {s \in Subm : row[s] = "queue"}
  /\ UNCHANGED <<row, req, queue, delayed, worker, deleting, lost>>

\* ... and enqueues a job for each of them, whatever became of it since.
RunAgain(s) ==
  /\ s \in rake
  /\ rake' = rake \ {s}
  /\ queue' = Append(queue, Job(s))
  /\ UNCHANGED <<row, req, delayed, worker, rakes, deleting, lost>>

\* DELETE /submissions/:token
DestroyCheck(s) ==
  /\ "delete" \in Faults /\ ~Maintenance /\ row[s] = "final" /\ s \notin deleting
  /\ deleting' = deleting \cup {s}
  /\ UNCHANGED <<row, req, queue, delayed, worker, rake, rakes, lost>>

Destroy(s) ==
  /\ s \in deleting
  /\ row' = [row EXCEPT ![s] = "deleted"]
  /\ deleting' = deleting \ {s}
  /\ UNCHANGED <<req, queue, delayed, worker, rake, rakes, lost>>

Next ==
  \/ \E r \in Reqs : Admit(r) \/ ReqStep(r) \/ ServerDies(r)
  \/ \E w \in Workers : WorkerStep(w) \/ LoseJob(w)
  \/ EnqueueDelayed \/ RedisRestarts \/ RunInQueue
  \/ \E s \in Subm : RunAgain(s) \/ DestroyCheck(s) \/ Destroy(s)

Spec == Init /\ [][Next]_vars

\* Servers go on with what they serve, workers with their jobs and the queue,
\* the scheduler with its schedule and a rake task with its list.
FairSpec ==
  /\ Spec
  /\ \A r \in Reqs : WF_vars(ReqStep(r))
  /\ \A w \in Workers : WF_vars(WorkerStep(w))
  /\ WF_vars(EnqueueDelayed)
  /\ \A s \in Subm : WF_vars(RunAgain(s))

-------------------------------------------------------------------------------
(* Properties.                                                             *)

JobRec == [sub : Subm, tries : 0..(MaxAttempts - 1)]
ReqRec == [pc : Serving \cup {"new", "refused", "answered", "failed"},
           item : 1..MaxBatch, polls : Nat, waited : Nat,
           answer : {"none", "tokens", "errors", "queue", "process", "final"}]

\* The values of rows, requests, jobs and workers; no job is scheduled for an
\* attempt beyond MaxAttempts.
TypeOK ==
  /\ row \in [Subm -> {"none", "queue", "process", "final", "deleted"}]
  /\ req \in [Reqs -> ReqRec]
  /\ queue \in Seq(JobRec) /\ delayed \in Seq(JobRec)
  /\ worker \in [Workers -> [pc : Busy, job : JobRec] \cup {Idle}]
  /\ rake \subseteq Subm /\ rakes \in 0..MaxRakes
  /\ deleting \subseteq Subm /\ lost \subseteq Subm

InSeq(s, q) == {i \in DOMAIN q : q[i].sub = s}
AtWork(s)   == {w \in Workers : worker[w].pc # "idle" /\ worker[w].job.sub = s}
Unsaved(s)  == {w \in AtWork(s) : worker[w].pc \in Working}

\* A job of s has its verdict still to save.
ToDo(s) == InSeq(s, queue) # {} \/ InSeq(s, delayed) # {} \/ Unsaved(s) # {}

\* A submission that is not done has a job that will save a verdict, in the
\* queue, in the schedule or at a worker, or is just being enqueued, or one of
\* its jobs was lost in one of the ways that the operators know of (killed worker, failed request,
\* restarted Redis, used-up attempts, failed statements).
JobAccounted ==
  \A s \in Subm : row[s] \in {"queue", "process"} /\ s \notin lost =>
    ToDo(s) \/ (At(s[1], "enqueue") /\ req[s[1]].item = s[2])

\* Until somebody runs judge0:run_in_queue a submission never has two jobs, so
\* no two workers are in its sandbox. A job comes after its row, and finds it
\* neither done nor deleted before it has saved the verdict itself; while it
\* cleans up and calls back the row is done, or a DELETE has taken it away.
OneJobEach ==
  rakes = 0 => \A s \in Subm :
    LET n == Cardinality(InSeq(s, queue)) + Cardinality(InSeq(s, delayed))
             + Cardinality(AtWork(s)) IN
    /\ n <= 1
    /\ n = 1 => row[s] \in IF ToDo(s) THEN {"queue", "process"} ELSE {"final", "deleted"}

\* How far the queue can really grow: every request served at once may have
\* seen the room that one of them then takes.
QueueOvershoot == Len(queue) <= MaxQueueSize + (Threads - 1) * MaxBatch

\* What wait=true answers is the verdict, or perform_now has waited long
\* enough: without a second job the row does not change between the last look
\* and the reload.
WaitAnswersResult ==
  \A r \in Reqs : Kind[r] = "wait" /\ req[r].pc = "answered" /\ rakes = 0 =>
    req[r].answer \in {"final", "errors"} \/ req[r].waited >= MaxWait

\* Every submission whose token was given away ends: without faults each job
\* that was enqueued gets to a worker and to its verdict.
EveryTokenEnds ==
  \A r \in Reqs, i \in 1..MaxBatch :
    At(r, "answered") /\ i <= Size[r] /\ <<r, i>> \notin Invalid
      ~> row[<<r, i>>] \in {"final", "deleted"}

\* A thread of the server is not held for much longer than MaxWait, however
\* late the verdict: the last sleep is the only one beyond it, and the looks
\* at the database stay few (50 in the 600 s of the code).
WaitIsShort ==
  \A r \in Reqs :
    LET n == req[r].polls IN
    n > 2 => /\ req[r].waited < MaxWait + n
             /\ (n - 1) * (n - 2) < 2 * MaxWait

\* What a client sees of a submission.
Lifecycle == INSTANCE SubmissionLifecycle WITH
  MayRerun <- "rake" \in Faults, seen <- row

LifecycleKept == Lifecycle!Spec
=================================================================================
