# Judge0 and its platform in TLA+

This directory is a verification project for the two programs of the
repository: **Judge0**, a service that compiles and runs submitted programs in
a sandbox (Ruby on Rails, Resque, PostgreSQL, Redis, `isolate`), and the
**platform** under `platform/`, a site of programming problems and contests
that uses Judge0 to grade (Express and Prisma behind Next.js). The modules
model their control: who writes which row, queue or file, in which order, and
what happens when two of them meet, one of them dies or an answer is late.
Texts, times and memory sizes are abstracted to what the properties can tell
apart.

Every definition that stands for code is listed with its lines under `map` in
`PROJECT.json`; paths below are relative to the repository.

## 1. Inventory

### Judge0

| component | state | operations | what makes it correct |
|---|---|---|---|
| API (`app/controllers/submissions_controller.rb`) | rows of `submissions` | create, create with `wait=true`, batch create, show, batch show, index, destroy | every row that is created has a job; the queue stays near its limit; a waiting client gets the verdict; only a finished submission is deleted |
| runner (`app/helpers/isolate_runner.rb`) | none | `perform_later` (update, enqueue), `perform_now` (enqueue, then look again and again with growing sleeps) | it looks seldom enough and ends near its limit |
| queue (Resque in Redis) | queue, schedule of retries | push, pop, schedule, enqueue delayed | one job per submission; no job vanishes unnoticed |
| workers (`app/jobs/isolate_job.rb`) | the sandbox of a submission, the Submission object in memory | mark as Processing, initialise, compile, run, verify, clean up, save, call back | a verdict was earned by all runs; it is saved with its time; the sandbox is left clean; the row and the callback agree |
| model (`app/models/submission.rb`) | attributes, dirty or memoized | save with validations, readers and writers in base64 | what is saved is what was computed |
| tasks (`lib/tasks`) | none | `judge0:run_in_queue`, `judge0:clear_cache` | running a submission twice harms no verdict |
| caches (`show`, `statistics`) | files under `tmp/cache`, one store per server | fetch with a duration, delete, clear | an answer is recent; a poller does not see a submission go back; an invalidated entry is read anew |
| information endpoints, serializers, configuration, migrations | constants | read | – |

### Platform

| component | state | operations | what makes it correct |
|---|---|---|---|
| submitting (`platform/backend/src/routes/problems.ts`) | `Submission`, `SubmissionCase` | read tests, create, send the batch to Judge0, record the cases | a submission that was accepted gets graded |
| callback (`routes/internal.ts`) | the same and `ContestParticipant.score` | update a case, read all cases, write the verdict or the count, update the score | a verdict is the worst of all tests, is written once all are judged and is not lost; a score counts what was solved |
| verdicts (`lib/grader.ts`) | none | map a status id, combine verdicts | the worst verdict, in any order |
| administration (`routes/admin.ts`), seed (`prisma/seed.ts`) | `Problem`, `StarterCode`, `TestCase`, `Tag` | create, replace, delete problems; rewrite seeded problems at every start | running submissions are not graded by a mixture of old and new tests; a save is whole and replaces what was saved before |
| site (`auth.ts`, `daily.ts`, `discussions.ts`, `leaderboard.ts`, `users.ts`, `GET /problems`) | their tables | check-then-create, answers from several reads | only a rival makes them fail; one problem per day; an answer lies between the states it was read in |
| languages (`routes/languages.ts`) | one variable of the process | cached read | no stale list for ever |
| contests (`routes/contests.ts`) | `ContestParticipant` | register, list | – |
| problem page, submission page (`platform/frontend/app/problems/[slug]`, `app/submissions/[id]`) | React state, timers, drafts in `localStorage` | type, switch language, run, submit, poll, leave | the panel shows the answer to the last click; drafts survive; polling ends |
| administrator's pages (`app/admin`) | list, form | load, edit, save, delete | one save at a time, every save is answered, the list forgets what is deleted |

### How they interact

```
 browser --HTTP--> platform backend --HTTP batch--> Judge0 API --push--> Redis queue
                     |      ^                          |                     |
                     v      | PUT callback_url         v                     v pop
                  Postgres  +---------------------- IsolateJob <---------- worker
                                                       |
                                          submissions row, sandbox box_id = id
```

The platform and Judge0 share nothing but these two HTTP calls. Inside Judge0
the API, the workers, the scheduler and the operator's tasks meet in the row of
a submission, in the queue and, through `box_id = submission.id`, in the
sandbox. Inside the platform every request handler runs on one Node event loop
and is interrupted at each `await`.

### What is hard here

* **Interleaving.** The callback handlers of the tests of one submission read
  and write the same rows across their awaits; two score updates cross; two
  jobs of a submission share a sandbox; two requests share the room left in
  the queue; DELETE checks and then deletes.
* **Partial failure.** Each of a dozen statements of a job may raise; a batch
  may be accepted by half; `save` returns `false` and nobody looks.
* **Crash and restart.** A killed worker has already popped its job; Redis
  keeps nothing; the Node process ends on any unhandled rejection and reseeds
  the database when it comes back.
* **Retries and timeouts.** Callbacks are put again while the first is still
  handled; `retry_on` schedules a job up to a hundred times; `wait=true` gives
  up at the moment the verdict arrives.
* **Time of check, time of use.** A route looks for a row and creates it in a
  later statement; a transaction at READ COMMITTED does not see what the one it
  waited for has inserted; a page filters the list it closed over; a cache is
  filled by two requests, of which the slower has the older answer.
* **Progress.** A token that was given away must end; all cases final must end
  in a verdict.

`hazards` in `PROJECT.json` lists them at their lines, with the properties that
look at them, or why none does yet.

## 2. The modules

| module | models | lines up |
|---|---|---|
| `Grader` | `lib/grader.ts`: the verdict algebra, as operators | `RANK`, `CombineVerdicts`, `Judge0StatusToVerdict` |
| `GraderReduce` | `combineVerdicts` as the loop it is | refines the set operator of `Grader` |
| `GradingPromise` | abstract: what a reader of a submission may rely on | no code |
| `PlatformGrading` | submit, callback, score, admin, seed, crash of the platform backend | implements `GradingPromise` |
| `SubmissionLifecycle` | abstract: none, queue, process, final, deleted | no code |
| `IsolateJob` | the jobs of one submission, its row, its sandbox | implements `SubmissionLifecycle` |
| `JudgeService` | API, queue, schedule, workers, tasks over many submissions | implements `SubmissionLifecycle` |
| `ProblemStore` | the write requests of `routes/admin.ts` on the problem tables, statement by statement | included by `ProblemAdmin` |
| `ProblemAdmin` | the administrator's list and form, in several tabs | composes with `ProblemStore` |
| `ProblemPage` | the problem page and the page of a submission, one after the other in a tab | over what `GradingPromise` lets a reader see |
| `PlatformSite` | registration, daily problem, discussions, leaderboard, profiles, filtered list | – |
| `ReadCaches` | the caches of `show`, `statistics` and the languages route | – |
| `MC...` | instances for TLC | constants only |
| `..._proofs` | TLAPS theorems about the module they extend | no code |

**PlatformGrading.** A handler is cut at its awaits. `SubmitRead`,
`SubmitCreate`, `JudgeAccept` (or `SubmitBatchThrows`) and `RecordSubmission`
are the four awaits of `POST /:slug/submit`; `FindCase`, `UpdateCase`,
`RereadCases`, `WriteSubmission`, `ReadAccepted` and `UpsertScore` those of the
callback. Locals that live across an await (`snap`, `allDone`, `overall`,
`passed`, `solved`) are fields of the request record. `call[s][t][k]` is the
k-th try of one callback, because an earlier try may still be handled after
Judge0 stopped waiting for it. A foreign key that fails, and a row that is gone
at an `update`, are branches; a rejection that no handler catches is
`ProcessDies`, as Node ends the process by default (`internal.ts` has no
`try`). `Restart` is the container's start command: migrate, seed, serve; the
seed replaces all tests of the seeded problems before a request is served.
`ContestParticipant.score` is kept as the set of problems it sums up.

**IsolateJob.** One submission, any number of jobs. An action is one statement
that can fail: `Find`, `MarkProcess`, `InitializeWorkdir`, `Compile`, `Run`,
`Verify`, `Cleanup`, `CheckCleanup`, `AverageAndSave`, then `Rescue` and
`LastCleanup` on an exception, and `CallCallback`. `job[j]` holds the
Submission object of that job: its status and output in memory, the output it
was loaded with (`was`, for the dirty check of ActiveRecord), what `stdout`
memoized (`memo`), whether its validations hold (`saves`; the language is read
once, in `MarkProcess`, or in `Rescue` when the first statement failed). What `isolate` does is the environment: a run gives one of
`Outcomes`, and a sandbox that another job cleaned up makes the next access
raise. `Faults` switches the kinds of failure on: `db`, `box`, `kill`,
`archive` (the language is archived by an upgrade), `delete`, `rake`.

**JudgeService.** The same life from outside, with many submissions: a request
is admitted (all filters and the size of the queue), then saves and enqueues
item by item; a request with `wait=true` then sleeps and looks. A worker pops and
starts a job (what it runs is `IsolateJob`'s), saves the verdict (`SaveVerdict`)
and goes on: a failing cleanup writes once more (`RescueSave`), then comes the
callback (`EndJob`). As soon as the verdict is there DELETE may remove the row
under these last steps. `lost` is a history variable: the submissions of which a job
was lost, before its save, in one of the ways that the code cannot prevent.

**ProblemStore and ProblemAdmin.** `Receive` is the arrival of a request;
`EnsureTag` the upserts of `ensureTags`, which run before the transaction. Of
the transaction every `deleteMany` is two steps: `Look` takes the snapshot of
the statement, `Delete` waits (`Blockers`) and deletes what is left of it.
PUT works through starter codes, tests and tags and then updates the problem;
DELETE holds the problem row and cascades, so the two may wait for each other
and `DeadlockVictim` is PostgreSQL's answer. `Update` is the last statement of
the transaction with its nested creates, where the unique indexes and the
slug may roll it back. `Form` is what `problemSchema` accepts, with lists of any
length; only what a user of `ProblemAdmin` types in is bounded (`MaxItems`, in
`Edits`). On the other side, a tab of `ProblemAdmin` shows the
list or a form; `client[k]` keeps what the function that sent request k closed
over (the page instance, the list at the click), so that an answer after the
page was left does exactly what the code still does then. A committed save asks
the router for the list (`going`); until `Arrive` the form stays and can be saved
again.

**ProblemPage.** `page[i]` is the React state of the i-th page that the tab
opened, `out[i]` its requests and timers, which outlive it. A change of the
language is two renders, `Switch` and `Settle`, since the effect that stores
drafts runs between them. `Polled` and `Fetched` are the two copies of the
polling function: one is cleaned up when its page is left (`ClearTimer` takes
its timer back), the other asks whether the page is still there.

**PlatformSite.** One record per request, cut at its awaits; `raced` and `cut`
are history: a row changed, or what the request had read was taken back, while
it was open; for a list, that an older list was still asked for. Of
the rows of Submission the model keeps user and problem, and a number that
tells them apart; `acc` is the subset with status AC. `Submit`, `Accept`
and `Retract` are what the other routes do to them meanwhile; `Retract` is the
handler that rereads no cases after an edit took them, and writes PENDING over an
AC. The page of problems asks for its list when it opens (`OpenPage`) and at
every change of a filter (`ChangeFilter`); each answer replaces what is shown,
and a failed request (`ListFails`) empties it.

**ReadCaches.** One entry of one cache on one server; `kind` says of which. The
value of an entry is a version, `old[v]` is how long version v has been out of
date. `Look`, `Expire`, `ReadSource`, `Write` are the steps of `Rails.cache
.fetch`, of which `Expire` is `race_condition_ttl`: Rails takes the integer part of a
tenth of the duration, so there is none below ten seconds, and from there on an
entry that expired just now is put back for the others. `kept` counts how often:
a fill that raises (the database fails in the block) or dies with its server
(`FillFails`), or finds the row deleted (`ReadGone`), leaves the entry it put back,
which may expire and be put back once more. The languages route
has no such step. A request takes at most `Slow`; this is an assumption.

## 3. What the runs check

Each run finishes within three minutes. A run marked *violation* states a
sentence of the documentation or of a comment that the code does not keep.

| run | instance | shows |
|---|---|---|
| `grading_crash` | 1 submission, 2 tests + 1 replacement, 2 tries, 1 crash, 1 edit, seeded problem | the verdict is the worst of the tests, the count is backed and the verdict is not lost between handlers, with a crash, a reseed and an edit at any point; every step is one of `GradingPromise` |
| `grading_contest` | 2 contest submissions of one user, one outside the window; 2 tests and 1 test | no score counts a problem that was not solved inside the window; cases that are all final lead to a verdict |
| `grading_early_callback` | 1 test, 3 tries | *violation*: a callback before the cases are recorded is a 404, and the submission is RUNNING for ever |
| `grader_reduce` | lists of up to 4 of the 9 verdicts | the loop returns the worst verdict |
| `job_twice` | 2 jobs of 2 runs in one sandbox, 3 outcomes, every fault | Accepted is earned; a verdict has its `finished_at` and appears once unless the submission is run again (a compile error may still become an internal error); no verdict leaves a sandbox behind; row and callbacks agree; nothing is stuck without one of the listed reasons; the life cycle is kept |
| `job_live` | 2 jobs of 2 runs, 5 outcomes, failing sandboxes | the submission ends with a verdict and keeps one |
| `service_faults` | batch of 2 with an invalid item beside a creation that waits 3.5 seconds, 2 workers, all faults, one `run_in_queue` | every unfinished submission has a job or a known loss; before the task is run there are never two jobs, nor one that would run a submission that is done; the life cycle is kept; a waiting client gets the verdict or waited to the end; `perform_now` looks seldom and ends near its limit |
| `service_live` | 2 batches of 2 and a waiting creation, 2 threads, queue limit 2 | the queue overshoots its limit by one batch per further thread, no more; every token that was given away ends |
| `problem_admin` | 2 tabs with 3 and 2 moves, 2 problems there and 1 to create, 2 slugs, 2 languages, 1 tag, 2 write requests | every committed save is whole and has replaced what was saved before it began; a request without a rival fails only for what is in its form; a tab has one save at a time, which is answered, and its list forgets what was deleted |
| `problem_page` | 2 pages of either kind, 2 submissions, 1 edit, 3 runs and switches, 2 languages | one chain of polls per page; the panel shows the answer to the last click; drafts survive; all that a page has under way ends, also after it was left |
| `site` | 2 requests of any kind, 2 emails, 2 names, 2 users, 2 problems, 1 thread, 2 days, 3 submissions of which 2 are accepted, 1 new one, at most 2 at a time without an AC, a slice of 1 instead of 100, 2 filters | only a rival makes a request fail; one problem per day; the leaderboard, the profile and the list are backed by what was read, also when an AC is taken back and when a list fails |
| `caches` | any number of requests, 2 at a time, 2 versions, `show` for 10 s, the others for 4, an entry put back at most 2 times | how old an answer may be; when a client may see a step back; when `invalidate_cache` is not fresh |

Every property of a passing run has a mutant in `PROJECT.json`: a definition
that models code, replaced by the *fault* defined above it, under which TLC
finds the property violated in the same instance.

Why these bounds are enough:

* *Tests and handlers.* A handler conflicts with another through one snapshot
  and one write, so two handlers show every conflict of a pair, and
  `grading_contest` adds a third that works on another submission. That the
  number of tests does not matter is proved (section 5).
* *Tries.* Two: one that timed out but is still handled, and its repetition.
* *Crash, edit, reseed.* One each, at any point; a second crash meets a
  process with the same state as the first, as nothing survives one but rows.
  `grading_contest` has none of them: a process that died may stay down.
* *Jobs.* Two jobs are what `run_in_queue` makes of a submission that has one.
  Two runs are the first with an output of the run before.
* *Attempts.* Two: one that is scheduled again, and the last.
* *Requests.* A batch of two is the first with a half; a batch and a single
  creation have all of the paths; the overshoot needs a third request to find
  the queue at its limit.
* *Tabs and saves.* Two write requests show every conflict of a pair of
  transactions; the second tab needs a click and an answer to meet the first.
* *Pages.* A page that was left and the one after it; two submissions are the
  first with an old verdict on the panel of a new one.
* *Requests of the site.* Each property compares two requests, or one request
  with the changes around it, which are not bounded by `MaxReqs`. The first
  user of `site` has two accepted submissions of one problem, the second one
  that may be accepted: the leaderboard's two counts differ, and its slice of one
  leaves somebody out.
* *Caches.* Requests are used again, so that fills follow each other for ever
  with two at a time; ten seconds are the shortest `show` with a
  `race_condition_ttl`. An entry that is put back twice is the first that fills
  which overlapped or failed have handed on; a third time changes no more than the
  second. All three properties are proved for all values (section 5).
* *Waiting.* 3.5 seconds instead of 600 in `service_faults`: the least wait with a
  sleep of the growing kind. With 600 seconds `WaitIsShort`, which is proved for
  every wait (section 5), says at most 50 looks, and less than 25 seconds beyond
  the limit. `service_live` waits 2 seconds.
* *Symmetry.* Workers in `service_faults`, and emails and names in `site`, where
  nobody is registered at first, are told apart by no step and no property.

`CHECK_DEADLOCK FALSE` is in the runs because these systems stop: all requests
answered, all jobs done, the edits used up.

### Fairness

* `PlatformGrading!FairSpec`: Node resumes every pending await (`WF` of each
  submit step and of each handler's next step); Judge0 ends its jobs and makes
  the callbacks it still has tries for. Timeouts, crashes, edits, failing
  batches and new requests are not fair: nothing obliges them to happen.
* `IsolateJob!FairSpec`: a worker goes on with its job and the queue is served.
  `job_live` has no `kill` and no `db` fault: a killed worker's job is gone
  for good, which `NotStuck` lists as one of its reasons.
* `JudgeService!FairSpec`: threads go on with the request they serve, workers
  with their job and with the queue while it has jobs, the scheduler with the
  schedule, a rake task with its list. Weak fairness suffices: none of these
  steps can be disabled by another actor except a `Pop` by a `Pop`, which
  empties the queue.

* `ProblemAdmin!Spec`: the server goes on with the requests it has (`WF` of
  `Serve`, which includes PostgreSQL's answer to a deadlock) and the browser
  with the answers it gets. The user owes nothing.
* `ProblemPage!Spec`: a request is answered or fails and a timer fires. `Grade`
  is fair too: it assumes that Judge0 calls back in the end. That this may be in vain
  is what `grading_early_callback` shows; then the page polls for as long as it
  is open.
* `PlatformSite` and `ReadCaches` state safety only.

## 4. Where the code and its documents disagree

`grading_early_callback` is a run of kind *violation* and a finding in
`PROJECT.json`, with the sentence it contradicts. The modules state four more
such sentences as definitions that no run lists, each of which TLC refutes
in an instance as small as that of `job_twice` or `grading_contest`:

* `PlatformGrading!CountMatchesVerdict`: the `passedCount` of an accepted
  submission may stay too small, as it is written from an old snapshot;
* `PlatformGrading!ScoreIsComplete`: two updates of a contest score that cross
  may leave out a solved problem;
* `IsolateJob!AcceptedStdoutMatches`: Accepted beside a wrong `stdout`, which is
  memoized from the first run;
* `IsolateJob!CalledBackWhenDone`: the callback is made although `save` has
  returned false and the row still waits.

What the code does in these cases is inside the properties that hold:
`PassedCountIsBacked`, `ScoreIsBacked`, `CallbackTellsRow`, `NotStuck`.

The models show more that have no run of their own, because they are the
plain consequence of one guard, or because a property names them as its
exception: a submission may be deleted while a second job
of it is processed (`SubmissionLifecycle` allows it under `MayRerun`); the queue may
outgrow MAX_QUEUE_SIZE (`QueueOvershoot` says by how much); batches are
accepted in maintenance mode (`Refused`); `wait=true` may be answered with a
submission that is still In Queue (`WaitAnswersResult` says when);
`invalidate_cache=true` may answer with older statistics if another request is
filling the cache (`InvalidateIsFresh`); a poll of `show` may step back
(`NoStepBack`) and, from ten seconds of duration on, requests that overlap may
hand an expired entry on to each other, and so may requests that fail one after
the other (`AnswersAreRecent`); a job that fails before it has a sandbox removes
`/*`, as its directories are nil (`LastCleanup`); an
upvote of a thread that is gone is a 500, not a 404 (`OnlyRacesFail`); saves of
one problem that overlap may leave tests of both (`SaveReplaces`); two deletions
that overlap bring the first problem back to the list (`ListForgets`); leaving
the problem page between the two renders of a switch loses a draft
(`DraftsKept`); a change of the filter while an older list is asked for may
show that list (`ListMatches`); and a late handler that finds no cases any more
takes an AC back (`Retract`, `GradingPromise!Reset`).

## 5. What is proved

TLAPS proves, for every value of the constants that the named assumptions of
the modules allow (any number of submissions, tests, tries, crashes, edits,
jobs, runs, attempts, requests, pages and tabs, any set of faults), every
safety invariant and action property that the passing runs check, and all three
refinements:

| module | theorem | says |
|---|---|---|
| `GraderReduce_proofs` | `Reducing` | the reduction of `combineVerdicts` returns the worst verdict of the list, whatever its length and order |
| `PlatformGrading_proofs` | `Typing`, `Grading` | types and the bound on tries; the invariant |
| | `Earning`, `NotLosing` | a verdict is the worst of all tests asked for; a verdict is never lost between handlers |
| | `Counting`, `Scoring` | a stored `passedCount` is no more than the tests Judge0 accepted; every problem in a score was solved in the window |
| | `KeepingThePromise` | every step is a step of `GradingPromise` |
| `IsolateJob_proofs` | `JobTyping`, `Isolating` | types and the bound on attempts; the invariant |
| | `Accepting`, `Finishing`, `Cleaning`, `NotSticking` | Accepted is earned; a verdict has its time; who leaves a sandbox behind; why a submission may be stuck |
| | `Telling`, `RowTold`, `VerdictStays` | the second invariant; row and callbacks agree; the verdict of the only job stays |
| | `JobLifecycle` | every step is a step of `SubmissionLifecycle` |
| `JudgeService_proofs` | `TypesKept`, `NoJobForgotten`, `OneJobKept` | types; an unfinished submission has a job, or its job was lost in a listed way; before `run_in_queue` never two jobs, and none that would run what is done |
| | `WaitStaysShort`, `WaitAnswersVerdict` | how seldom `perform_now` looks and when it ends; what `wait=true` answers |
| | `QueueStaysNear` | the queue outgrows its limit by one batch per further thread at most |
| | `ServiceLifecycleKept` | every step is, for every submission, a step of `SubmissionLifecycle` |
| `ProblemAdmin_proofs` | `SavesAreWhole`, `SavesReplace`, `FailuresExplained` | a problem holds all of its last committed save; a PUT leaves no row of a save it saw; a request without a rival fails only for what is in its form |
| | `AdminPagesKept` | one save at a time per form, and the list forgets what was deleted |
| `ProblemPage_proofs` | `PagesKept`, `PanelIsLatest`, `DraftsSurvive` | one request or timer per page, buttons disabled exactly as long, and a page that was left asks once more at most; the panel shows the answer to the last click; a draft holds what was typed |
| `PlatformSite_proofs` | `RowsKept`, `OneDailyProblem`, `AnswersAgree` | only a rival makes a request fail; one problem per day; answers from several reads stay between them unless what they read was taken back; the list is that of the filter or, after a failure, empty |
| `ReadCaches_proofs` | `CacheTyping`, `Refreshing`, `GoingForward` | types; `invalidate_cache` is fresh unless a fill was under way; an answer is no older than one given before it was asked for, unless two fills overlapped |
| | `StayingRecent` | how old an answer may be: duration, fill and twice `race_condition_ttl` for every time Rails put the entry back; once at most unless fills overlap or fail |

**The invariants of PlatformGrading.** `VerdictIsEarned` is not inductive: a
handler writes what it computed earlier. `GradingInv` therefore speaks of every
handler that holds a snapshot (`CallInv`: a complete snapshot's verdict is the
earned one), of every case (`TestInv`: its verdict is that of its job, and a
job that was acknowledged left a verdict), of every submit request
(`SubmitInv`: cases exist only after the request is done, and are exactly the
tests it read), and for `GradingNotLost` of a witness (`WitnessInv`): some test
is not acknowledged and *no* handler of it holds an incomplete snapshot. That
last part is what makes it inductive: the handler that made the last case final
reads after it, so the witness can be moved to it. The proof has one lemma per
action and, before them, lemmas about what a step leaves untouched, so that an
action is argued about for the one submission it changes. The laws of
`CombineVerdicts` are proved first (the ranks are different, so a worst verdict
exists and is unique).

`Moved` says once, for all actions, what a step may do to the jobs, handlers and
counts of one submission. `CountInv`, `ScoreInv` and the refinement are argued
from it: a count about to be written was counted from cases that Judge0 has
accepted, and those never become fewer; a problem about to be counted was solved
by a submission whose tests were *all* accepted, which stays true when the
submission is deleted. For `KeepingThePromise` the invariant `StaleInv` adds that test
ids are not used again, so a submission without its cases was overtaken by an
edit, which is the one case in which the promise allows it to stay RUNNING.

**The invariants of IsolateJob.** The properties say that *some* job stands for
what the row and the sandbox show. `IsolateInv` names it: `Accepts` (the job
that wrote Accepted, with all its runs behind it), `Owns` (the job that answers
for the sandbox), `Pending` (the job that has not written its verdict or could
not), and `JobInv` ties a job's program counter to its status, runs and
finish. Each job's step either keeps its role or hands it on. `TellingInv` adds
`TellInv` (as long as every save succeeds, a job will write the row, or wrote
what it shows) and `OnceInv` (the only job of a submission is past its verdict,
except that a compile error may still become an internal error); every action
is first classified by what it writes (`Quiet`, `Verdict`), so that the
arguments are made per class and not per action.

**The invariants of JudgeService.** `ServiceInv` is `TypeInv`, `RowInv` (who has
a job, or is about to get one, has a row) and `OneInv` (queue, schedule and
workers hold at most one job of a submission between them, and its row has a
verdict, or is gone, exactly when that job has saved: `ToDo` tells the two apart).
`WaitInv` gives the
sum of the pauses in closed form (after n looks, twice the time waited is
10 + n(n - 1)), from which the bound on looks follows by arithmetic.
`AnswerInv` says that a reload comes after the verdict or at the end, and
`RoomInv` counts what requests have found room for and not pushed yet: that sum, not
the queue's length, never exceeds the bound. `QueueStaysNear` assumes that
neither `db` nor `rake` is in `Faults`: a retry and the task push without
looking at the limit.

**The invariants of ProblemStore and ProblemAdmin.** `ClearFits` is the heart: of
the tables a transaction has been through, it has deleted (`dead`), and of the
one it waits for it has seen (`seen`), every row it is sure to meet. Those are the rows
of its problem for a DELETE, which holds the problem row; all rows for a request that is
alone; and for a PUT the rows of saves that were committed when it began.
`HoldInv`, `AloneInv`, `TagsFit` and `BeforeFits` carry what each of the three
needs. `AdminInv` adds the pages: the form that waits has the one open save
(`TabFits`), and no open deletion has closed over a list with a problem that an
answered one deleted (`SentFits`). `SavesReplace` and `SavesAreWhole` needed
forms of any length: with a bound on them the invariant was not inductive, as
nothing but the user keeps a form short.

**The invariant of ProblemPage.** `TaskFits` ties what is under way to the page it
belongs to, also after it was left; `Mounts` says of the page in front that
what is under way is what is left of its last click; and `DraftInv` that between
the two renders of a switch the page already has the draft it read.

**The invariant of PlatformSite.** `Fits` says of every open request what its checks
have found and what still holds of it if nothing was changed under it (`raced`);
of a leaderboard or a profile, that what it counted has only grown, unless
a problem or an AC went (`cut`). `Accounting` and `CountsGrow` are the lemmas on counting
behind it: no more problems solved than submissions accepted, and more rows, more
of both. `ListInv` says that, unless lists overlapped, the one
open list request is the last and asks for the page's filter, and that with none
open the page shows what the last one brought.

**The invariant of ReadCaches.** An answer comes from the entry or from what a
request is about to write, so `FreshInv` and `BackInv` speak of the entry, of
every request at its write and of every request that may put an expired entry
back. `Kept` says that all of these are versions there are. `BackInv` needs
that only one request fills at a time, which is what `Quiet` keeps, and that an
answer 404 leaves no entry and no filler behind it. `RecentInv` bounds a sum: the
time an entry has left and the time for which its version has been out of date.
`Tick` lets one shrink when the other grows (`AgedLater`), a write starts the sum
at the duration and what the fill took, and putting an expired entry back adds
the race time twice: once because it may have expired that long ago, once because
it lasts as long again. The bound (`MaxAge`) therefore grows with `kept`. `OnceInv`
says why `kept` stays at one as long as no two fills overlap and none fails: the
fill that put the entry back is still at work, and will write over it. One lemma per invariant,
one step per action; `AnswerEffect`, `LookEffect` and `TickEffect` say once what
these steps do to a request.

The proofs rest on the assumptions on constants of the modules
(`GradingAssumption`, `ReduceAssumption`, `JobAssumption`, `ServiceAssumption`,
`StoreAssumption`, `AdminAssumption`, `PageAssumption`, `SiteAssumption`,
`CacheAssumption`), which TLC evaluates in the runs, on the faults that
`QueueStaysNear` names, and on nothing else. The assumptions say that constants have their
types, that the tables at the start obey their unique indexes, and that sets of
rows are finite.

Only model-checked: the liveness properties (`CasesFinalLeadToVerdict`,
`EndsWithVerdict`, `EveryTokenEnds`, `SaveIsAnswered`, `PollingEnds`) and the
violated `RunningIsGraded`, as liveness and everything with `ENABLED` is out of the
prover's reach. No module uses a RECURSIVE
operator; the reduction of `combineVerdicts` is a loop with an invariant instead.

## 6. What is not modelled

* The contents of programs, inputs and outputs: an output is right, wrong or
  empty; times and memory are there or not. The text comparison of
  `determine_status` (`strip`) is planned.
* `isolate`, PostgreSQL, Resque, Prisma and HTTParty: external. A single SQL
  statement is atomic; a transaction is one step, but in `ProblemStore` it is cut
  at its statements.
* In `ProblemStore` a nested create that meets, under a unique index, a row which a
  third transaction has deleted and not committed yet fails at once, where
  PostgreSQL waits for that transaction. With two requests this cannot happen.
* What `rm -rf /* /*` in `LastCleanup` removes besides the sandbox.
* A create whose `contestId` does not exist ends with a failed foreign key,
  before anything is kept; `lastSubmissionAt`, `runtimeMs` and `memoryKb` are
  left out of the platform's rows.
* The signature of a callback and the authentication of both services: requests
  that are turned away change nothing.
* A seeded problem that an administrator deleted is created again under a new
  id by the next start; its old submissions are gone, so the model has no use
  for it.
* `IsolateJob` calls back once, and `EndJob` of `JudgeService` is the end of all
  tries: these are `PlatformGrading`'s `Deliver`, `Refused` and `CallTimesOut`.
* `JudgeService` gives a lost answer of Redis one outcome of two (pushed or
  not); the client library does not push twice.
* Contest registration is one upsert with an empty update, and the contest
  routes only list: nothing there can go wrong between two steps.
* Sessions, passwords and the login pages: they refuse a request or let it pass.
* Pages that fetch once and render (contests, discussions, leaderboard, profile).
* The texts of tests: that an item without expected output is accepted whatever
  it prints (`judge0.ts`), and that an empty output is compared with nil
  (`isolate_job.rb`), are not told apart by right, wrong and empty.
* Limits that end a request before it changes anything: 2 MB of body
  (a callback that is larger is answered like the early one), MAX_SUBMISSION_BATCH_SIZE
  (`JudgeAccept` includes the refused batch).
* In the administrator's form: the order numbers of tests, and the wording of errors.
  What is typed before the problem has loaded is replaced by `Load`, and a tag
  that a failed save has created stays; nothing in the code says otherwise.
* The figures of the statistics, and which problem the daily route picks (it
  depends on an order the query does not fix; the model takes any).
* The components with status `not_modelled` in `PROJECT.json`, with reasons.

## 7. Plan

Done, in this order: the grading pipeline with its abstract promise; the verdict
algebra and its loop; the worker's job; the life cycle; the service around the
job; the administration of problems and its pages; the pages that submit and
poll; the requests of the site; the caches; and proofs of all of them.

Next:

1. A composition of `JudgeService` and `PlatformGrading` through the batch and
   the callback.
2. `JobVerdict`: `determine_status` with `strip` over small texts against a
   reference comparison.
3. Contest pages, when registration and scores meet more than one table.
