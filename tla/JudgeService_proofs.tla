-------------------------- MODULE JudgeService_proofs --------------------------
(***************************************************************************)
(* Theorems about JudgeService, for every value of its constants.          *)
(***************************************************************************)
EXTENDS JudgeService, FiniteSetTheorems, SequenceTheorems, TLAPS

-------------------------------------------------------------------------------
(* Types.                                                                  *)

\* A request that is served has a size that a batch may have and is at one of
\* its items; only a creation that waits gets to the polls.
ReqInv ==
  \A r \in Reqs :
    /\ req[r].pc \notin {"new", "refused"} =>
         Size[r] \in 1..MaxBatch /\ req[r].item \in 1..Size[r]
    /\ req[r].pc = "new" => req[r].item = 1
    /\ req[r].pc \in {"sleep", "reload"} => Kind[r] = "wait"

TypeInv == TypeOK /\ ReqInv

LEMMA Bounds ==
  /\ Threads \in Nat \ {0} /\ MaxQueueSize \in Nat /\ MaxBatch \in Nat \ {0}
  /\ MaxWait \in Nat /\ MaxAttempts \in Nat \ {0} /\ MaxRakes \in Nat
  BY ServiceAssumption

\* The first item of any request is one that a row may stand for.
LEMMA FirstItem == \A r \in Reqs : <<r, 1>> \in Subm
  BY Bounds DEF Subm

LEMMA ItemIsSubm ==
  ASSUME NEW r \in Reqs, NEW i \in 1..MaxBatch
  PROVE  <<r, i>> \in Subm
  BY DEF Subm

\* A new job is a job, and so is one tried again while attempts are left.
LEMMA JobType ==
  ASSUME NEW s \in Subm
  PROVE  Job(s) \in JobRec
  BY Bounds DEF Job, JobRec

LEMMA RetryType ==
  ASSUME NEW job \in JobRec, MoreAttempts(job)
  PROVE  [job EXCEPT !.tries = @ + 1] \in JobRec
  BY Bounds DEF JobRec, MoreAttempts

\* The pause before a look is a number.
LEMMA WaitTimeType == \A i \in Nat : WaitTime(i) \in Nat
  BY DEF WaitTime

\* What a request becomes by an answer, a failure or its next item.
LEMMA AnswerType ==
  ASSUME NEW r \in Reqs, req \in [Reqs -> ReqRec]
  PROVE  /\ \A a \in {"tokens", "errors", "queue", "process", "final", "none"} :
              Answered(r, a) \in ReqRec
         /\ Failed(r) \in ReqRec
  BY DEF ReqRec, Answered, Failed, Serving

LEMMA MoveType ==
  ASSUME NEW r \in Reqs, req \in [Reqs -> ReqRec]
  PROVE  \A pc \in Serving \cup {"refused"} : [req[r] EXCEPT !.pc = pc] \in ReqRec
  BY DEF ReqRec

LEMMA NextItemType ==
  ASSUME NEW r \in Reqs, req \in [Reqs -> ReqRec], req[r].item + 1 \in 1..MaxBatch
  PROVE  [req[r] EXCEPT !.pc = "save", !.item = @ + 1] \in ReqRec
  BY DEF ReqRec, Serving

LEMMA LookType ==
  ASSUME NEW r \in Reqs, req \in [Reqs -> ReqRec], NEW t \in Nat,
         NEW pc \in {"sleep", "reload"}
  PROVE  [req[r] EXCEPT !.polls = @ + 1, !.waited = t, !.pc = pc] \in ReqRec
<1>1. req[r].polls + 1 \in Nat
  BY DEF ReqRec
<1> QED
  BY <1>1 DEF ReqRec, Serving

\* What only moves on, or is only asked again, keeps its looks at the database.
SameLooks(r, x) == x.polls = req[r].polls /\ x.waited = req[r].waited

\* After an item: the next item of a batch, the first look of a creation that
\* waits, or the answer of one that does not.
ItemFollows(r, x) ==
  \/ /\ req[r].item < Size[r] /\ x.pc = "save" /\ x.item = req[r].item + 1
     /\ x.answer = req[r].answer
  \/ /\ req[r].item = Size[r] /\ Kind[r] = "wait" /\ x.pc = "sleep"
     /\ x.item = req[r].item /\ x.answer = req[r].answer
  \/ /\ req[r].item = Size[r] /\ Kind[r] # "wait" /\ x.pc = "answered"
     /\ x.item = req[r].item /\ x.answer = "tokens"

LEMMA AfterItemCases ==
  ASSUME TypeInv, NEW r \in Reqs, req[r].pc \in {"save", "enqueue"}
  PROVE  AfterItem(r) \in ReqRec /\ SameLooks(r, AfterItem(r)) /\ ItemFollows(r, AfterItem(r))
<1>1. /\ req[r] \in ReqRec /\ Size[r] \in 1..MaxBatch /\ req[r].item \in 1..Size[r]
      /\ req \in [Reqs -> ReqRec]
  BY DEF TypeInv, TypeOK, ReqInv
<1>2. CASE req[r].item < Size[r]
  <2>1. req[r].item + 1 \in 1..MaxBatch
    BY <1>1, <1>2, Bounds
  <2>2. AfterItem(r) = [req[r] EXCEPT !.pc = "save", !.item = @ + 1]
    BY <1>2 DEF AfterItem
  <2> QED
    BY <1>1, <1>2, <2>1, <2>2, NextItemType DEF ReqRec, SameLooks, ItemFollows
<1>3. CASE ~(req[r].item < Size[r])
  <2>1. req[r].item = Size[r]
    BY <1>1, <1>3, Bounds
  <2>2. CASE Kind[r] = "wait"
    BY <1>1, <1>3, <2>1, <2>2, MoveType
       DEF AfterItem, ReqRec, SameLooks, ItemFollows, Serving
  <2>3. CASE Kind[r] # "wait"
    BY <1>1, <1>3, <2>1, <2>3, AnswerType
       DEF AfterItem, Answered, ReqRec, SameLooks, ItemFollows
  <2> QED
    BY <2>2, <2>3
<1> QED
  BY <1>2, <1>3

\* An invalid item of a batch is skipped, any other is the end of its request.
LEMMA AfterInvalidCases ==
  ASSUME TypeInv, NEW r \in Reqs, req[r].pc = "save"
  PROVE  /\ AfterInvalid(r) \in ReqRec /\ SameLooks(r, AfterInvalid(r))
         /\ \/ Kind[r] = "batch" /\ ItemFollows(r, AfterInvalid(r))
            \/ /\ Kind[r] # "batch" /\ AfterInvalid(r).pc = "answered"
               /\ AfterInvalid(r).item = req[r].item /\ AfterInvalid(r).answer = "errors"
<1>1. req[r] \in ReqRec /\ req \in [Reqs -> ReqRec]
  BY DEF TypeInv, TypeOK
<1>2. CASE Kind[r] = "batch"
  BY <1>2, AfterItemCases DEF AfterInvalid
<1>3. CASE Kind[r] # "batch"
  BY <1>1, <1>3, AnswerType DEF AfterInvalid, Answered, ReqRec, SameLooks
<1> QED
  BY <1>2, <1>3

-------------------------------------------------------------------------------
(* What each step of a request leaves in it.                               *)

\* Only the request r changes, and it stays one.
OnlyReq(r) == req' \in [Reqs -> ReqRec] /\ \A q \in Reqs \ {r} : req'[q] = req[q]

\* It keeps its item, its answer and its looks.
SameData(r) ==
  req'[r].item = req[r].item /\ req'[r].answer = req[r].answer /\ SameLooks(r, req'[r])

LEMMA OneRequest ==
  ASSUME req \in [Reqs -> ReqRec], NEW r \in Reqs, NEW x \in ReqRec,
         req' = [req EXCEPT ![r] = x]
  PROVE  OnlyReq(r) /\ req'[r] = x
  BY DEF OnlyReq

LEMMA OneMove ==
  ASSUME req \in [Reqs -> ReqRec], NEW r \in Reqs, NEW pc \in Serving \cup {"refused"},
         req' = [req EXCEPT ![r] = [req[r] EXCEPT !.pc = pc]]
  PROVE  OnlyReq(r) /\ SameData(r) /\ req'[r].pc = pc
<1>1. [req[r] EXCEPT !.pc = pc] \in ReqRec
  BY MoveType
<1>2. OnlyReq(r) /\ req'[r] = [req[r] EXCEPT !.pc = pc]
  BY <1>1, OneRequest
<1> QED
  BY <1>2 DEF SameData, SameLooks, ReqRec

LEMMA OneFailure ==
  ASSUME req \in [Reqs -> ReqRec], NEW r \in Reqs, req' = [req EXCEPT ![r] = Failed(r)]
  PROVE  OnlyReq(r) /\ SameData(r) /\ req'[r].pc = "failed"
<1>1. OnlyReq(r) /\ req'[r] = Failed(r)
  BY AnswerType, OneRequest
<1> QED
  BY <1>1 DEF SameData, SameLooks, ReqRec, Failed

\* Admit: the request is refused, or it starts with its first item when the
\* queue has room for all of them.
LEMMA AdmitEffect ==
  ASSUME TypeInv, NEW r \in Reqs, Admit(r)
  PROVE  /\ OnlyReq(r) /\ SameData(r) /\ req[r].pc = "new"
         /\ \/ req'[r].pc = "refused"
            \/ req'[r].pc = "save" /\ ~Refused(r) /\ HasRoom(r)
<1> DEFINE pc == IF Refused(r) \/ ~HasRoom(r) THEN "refused" ELSE "save"
<1>1. req \in [Reqs -> ReqRec]
  BY DEF TypeInv, TypeOK
<1>2. req' = [req EXCEPT ![r] = [req[r] EXCEPT !.pc = pc]] /\ req[r].pc = "new"
  BY DEF Admit, At
<1>3. OnlyReq(r) /\ SameData(r) /\ req'[r].pc = pc
  BY <1>1, <1>2, OneMove DEF Serving
<1> QED
  BY <1>2, <1>3

\* The submission a request is at is one.
LEMMA ItemAt ==
  ASSUME TypeInv, NEW r \in Reqs, req[r].pc \in Serving
  PROVE  /\ <<r, req[r].item>> \in Subm /\ req[r].item \in 1..Size[r]
         /\ Size[r] \in 1..MaxBatch
<1>1. Size[r] \in 1..MaxBatch /\ req[r].item \in 1..Size[r]
  BY DEF TypeInv, ReqInv, Serving
<1>2. req[r].item \in 1..MaxBatch
  BY <1>1, Bounds
<1> QED
  BY <1>1, <1>2, ItemIsSubm

\* SaveItem: the item is skipped or answered, saved, or the request fails.
LEMMA SaveItemEffect ==
  ASSUME TypeInv, NEW r \in Reqs, SaveItem(r)
  PROVE  /\ OnlyReq(r) /\ req[r].pc = "save" /\ SameLooks(r, req'[r])
         /\ \/ /\ row' = row
               /\ \/ Kind[r] = "batch" /\ ItemFollows(r, req'[r])
                  \/ /\ Kind[r] # "batch" /\ req'[r].pc = "answered"
                     /\ req'[r].item = req[r].item /\ req'[r].answer = "errors"
            \/ /\ row' = [row EXCEPT ![<<r, req[r].item>>] = "queue"]
               /\ req'[r].pc = "enqueue" /\ SameData(r)
            \/ row' = row /\ req'[r].pc = "failed" /\ SameData(r)
<1>1. req \in [Reqs -> ReqRec] /\ req[r].pc = "save"
  BY DEF TypeInv, TypeOK, SaveItem, At
<1>2. CASE req' = [req EXCEPT ![r] = AfterInvalid(r)] /\ row' = row
  BY <1>1, <1>2, AfterInvalidCases, OneRequest
<1>3. CASE /\ row' = [row EXCEPT ![<<r, req[r].item>>] = "queue"]
           /\ req' = [req EXCEPT ![r] = [req[r] EXCEPT !.pc = "enqueue"]]
  <2>1. OnlyReq(r) /\ SameData(r) /\ req'[r].pc = "enqueue"
    BY <1>1, <1>3, OneMove DEF Serving
  <2> QED
    BY <1>1, <1>3, <2>1 DEF SameData
<1>4. CASE req' = [req EXCEPT ![r] = Failed(r)] /\ row' = row
  <2>1. OnlyReq(r) /\ SameData(r) /\ req'[r].pc = "failed"
    BY <1>1, <1>4, OneFailure
  <2> QED
    BY <1>1, <1>4, <2>1 DEF SameData
<1> QED
  BY <1>2, <1>3, <1>4 DEF SaveItem

\* EnqueueItem: the job is in the queue, or lost with its request, or in the
\* queue of a request that failed.
LEMMA EnqueueItemEffect ==
  ASSUME TypeInv, NEW r \in Reqs, EnqueueItem(r)
  PROVE  LET s == <<r, req[r].item>> IN
         /\ OnlyReq(r) /\ req[r].pc = "enqueue" /\ SameLooks(r, req'[r])
         /\ \/ queue' = Append(queue, Job(s)) /\ lost' = lost /\ ItemFollows(r, req'[r])
            \/ queue' = queue /\ lost' = lost \cup {s} /\ req'[r].pc = "failed" /\ SameData(r)
            \/ /\ queue' = Append(queue, Job(s)) /\ lost' = lost
               /\ req'[r].pc = "failed" /\ SameData(r)
<1> DEFINE s == <<r, req[r].item>>
<1>1. req \in [Reqs -> ReqRec] /\ req[r].pc = "enqueue"
  BY DEF TypeInv, TypeOK, EnqueueItem, At
<1>2. CASE /\ req' = [req EXCEPT ![r] = AfterItem(r)]
           /\ queue' = Append(queue, Job(s)) /\ lost' = lost
  BY <1>1, <1>2, AfterItemCases, OneRequest
<1>3. CASE /\ req' = [req EXCEPT ![r] = Failed(r)]
           /\ \/ lost' = lost \cup {s} /\ queue' = queue
              \/ queue' = Append(queue, Job(s)) /\ lost' = lost
  <2>1. OnlyReq(r) /\ SameData(r) /\ req'[r].pc = "failed"
    BY <1>1, <1>3, OneFailure
  <2> QED
    BY <1>1, <1>3, <2>1 DEF SameData
<1> QED
  BY <1>2, <1>3 DEF EnqueueItem

\* Poll: one look more, after which the request sleeps again only when the row
\* waits and the time is not up.
LEMMA PollEffect ==
  ASSUME TypeInv, NEW r \in Reqs, Poll(r)
  PROVE  /\ OnlyReq(r) /\ req[r].pc = "sleep"
         /\ req'[r].item = req[r].item /\ req'[r].answer = req[r].answer
         /\ req'[r].polls = req[r].polls + 1
         /\ req'[r].waited = req[r].waited + WaitTime(req[r].polls)
         /\ \/ req'[r].pc = "sleep" /\ req'[r].waited < MaxWait
            \/ /\ req'[r].pc = "reload"
               /\ ~Waiting(<<r, 1>>) \/ req'[r].waited >= MaxWait
<1> DEFINE total == req[r].waited + WaitTime(req[r].polls)
           pc == IF ~Waiting(<<r, 1>>) \/ total >= MaxWait THEN "reload" ELSE "sleep"
           x == [req[r] EXCEPT !.polls = @ + 1, !.waited = total, !.pc = pc]
<1>1. req \in [Reqs -> ReqRec] /\ req[r].pc = "sleep"
  BY DEF TypeInv, TypeOK, Poll, At
<1>2. total \in Nat
  BY <1>1, WaitTimeType DEF ReqRec
<1>3. req' = [req EXCEPT ![r] = x]
  BY DEF Poll
<1>4. OnlyReq(r) /\ req'[r] = x
  BY <1>1, <1>2, <1>3, LookType, OneRequest
<1>5. /\ x.item = req[r].item /\ x.answer = req[r].answer /\ x.pc = pc
      /\ x.polls = req[r].polls + 1 /\ x.waited = total
  BY <1>1 DEF ReqRec
<1>6. CASE ~Waiting(<<r, 1>>) \/ total >= MaxWait
  BY <1>1, <1>4, <1>5, <1>6
<1>7. CASE ~(~Waiting(<<r, 1>>) \/ total >= MaxWait)
  BY <1>1, <1>2, <1>4, <1>5, <1>7, Bounds
<1> QED
  BY <1>6, <1>7

\* Reload: the row is the answer, or there is none.
LEMMA ReloadEffect ==
  ASSUME TypeInv, NEW r \in Reqs, Reload(r)
  PROVE  /\ OnlyReq(r) /\ req[r].pc = "reload" /\ req'[r].item = req[r].item
         /\ SameLooks(r, req'[r])
         /\ \/ req'[r].pc = "failed" /\ req'[r].answer = req[r].answer
            \/ /\ req'[r].pc = "answered" /\ req'[r].answer = row[<<r, 1>>]
               /\ row[<<r, 1>>] # "deleted"
<1>1. req \in [Reqs -> ReqRec] /\ req[r].pc = "reload"
  BY DEF TypeInv, TypeOK, Reload, At
<1>2. CASE row[<<r, 1>>] = "deleted"
  <2>1. req' = [req EXCEPT ![r] = Failed(r)]
    BY <1>2 DEF Reload
  <2> QED
    BY <1>1, <2>1, OneFailure DEF SameData
<1>3. CASE row[<<r, 1>>] # "deleted"
  <2> DEFINE x == Answered(r, row[<<r, 1>>])
  <2>1. req' = [req EXCEPT ![r] = x]
    BY <1>3 DEF Reload
  <2>2. row[<<r, 1>>] \in {"none", "queue", "process", "final"}
    BY <1>3, FirstItem DEF TypeInv, TypeOK
  <2>3. x \in ReqRec
    BY <1>1, <2>2, AnswerType
  <2>4. OnlyReq(r) /\ req'[r] = x
    BY <1>1, <2>1, <2>3, OneRequest
  <2> QED
    BY <1>1, <1>3, <2>4 DEF Answered, ReqRec, SameLooks
<1> QED
  BY <1>2, <1>3

\* ServerDies: the request fails, with the job it was about to enqueue.
LEMMA ServerDiesEffect ==
  ASSUME TypeInv, NEW r \in Reqs, ServerDies(r)
  PROVE  /\ OnlyReq(r) /\ SameData(r) /\ req[r].pc \in Serving /\ req'[r].pc = "failed"
         /\ <<r, req[r].item>> \in Subm
         /\ lost' = IF req[r].pc = "enqueue" THEN lost \cup {<<r, req[r].item>>} ELSE lost
<1>1. req \in [Reqs -> ReqRec] /\ req' = [req EXCEPT ![r] = Failed(r)]
  BY DEF TypeInv, TypeOK, ServerDies
<1>2. req[r].pc \in Serving
  BY DEF ServerDies
<1> QED
  BY <1>1, <1>2, OneFailure, ItemAt DEF ServerDies, At

-------------------------------------------------------------------------------
(* What each step leaves in the queue, the schedule and the workers.       *)

\* The place of a worker: one job, or none.
WorkerRec == [pc : Busy, job : JobRec]

LEMMA SetWorker ==
  ASSUME TypeInv, NEW w \in Workers, NEW pc \in Busy, NEW j \in JobRec,
         Set(w, pc, j)
  PROVE  /\ worker' \in [Workers -> [pc : Busy, job : JobRec] \cup {Idle}]
         /\ worker'[w] = [pc |-> pc, job |-> j]
         /\ \A v \in Workers \ {w} : worker'[v] = worker[v]
<1>1. worker \in [Workers -> WorkerRec \cup {Idle}]
  BY DEF TypeInv, TypeOK, WorkerRec
<1>2. [pc |-> pc, job |-> j] \in WorkerRec
  BY DEF WorkerRec
<1>3. worker' = [worker EXCEPT ![w] = [pc |-> pc, job |-> j]]
  BY DEF Set
<1> HIDE DEF WorkerRec
<1>4. /\ worker' \in [Workers -> WorkerRec \cup {Idle}]
      /\ worker'[w] = [pc |-> pc, job |-> j]
      /\ \A v \in Workers \ {w} : worker'[v] = worker[v]
  BY <1>1, <1>2, <1>3
<1> QED
  BY <1>4 DEF WorkerRec

LEMMA ReleaseWorker ==
  ASSUME TypeInv, NEW w \in Workers, Release(w)
  PROVE  /\ worker' \in [Workers -> [pc : Busy, job : JobRec] \cup {Idle}]
         /\ worker'[w] = Idle
         /\ \A v \in Workers \ {w} : worker'[v] = worker[v]
<1>1. worker \in [Workers -> WorkerRec \cup {Idle}]
  BY DEF TypeInv, TypeOK, WorkerRec
<1>2. worker' = [worker EXCEPT ![w] = Idle]
  BY DEF Release
<1>3. /\ worker' \in [Workers -> WorkerRec \cup {Idle}]
      /\ worker'[w] = Idle
      /\ \A v \in Workers \ {w} : worker'[v] = worker[v]
  BY <1>1, <1>2
<1> QED
  BY <1>3 DEF WorkerRec

\* A worker that is not idle has a job of a submission.
LEMMA BusyJob ==
  ASSUME TypeInv, NEW w \in Workers, worker[w].pc # "idle"
  PROVE  /\ worker[w].job \in JobRec /\ worker[w].job.sub \in Subm
         /\ worker[w].pc \in Busy
<1>1. worker[w] \in WorkerRec \cup {Idle}
  BY DEF TypeInv, TypeOK, WorkerRec
<1>2. worker[w] \in WorkerRec
  BY <1>1 DEF Idle
<1> QED
  BY <1>2 DEF WorkerRec, JobRec

\* A job put at the end of a list.
LEMMA AppendJob ==
  ASSUME NEW q \in Seq(JobRec), NEW j \in JobRec
  PROVE  /\ Append(q, j) \in Seq(JobRec) /\ Len(Append(q, j)) = Len(q) + 1
         /\ \A s : InSeq(s, Append(q, j)) =
                     InSeq(s, q) \cup (IF j.sub = s THEN {Len(q) + 1} ELSE {})
         /\ \A s : j.sub = s => InSeq(s, q) \cup {Len(q) + 1} # {}
         /\ \A s : Len(q) + 1 \notin InSeq(s, q)
<1> DEFINE q2 == Append(q, j)
<1>1. /\ q2 \in Seq(JobRec) /\ Len(q2) = Len(q) + 1
      /\ \A i \in 1..Len(q) : q2[i] = q[i]
      /\ q2[Len(q) + 1] = j
  BY AppendProperties
<1>2. Len(q) \in Nat /\ DOMAIN q = 1..Len(q)
  BY LenProperties
<1>3. DOMAIN q2 = 1..(Len(q) + 1)
  BY <1>1, LenProperties
<1>4. \A i : i \in DOMAIN q2 <=> i \in DOMAIN q \/ i = Len(q) + 1
  BY <1>2, <1>3
<1> HIDE DEF q2
<1>5. ASSUME NEW s
      PROVE  InSeq(s, q2) = InSeq(s, q) \cup (IF j.sub = s THEN {Len(q) + 1} ELSE {})
  BY <1>1, <1>2, <1>4 DEF InSeq
<1>6. \A s : Len(q) + 1 \notin InSeq(s, q)
  BY <1>2 DEF InSeq
<1> QED
  BY <1>1, <1>5, <1>6 DEF q2

\* The first job taken off a list: the places of the others move up by one.
LEMMA TailJob ==
  ASSUME NEW q \in Seq(JobRec), q # <<>>
  PROVE  /\ Head(q) \in JobRec /\ Tail(q) \in Seq(JobRec) /\ Len(Tail(q)) = Len(q) - 1
         /\ Len(q) > 0 /\ 1 \in InSeq(Head(q).sub, q)
         /\ \A s, i : i \in InSeq(s, Tail(q)) <=> i \in 1..(Len(q) - 1) /\ i + 1 \in InSeq(s, q)
         /\ \A s, i : i \in InSeq(s, q) /\ i # 1 => i - 1 \in InSeq(s, Tail(q))
         /\ \A s : 1 \in InSeq(s, q) <=> s = Head(q).sub
<1> DEFINE q2 == Tail(q)
<1>1. /\ Head(q) \in JobRec /\ q2 \in Seq(JobRec) /\ Len(q2) = Len(q) - 1
      /\ \A i \in 1..Len(q2) : q2[i] = q[i + 1]
      /\ Head(q) = q[1]
  BY HeadTailProperties
<1>2. Len(q) \in Nat /\ DOMAIN q = 1..Len(q) /\ Len(q) > 0
  BY LenProperties, EmptySeq
<1>3. DOMAIN q2 = 1..(Len(q) - 1)
  BY <1>1, LenProperties
<1> HIDE DEF q2
<1>4. ASSUME NEW s, NEW i
      PROVE  i \in InSeq(s, q2) <=> i \in 1..(Len(q) - 1) /\ i + 1 \in InSeq(s, q)
  BY <1>1, <1>2, <1>3 DEF InSeq
<1>5. ASSUME NEW s, NEW i, i \in InSeq(s, q), i # 1
      PROVE  i - 1 \in InSeq(s, q2)
  BY <1>1, <1>2, <1>3, <1>5 DEF InSeq
<1>6. \A s : 1 \in InSeq(s, q) <=> s = Head(q).sub
  BY <1>1, <1>2 DEF InSeq
<1> QED
  BY <1>1, <1>2, <1>4, <1>5, <1>6 DEF q2

-------------------------------------------------------------------------------
(* Types are kept.                                                         *)

\* A step of one request keeps ReqInv when its successor is well placed.
LEMMA ReqInvStep ==
  ASSUME TypeInv, NEW r \in Reqs, OnlyReq(r),
         /\ req'[r].pc \notin {"new", "refused"} =>
              Size[r] \in 1..MaxBatch /\ req'[r].item \in 1..Size[r]
         /\ req'[r].pc # "new"
         /\ req'[r].pc \in {"sleep", "reload"} => Kind[r] = "wait"
  PROVE  ReqInv'
  BY DEF TypeInv, ReqInv, OnlyReq

LEMMA ItemFollowsInv ==
  ASSUME TypeInv, NEW r \in Reqs, OnlyReq(r), req[r].pc \in Serving, ItemFollows(r, req'[r])
  PROVE  ReqInv'
<1>1. Size[r] \in 1..MaxBatch /\ req[r].item \in 1..Size[r] /\ Size[r] \in Nat
  BY ItemAt, ServiceAssumption
<1>2. CASE req[r].item < Size[r] /\ req'[r].pc = "save" /\ req'[r].item = req[r].item + 1
  <2>1. req'[r].item \in 1..Size[r]
    BY <1>1, <1>2
  <2> QED
    BY <1>1, <1>2, <2>1, ReqInvStep
<1>3. CASE Kind[r] = "wait" /\ req'[r].pc = "sleep" /\ req'[r].item = req[r].item
  BY <1>1, <1>3, ReqInvStep
<1>4. CASE req'[r].pc = "answered" /\ req'[r].item = req[r].item
  BY <1>1, <1>4, ReqInvStep
<1> QED
  BY <1>2, <1>3, <1>4 DEF ItemFollows

LEMMA TypeInvInit == Init => TypeInv
<1> SUFFICES ASSUME Init PROVE TypeInv
  OBVIOUS
<1>1. [pc |-> "new", item |-> 1, polls |-> 0, waited |-> 0, answer |-> "none"] \in ReqRec
  BY Bounds DEF ReqRec
<1>2. req \in [Reqs -> ReqRec]
  BY <1>1 DEF Init
<1>3. row \in [Subm -> {"none", "queue", "process", "final", "deleted"}]
  BY DEF Init
<1>4. queue \in Seq(JobRec) /\ delayed \in Seq(JobRec) /\ rakes \in 0..MaxRakes
  BY Bounds, EmptySeq DEF Init
<1>5. worker \in [Workers -> [pc : Busy, job : JobRec] \cup {Idle}]
  BY DEF Init
<1>6. ReqInv
  BY DEF Init, ReqInv
<1> QED
  BY <1>2, <1>3, <1>4, <1>5, <1>6 DEF TypeInv, TypeOK, Init

\* The variables that requests leave to others.
LEMMA AdmitType ==
  ASSUME TypeInv, NEW r \in Reqs, Admit(r)
  PROVE  TypeInv'
<1>1. /\ OnlyReq(r) /\ SameData(r) /\ req[r].pc = "new"
      /\ \/ req'[r].pc = "refused"
         \/ req'[r].pc = "save" /\ ~Refused(r)
  BY AdmitEffect
<1>2. req[r].item = 1
  BY <1>1 DEF TypeInv, ReqInv
<1>3. ~Refused(r) => Size[r] \in 1..MaxBatch
  <2>1. CASE Kind[r] = "batch"
    BY <2>1 DEF Refused
  <2>2. CASE Kind[r] # "batch"
    BY <2>2, ServiceAssumption
  <2> QED
    BY <2>1, <2>2
<1>4. ~Refused(r) => 1 \in 1..Size[r]
  BY <1>3, Bounds
<1>5. ReqInv'
  BY <1>1, <1>2, <1>3, <1>4, ReqInvStep DEF SameData
<1> QED
  BY <1>1, <1>5 DEF TypeInv, TypeOK, Admit, OnlyReq

LEMMA SaveItemType ==
  ASSUME TypeInv, NEW r \in Reqs, SaveItem(r)
  PROVE  TypeInv'
<1> DEFINE s == <<r, req[r].item>>
<1>1. OnlyReq(r) /\ req[r].pc = "save"
  BY SaveItemEffect
<1>2. s \in Subm /\ req[r].item \in 1..Size[r] /\ Size[r] \in 1..MaxBatch
  BY <1>1, ItemAt DEF Serving
<1>3. row' \in [Subm -> {"none", "queue", "process", "final", "deleted"}]
  <2>1. row' = row \/ row' = [row EXCEPT ![s] = "queue"]
    BY SaveItemEffect
  <2> QED
    BY <2>1, <1>2 DEF TypeInv, TypeOK
<1>4. ReqInv'
  <2>1. CASE ItemFollows(r, req'[r])
    BY <1>1, <2>1, ItemFollowsInv DEF Serving
  <2>2. CASE req'[r].pc \in {"answered", "enqueue", "failed"} /\ req'[r].item = req[r].item
    BY <1>1, <1>2, <2>2, ReqInvStep
  <2> QED
    BY <2>1, <2>2, SaveItemEffect DEF SameData
<1> QED
  BY <1>1, <1>3, <1>4 DEF TypeInv, TypeOK, SaveItem, OnlyReq

LEMMA EnqueueItemType ==
  ASSUME TypeInv, NEW r \in Reqs, EnqueueItem(r)
  PROVE  TypeInv'
<1> DEFINE s == <<r, req[r].item>>
<1>1. OnlyReq(r) /\ req[r].pc = "enqueue"
  BY EnqueueItemEffect
<1>2. s \in Subm /\ req[r].item \in 1..Size[r] /\ Size[r] \in 1..MaxBatch
  BY <1>1, ItemAt DEF Serving
<1>3. queue \in Seq(JobRec) /\ Job(s) \in JobRec /\ lost \subseteq Subm
  BY <1>2, JobType DEF TypeInv, TypeOK
<1>4. queue' \in Seq(JobRec) /\ lost' \subseteq Subm
  <2>1. Append(queue, Job(s)) \in Seq(JobRec)
    BY <1>3, AppendJob
  <2>2. /\ queue' = queue \/ queue' = Append(queue, Job(s))
        /\ lost' = lost \/ lost' = lost \cup {s}
    BY EnqueueItemEffect
  <2> QED
    BY <1>2, <1>3, <2>1, <2>2
<1>5. ReqInv'
  <2>1. CASE ItemFollows(r, req'[r])
    BY <1>1, <2>1, ItemFollowsInv DEF Serving
  <2>2. CASE req'[r].pc = "failed" /\ req'[r].item = req[r].item
    BY <1>1, <1>2, <2>2, ReqInvStep
  <2> QED
    BY <2>1, <2>2, EnqueueItemEffect DEF SameData
<1> QED
  BY <1>1, <1>4, <1>5 DEF TypeInv, TypeOK, EnqueueItem, OnlyReq

LEMMA PollType ==
  ASSUME TypeInv, NEW r \in Reqs, Poll(r)
  PROVE  TypeInv'
<1>1. /\ OnlyReq(r) /\ req[r].pc = "sleep" /\ req'[r].item = req[r].item
      /\ req'[r].pc \in {"sleep", "reload"}
  BY PollEffect
<1>2. Kind[r] = "wait" /\ req[r].item \in 1..Size[r] /\ Size[r] \in 1..MaxBatch
  BY <1>1 DEF TypeInv, ReqInv
<1>3. ReqInv'
  BY <1>1, <1>2, ReqInvStep
<1> QED
  BY <1>1, <1>3 DEF TypeInv, TypeOK, Poll, OnlyReq

LEMMA ReloadType ==
  ASSUME TypeInv, NEW r \in Reqs, Reload(r)
  PROVE  TypeInv'
<1>1. /\ OnlyReq(r) /\ req[r].pc = "reload" /\ req'[r].item = req[r].item
      /\ req'[r].pc \in {"answered", "failed"}
  BY ReloadEffect
<1>2. req[r].item \in 1..Size[r] /\ Size[r] \in 1..MaxBatch
  BY <1>1 DEF TypeInv, ReqInv
<1>3. ReqInv'
  BY <1>1, <1>2, ReqInvStep
<1> QED
  BY <1>1, <1>3 DEF TypeInv, TypeOK, Reload, OnlyReq

LEMMA ServerDiesType ==
  ASSUME TypeInv, NEW r \in Reqs, ServerDies(r)
  PROVE  TypeInv'
<1>1. /\ OnlyReq(r) /\ req[r].pc \in Serving /\ req'[r].item = req[r].item
      /\ req'[r].pc = "failed" /\ <<r, req[r].item>> \in Subm
      /\ lost' \in {lost, lost \cup {<<r, req[r].item>>}}
  BY ServerDiesEffect DEF SameData
<1>2. req[r].item \in 1..Size[r] /\ Size[r] \in 1..MaxBatch
  BY <1>1, ItemAt
<1>3. ReqInv'
  BY <1>1, <1>2, ReqInvStep
<1> QED
  BY <1>1, <1>3 DEF TypeInv, TypeOK, ServerDies, OnlyReq

LEMMA PopType ==
  ASSUME TypeInv, NEW w \in Workers, Pop(w)
  PROVE  TypeInv'
<1>1. queue \in Seq(JobRec) /\ queue # <<>>
  BY DEF TypeInv, TypeOK, Pop
<1>2. Head(queue) \in JobRec /\ Tail(queue) \in Seq(JobRec)
  BY <1>1, TailJob
<1>3. worker' \in [Workers -> [pc : Busy, job : JobRec] \cup {Idle}]
  BY <1>2, SetWorker DEF Pop, Busy, Working
<1>4. ReqInv'
  BY DEF TypeInv, ReqInv, Pop
<1> QED
  BY <1>2, <1>3, <1>4 DEF TypeInv, TypeOK, Pop

LEMMA StartJobType ==
  ASSUME TypeInv, NEW w \in Workers, StartJob(w)
  PROVE  TypeInv'
<1> DEFINE s == worker[w].job.sub
<1>1. worker[w].job \in JobRec /\ s \in Subm
  BY BusyJob DEF StartJob
<1>2. worker' \in [Workers -> [pc : Busy, job : JobRec] \cup {Idle}]
  BY <1>1, SetWorker DEF StartJob, Busy, Working
<1>3. row' \in [Subm -> {"none", "queue", "process", "final", "deleted"}]
  BY <1>1 DEF TypeInv, TypeOK, StartJob
<1>4. ReqInv'
  BY DEF TypeInv, ReqInv, StartJob
<1> QED
  BY <1>2, <1>3, <1>4 DEF TypeInv, TypeOK, StartJob

\* find raises: the job is tried again or lost.
LEMMA FindFailsEffect ==
  ASSUME TypeInv, NEW w \in Workers, FindFails(w)
  PROVE  LET job == worker[w].job IN
         /\ worker[w].pc = "popped" /\ job \in JobRec /\ job.sub \in Subm /\ Release(w)
         /\ ~Found(job.sub) \/ "db" \in Faults
         /\ \/ /\ delayed' = Append(delayed, [job EXCEPT !.tries = @ + 1]) /\ lost' = lost
               /\ [job EXCEPT !.tries = @ + 1] \in JobRec
            \/ delayed' = delayed /\ lost' = lost \cup {job.sub}
<1> DEFINE job == worker[w].job
<1>1. worker[w].pc = "popped" /\ job \in JobRec /\ job.sub \in Subm
  BY BusyJob DEF FindFails
<1>2. CASE MoreAttempts(job)
  <2>1. delayed' = Append(delayed, [job EXCEPT !.tries = @ + 1]) /\ lost' = lost
    BY <1>2 DEF FindFails, Retry
  <2>2. [job EXCEPT !.tries = @ + 1] \in JobRec
    BY <1>1, <1>2, RetryType
  <2> QED
    BY <1>1, <2>1, <2>2 DEF FindFails
<1>3. CASE ~MoreAttempts(job)
  BY <1>1, <1>3 DEF FindFails
<1> QED
  BY <1>2, <1>3

LEMMA FindFailsType ==
  ASSUME TypeInv, NEW w \in Workers, FindFails(w)
  PROVE  TypeInv'
<1> DEFINE job == worker[w].job
           next == [job EXCEPT !.tries = @ + 1]
<1>1. /\ worker[w].pc = "popped" /\ job.sub \in Subm /\ Release(w)
      /\ \/ delayed' = Append(delayed, next) /\ lost' = lost /\ next \in JobRec
         \/ delayed' = delayed /\ lost' = lost \cup {job.sub}
  BY FindFailsEffect
<1>2. delayed \in Seq(JobRec) /\ lost \subseteq Subm
  BY DEF TypeInv, TypeOK
<1> HIDE DEF next
<1>3. delayed' \in Seq(JobRec) /\ lost' \subseteq Subm
  BY <1>1, <1>2, AppendJob
<1>4. worker' \in [Workers -> [pc : Busy, job : JobRec] \cup {Idle}]
  BY <1>1, ReleaseWorker
<1>5. ReqInv'
  BY DEF TypeInv, ReqInv, FindFails
<1> QED
  BY <1>3, <1>4, <1>5 DEF TypeInv, TypeOK, FindFails

LEMMA EnqueueDelayedType ==
  ASSUME TypeInv, EnqueueDelayed
  PROVE  TypeInv'
<1>1. queue \in Seq(JobRec) /\ delayed \in Seq(JobRec) /\ delayed # <<>>
  BY DEF TypeInv, TypeOK, EnqueueDelayed
<1>2. Head(delayed) \in JobRec /\ Tail(delayed) \in Seq(JobRec)
  BY <1>1, TailJob
<1>3. queue' \in Seq(JobRec) /\ delayed' \in Seq(JobRec)
  BY <1>1, <1>2, AppendJob DEF EnqueueDelayed
<1>4. ReqInv'
  BY DEF TypeInv, ReqInv, EnqueueDelayed
<1> QED
  BY <1>3, <1>4 DEF TypeInv, TypeOK, EnqueueDelayed

LEMMA SaveType ==
  ASSUME TypeInv, NEW w \in Workers, SaveVerdict(w) \/ RescueSave(w)
  PROVE  TypeInv'
<1>1. worker[w].job \in JobRec /\ worker[w].job.sub \in Subm
  BY BusyJob DEF SaveVerdict, RescueSave
<1>2. worker' \in [Workers -> [pc : Busy, job : JobRec] \cup {Idle}]
  BY <1>1, SetWorker DEF SaveVerdict, RescueSave, Busy
<1>3. row' \in [Subm -> {"none", "queue", "process", "final", "deleted"}]
  BY <1>1 DEF TypeInv, TypeOK, SaveVerdict, RescueSave, WriteFinal
<1>4. ReqInv'
  BY DEF TypeInv, ReqInv, SaveVerdict, RescueSave
<1> QED
  BY <1>2, <1>3, <1>4 DEF TypeInv, TypeOK, SaveVerdict, RescueSave

LEMMA EndJobType ==
  ASSUME TypeInv, NEW w \in Workers, EndJob(w)
  PROVE  TypeInv'
<1>1. worker' \in [Workers -> [pc : Busy, job : JobRec] \cup {Idle}]
  BY ReleaseWorker DEF EndJob
<1>2. ReqInv'
  BY DEF TypeInv, ReqInv, EndJob
<1> QED
  BY <1>1, <1>2 DEF TypeInv, TypeOK, EndJob

LEMMA LoseJobType ==
  ASSUME TypeInv, NEW w \in Workers, LoseJob(w)
  PROVE  TypeInv'
<1>1. worker[w].job.sub \in Subm
  BY BusyJob DEF LoseJob
<1>2. worker' \in [Workers -> [pc : Busy, job : JobRec] \cup {Idle}]
  BY ReleaseWorker DEF LoseJob
<1>3. ReqInv'
  BY DEF TypeInv, ReqInv, LoseJob
<1> QED
  BY <1>1, <1>2, <1>3 DEF TypeInv, TypeOK, LoseJob

\* The submissions with a job in a list.
LEMMA InList ==
  ASSUME NEW q \in Seq(JobRec), NEW d \in Seq(JobRec)
  PROVE  /\ {j.sub : j \in Range(q \o d)} \subseteq Subm
         /\ \A s : InSeq(s, q) # {} \/ InSeq(s, d) # {} => s \in {j.sub : j \in Range(q \o d)}
<1>1. Range(q \o d) = Range(q) \cup Range(d)
  BY RangeConcatenation
<1>2. Range(q) = {q[i] : i \in DOMAIN q} /\ Range(d) = {d[i] : i \in DOMAIN d}
  BY DEF Range
<1>3. /\ \A i \in DOMAIN q : q[i] \in JobRec
      /\ \A i \in DOMAIN d : d[i] \in JobRec
  BY ElementOfSeq, LenProperties
<1>4. \A j \in JobRec : j.sub \in Subm
  BY DEF JobRec
<1>5. Range(q \o d) \subseteq JobRec
  BY <1>1, <1>2, <1>3
<1>6. ASSUME NEW s, InSeq(s, q) # {} \/ InSeq(s, d) # {}
      PROVE  s \in {j.sub : j \in Range(q \o d)}
  BY <1>1, <1>2, <1>6 DEF InSeq
<1> QED
  BY <1>4, <1>5, <1>6

LEMMA RedisRestartsType ==
  ASSUME TypeInv, RedisRestarts
  PROVE  TypeInv'
<1>1. lost' \subseteq Subm
  BY InList DEF TypeInv, TypeOK, RedisRestarts
<1>2. queue' \in Seq(JobRec) /\ delayed' \in Seq(JobRec)
  BY EmptySeq DEF RedisRestarts
<1>3. ReqInv'
  BY DEF TypeInv, ReqInv, RedisRestarts
<1> QED
  BY <1>1, <1>2, <1>3 DEF TypeInv, TypeOK, RedisRestarts

LEMMA RunInQueueType ==
  ASSUME TypeInv, RunInQueue
  PROVE  TypeInv'
<1>1. rakes' \in 0..MaxRakes
  BY Bounds DEF TypeInv, TypeOK, RunInQueue
<1>2. rake' \subseteq Subm
  BY DEF RunInQueue
<1>3. ReqInv'
  BY DEF TypeInv, ReqInv, RunInQueue
<1> QED
  BY <1>1, <1>2, <1>3 DEF TypeInv, TypeOK, RunInQueue

LEMMA RunAgainType ==
  ASSUME TypeInv, NEW s \in Subm, RunAgain(s)
  PROVE  TypeInv'
<1>1. queue' \in Seq(JobRec)
  BY JobType, AppendJob DEF TypeInv, TypeOK, RunAgain
<1>2. ReqInv'
  BY DEF TypeInv, ReqInv, RunAgain
<1> QED
  BY <1>1, <1>2 DEF TypeInv, TypeOK, RunAgain

LEMMA DestroyType ==
  ASSUME TypeInv, NEW s \in Subm, DestroyCheck(s) \/ Destroy(s)
  PROVE  TypeInv'
<1>1. CASE DestroyCheck(s)
  BY <1>1 DEF TypeInv, TypeOK, ReqInv, DestroyCheck
<1>2. CASE Destroy(s)
  BY <1>2 DEF TypeInv, TypeOK, ReqInv, Destroy
<1> QED
  BY <1>1, <1>2

LEMMA TypeInvStep == TypeInv /\ [Next]_vars => TypeInv'
<1> SUFFICES ASSUME TypeInv, [Next]_vars PROVE TypeInv'
  OBVIOUS
<1>1. ASSUME NEW r \in Reqs, Admit(r) \/ ReqStep(r) \/ ServerDies(r) PROVE TypeInv'
  BY <1>1, AdmitType, SaveItemType, EnqueueItemType, PollType, ReloadType, ServerDiesType
     DEF ReqStep
<1>2. ASSUME NEW w \in Workers, WorkerStep(w) \/ LoseJob(w) PROVE TypeInv'
  BY <1>2, PopType, StartJobType, FindFailsType, SaveType, EndJobType, LoseJobType
     DEF WorkerStep
<1>3. ASSUME EnqueueDelayed \/ RedisRestarts \/ RunInQueue PROVE TypeInv'
  BY <1>3, EnqueueDelayedType, RedisRestartsType, RunInQueueType
<1>4. ASSUME NEW s \in Subm, RunAgain(s) \/ DestroyCheck(s) \/ Destroy(s) PROVE TypeInv'
  BY <1>4, RunAgainType, DestroyType
<1>5. CASE UNCHANGED vars
  BY <1>5 DEF TypeInv, TypeOK, ReqInv, vars
<1> QED
  BY <1>1, <1>2, <1>3, <1>4, <1>5 DEF Next

\* Every reachable state is typed: no request is at an item its batch does not
\* have, no job has used up more than its attempts, and what is lost or
\* deleted are submissions.
THEOREM TypesKept == Spec => []TypeOK
<1>1. Init => TypeInv
  BY TypeInvInit
<1>2. TypeInv /\ [Next]_vars => TypeInv'
  BY TypeInvStep
<1>3. TypeInv => TypeOK
  BY DEF TypeInv
<1> QED
  BY <1>1, <1>2, <1>3, PTL DEF Spec

-------------------------------------------------------------------------------
(* No submission is forgotten: JobAccounted.                               *)

\* The three places a job can be at until it ends, and the item a request is
\* enqueuing.
HasJob(s)    == InSeq(s, queue) # {} \/ InSeq(s, delayed) # {} \/ AtWork(s) # {}
Enqueuing(s) == At(s[1], "enqueue") /\ req[s[1]].item = s[2]

\* What a step of one worker does to the submissions that are at work.
LEMMA SetAtWork ==
  ASSUME TypeInv, NEW w \in Workers, NEW pc \in Busy, NEW j \in JobRec,
         Set(w, pc, j)
  PROVE  \A s : /\ w \in AtWork(s)' <=> j.sub = s
                /\ w \in Unsaved(s)' <=> j.sub = s /\ pc \in Working
                /\ \A v : v # w => /\ v \in AtWork(s)' <=> v \in AtWork(s)
                                   /\ v \in Unsaved(s)' <=> v \in Unsaved(s)
<1>1. /\ worker'[w] = [pc |-> pc, job |-> j]
      /\ \A v \in Workers \ {w} : worker'[v] = worker[v]
  BY SetWorker
<1>2. worker'[w].pc # "idle" /\ worker'[w].pc = pc /\ worker'[w].job = j
  BY <1>1 DEF Busy, Working
<1> QED
  BY <1>1, <1>2 DEF AtWork, Unsaved

LEMMA ReleaseAtWork ==
  ASSUME TypeInv, NEW w \in Workers, Release(w)
  PROVE  \A s : /\ w \notin AtWork(s)' /\ w \notin Unsaved(s)'
                /\ \A v : v # w => /\ v \in AtWork(s)' <=> v \in AtWork(s)
                                   /\ v \in Unsaved(s)' <=> v \in Unsaved(s)
<1>1. worker'[w] = Idle /\ \A v \in Workers \ {w} : worker'[v] = worker[v]
  BY ReleaseWorker
<1>2. worker'[w].pc = "idle"
  BY <1>1 DEF Idle
<1> QED
  BY <1>1, <1>2 DEF AtWork, Unsaved

\* A job is popped by an idle worker and moves from the queue to it.
LEMMA PopEffect ==
  ASSUME TypeInv, NEW w \in Workers, Pop(w)
  PROVE  /\ queue \in Seq(JobRec) /\ queue # <<>> /\ queue' = Tail(queue)
         /\ Head(queue) \in JobRec
         /\ \A s : /\ w \notin AtWork(s) /\ w \notin Unsaved(s)
                   /\ w \in AtWork(s)' <=> Head(queue).sub = s
                   /\ w \in Unsaved(s)' <=> Head(queue).sub = s
                   /\ \A v : v # w => /\ v \in AtWork(s)' <=> v \in AtWork(s)
                                      /\ v \in Unsaved(s)' <=> v \in Unsaved(s)
<1>1. queue \in Seq(JobRec) /\ queue # <<>> /\ queue' = Tail(queue) /\ worker[w].pc = "idle"
  BY DEF TypeInv, TypeOK, Pop
<1>2. Head(queue) \in JobRec /\ Set(w, "popped", Head(queue))
  BY <1>1, TailJob DEF Pop
<1>3. \A s : w \notin AtWork(s) /\ w \notin Unsaved(s)
  BY <1>1 DEF AtWork, Unsaved
<1> QED
  BY <1>1, <1>2, <1>3, SetAtWork DEF Busy, Working

\* StartJob leaves all jobs where they are.
LEMMA StartJobEffect ==
  ASSUME TypeInv, NEW w \in Workers, StartJob(w)
  PROVE  LET s == worker[w].job.sub IN
         /\ s \in Subm /\ w \in AtWork(s) /\ w \in Unsaved(s) /\ row[s] # "deleted"
         /\ row' = [row EXCEPT ![s] = "process"]
         /\ \A x : AtWork(x)' = AtWork(x) /\ Unsaved(x)' = Unsaved(x)
<1> DEFINE j == worker[w].job
<1>1. worker[w].pc = "popped" /\ Set(w, "running", j) /\ row[j.sub] # "deleted"
  BY DEF StartJob, Found
<1>2. j \in JobRec /\ j.sub \in Subm
  BY <1>1, BusyJob
<1>3. \A x : (w \in AtWork(x) <=> j.sub = x) /\ (w \in Unsaved(x) <=> j.sub = x)
  BY <1>1 DEF AtWork, Unsaved, Working
<1> HIDE DEF j
<1>4. \A x : /\ (w \in AtWork(x)' <=> j.sub = x) /\ (w \in Unsaved(x)' <=> j.sub = x)
             /\ \A v : v # w => /\ v \in AtWork(x)' <=> v \in AtWork(x)
                                /\ v \in Unsaved(x)' <=> v \in Unsaved(x)
  BY <1>1, <1>2, SetAtWork DEF Busy, Working
<1>5. \A x : AtWork(x)' = AtWork(x) /\ Unsaved(x)' = Unsaved(x)
  BY <1>3, <1>4
<1> QED
  BY <1>1, <1>2, <1>3, <1>5 DEF StartJob, j

\* A job that saves, or saves again, changes its own row only and goes on.
LEMMA SaveEffect ==
  ASSUME TypeInv, NEW w \in Workers, SaveVerdict(w) \/ RescueSave(w)
  PROVE  LET c == worker[w].job.sub IN
         /\ c \in Subm /\ w \in AtWork(c)
         /\ UNCHANGED <<queue, delayed, req, lost, rake, rakes, deleting>>
         /\ row' = IF row[c] = "deleted" THEN row ELSE [row EXCEPT ![c] = "final"]
         /\ row'[c] = IF row[c] = "deleted" THEN "deleted" ELSE "final"
         /\ \A s \in Subm : s # c => row'[s] = row[s]
         /\ \A s : /\ AtWork(s)' = AtWork(s) /\ w \notin Unsaved(s)'
                   /\ \A v : v # w => (v \in Unsaved(s)' <=> v \in Unsaved(s))
                   /\ s # c => Unsaved(s)' = Unsaved(s)
<1> DEFINE j == worker[w].job
           c == j.sub
<1>1. /\ worker[w].pc # "idle" /\ (Set(w, "saved", j) \/ Set(w, "calling", j))
      /\ UNCHANGED <<queue, delayed, req, lost, rake, rakes, deleting>>
      /\ row' = IF row[c] = "deleted" THEN row ELSE [row EXCEPT ![c] = "final"]
  BY DEF SaveVerdict, RescueSave, WriteFinal
<1>2. j \in JobRec /\ c \in Subm
  BY <1>1, BusyJob
<1>3. /\ row'[c] = IF row[c] = "deleted" THEN "deleted" ELSE "final"
      /\ \A s \in Subm : s # c => row'[s] = row[s]
  BY <1>1, <1>2 DEF TypeInv, TypeOK
<1>4. \A s : (w \in AtWork(s) <=> c = s) /\ (s # c => w \notin Unsaved(s))
  BY <1>1 DEF AtWork, Unsaved
<1> HIDE DEF j, c
<1>5. \A s : /\ (w \in AtWork(s)' <=> j.sub = s) /\ w \notin Unsaved(s)'
             /\ \A v : v # w => /\ v \in AtWork(s)' <=> v \in AtWork(s)
                                /\ v \in Unsaved(s)' <=> v \in Unsaved(s)
  BY <1>1, <1>2, SetAtWork DEF Busy, Working
<1>7. \A s : /\ w \in AtWork(s)' <=> w \in AtWork(s)
             /\ s # c => w \notin Unsaved(s) /\ w \notin Unsaved(s)'
  BY <1>4, <1>5 DEF c
<1>6. \A s : AtWork(s)' = AtWork(s) /\ (s # c => Unsaved(s)' = Unsaved(s))
  <2> SUFFICES ASSUME NEW s
               PROVE  AtWork(s)' = AtWork(s) /\ (s # c => Unsaved(s)' = Unsaved(s))
    OBVIOUS
  <2>1. \A v : v \in AtWork(s)' <=> v \in AtWork(s)
    BY <1>5, <1>7
  <2>2. s # c => \A v : v \in Unsaved(s)' <=> v \in Unsaved(s)
    BY <1>5, <1>7
  <2>3. AtWork(s)' = AtWork(s)
    BY <2>1
  <2> QED
    BY <2>2, <2>3
<1> QED
  BY <1>1, <1>2, <1>3, <1>4, <1>5, <1>6 DEF j, c

\* What is in a list after a job is put at its end or taken off its front.
LEMMA AppendHas ==
  ASSUME NEW q \in Seq(JobRec), NEW j \in JobRec
  PROVE  \A s : InSeq(s, Append(q, j)) # {} <=> InSeq(s, q) # {} \/ j.sub = s
<1>1. \A s : InSeq(s, Append(q, j)) =
               InSeq(s, q) \cup (IF j.sub = s THEN {Len(q) + 1} ELSE {})
  BY AppendJob
<1> QED
  BY <1>1

LEMMA TailHas ==
  ASSUME NEW q \in Seq(JobRec), q # <<>>
  PROVE  \A s : InSeq(s, q) # {} <=> InSeq(s, Tail(q)) # {} \/ Head(q).sub = s
<1>1. ASSUME NEW s, InSeq(s, q) # {}, Head(q).sub # s
      PROVE  InSeq(s, Tail(q)) # {}
  <2>1. PICK i : i \in InSeq(s, q)
    BY <1>1
  <2>2. i # 1
    BY <1>1, <2>1, TailJob
  <2> QED
    BY <2>1, <2>2, TailJob
<1>2. ASSUME NEW s, InSeq(s, Tail(q)) # {}
      PROVE  InSeq(s, q) # {}
  <2>1. PICK i : i \in InSeq(s, Tail(q))
    BY <1>2
  <2> QED
    BY <2>1, TailJob
<1>3. InSeq(Head(q).sub, q) # {}
  BY TailJob
<1> QED
  BY <1>1, <1>2, <1>3

LEMMA SubmParts ==
  \A s \in Subm : s[1] \in Reqs /\ s[2] \in 1..MaxBatch /\ s = <<s[1], s[2]>>
  BY DEF Subm

\* JobAccounted of one submission, and of all.
Accounted(s) ==
  row[s] \in {"queue", "process"} /\ s \notin lost => ToDo(s) \/ Enqueuing(s)

LEMMA AccountedEach == JobAccounted <=> \A s \in Subm : Accounted(s)
  BY DEF JobAccounted, Accounted, ToDo, Enqueuing

LEMMA AccountedNext ==
  ASSUME \A s \in Subm : Accounted(s)'
  PROVE  JobAccounted'
  BY DEF JobAccounted, Accounted, ToDo, Enqueuing

\* A step that keeps rows, lists and workers accounts for all, when it loses
\* nothing without saying so.
LEMMA QuietAccounted ==
  ASSUME JobAccounted, UNCHANGED <<row, queue, delayed, worker>>, lost \subseteq lost',
         \A s \in Subm : Enqueuing(s) => Enqueuing(s)' \/ s \in lost'
  PROVE  JobAccounted'
<1>1. \A s : ToDo(s)' <=> ToDo(s)
  BY DEF ToDo, InSeq, AtWork, Unsaved
<1>2. \A s \in Subm : Accounted(s) /\ (Enqueuing(s) => Enqueuing(s)' \/ s \in lost')
  BY AccountedEach
<1>3. \A s \in Subm : Accounted(s)'
  BY <1>1, <1>2 DEF Accounted
<1> QED
  BY <1>3, AccountedNext

\* A request that is not at an enqueue changes nothing of what is enqueued.
LEMMA NotEnqueuing ==
  ASSUME NEW r \in Reqs, OnlyReq(r), req[r].pc # "enqueue"
  PROVE  \A s \in Subm : Enqueuing(s) => Enqueuing(s)'
  BY SubmParts DEF Enqueuing, At, OnlyReq

LEMMA AdmitAccounted ==
  ASSUME TypeInv, JobAccounted, NEW r \in Reqs, Admit(r)
  PROVE  JobAccounted'
<1>1. OnlyReq(r) /\ req[r].pc # "enqueue"
  BY AdmitEffect
<1> QED
  BY <1>1, NotEnqueuing, QuietAccounted DEF Admit

LEMMA SaveItemAccounted ==
  ASSUME TypeInv, JobAccounted, NEW r \in Reqs, SaveItem(r)
  PROVE  JobAccounted'
<1> DEFINE c == <<r, req[r].item>>
<1>1. OnlyReq(r) /\ req[r].pc = "save" /\ UNCHANGED <<queue, delayed, worker, lost>>
  BY SaveItemEffect DEF SaveItem
<1>2. CASE row' = row
  BY <1>1, <1>2, NotEnqueuing, QuietAccounted
<1>3. CASE /\ row' = [row EXCEPT ![c] = "queue"] /\ req'[r].pc = "enqueue"
           /\ req'[r].item = req[r].item
  <2>1. \A s : ToDo(s)' <=> ToDo(s)
    BY <1>1 DEF ToDo, InSeq, AtWork, Unsaved
  <2>2. \A s \in Subm : s # c => row'[s] = row[s]
    BY <1>3 DEF TypeInv, TypeOK
  <2>3. \A s \in Subm : Enqueuing(s) => Enqueuing(s)'
    BY <1>1, NotEnqueuing
  <2>4. \A s : s = c => Enqueuing(s)'
    BY <1>3 DEF Enqueuing, At
  <2>5. \A s \in Subm : Accounted(s)'
    BY <1>1, <2>1, <2>2, <2>3, <2>4, AccountedEach DEF Accounted
  <2> QED
    BY <2>5, AccountedNext
<1> QED
  BY <1>2, <1>3, SaveItemEffect DEF SameData

\* The submission a request is enqueuing.
LEMMA EnqueuingItem ==
  ASSUME NEW r \in Reqs, OnlyReq(r)
  PROVE  \A s \in Subm : Enqueuing(s) => Enqueuing(s)' \/ s = <<r, req[r].item>>
  BY SubmParts DEF Enqueuing, At, OnlyReq

LEMMA EnqueueItemAccounted ==
  ASSUME TypeInv, JobAccounted, NEW r \in Reqs, EnqueueItem(r)
  PROVE  JobAccounted'
<1> DEFINE c == <<r, req[r].item>>
<1>1. OnlyReq(r) /\ req[r].pc = "enqueue" /\ UNCHANGED <<row, delayed, worker>>
  BY EnqueueItemEffect DEF EnqueueItem
<1>2. c \in Subm
  BY <1>1, ItemAt DEF Serving
<1>3. \A s \in Subm : Enqueuing(s) => Enqueuing(s)' \/ s = c
  BY <1>1, EnqueuingItem
<1>4. CASE queue' = queue /\ lost' = lost \cup {c}
  BY <1>1, <1>3, <1>4, QuietAccounted
<1>5. CASE queue' = Append(queue, Job(c)) /\ lost' = lost
  <2>1. queue \in Seq(JobRec) /\ Job(c) \in JobRec /\ Job(c).sub = c
    BY <1>2, JobType DEF TypeInv, TypeOK, Job
  <2>2. \A s : InSeq(s, queue') # {} <=> InSeq(s, queue) # {} \/ c = s
    BY <1>5, <2>1, AppendHas
  <2>3. \A s : ToDo(s) \/ s = c => ToDo(s)'
    BY <1>1, <2>2 DEF ToDo, AtWork, Unsaved, InSeq
  <2>4. \A s \in Subm : Accounted(s)'
    BY <1>1, <1>3, <1>5, <2>3, AccountedEach DEF Accounted
  <2> QED
    BY <2>4, AccountedNext
<1> QED
  BY <1>4, <1>5, EnqueueItemEffect

LEMMA PollsAccounted ==
  ASSUME TypeInv, JobAccounted, NEW r \in Reqs, Poll(r) \/ Reload(r)
  PROVE  JobAccounted'
<1>1. OnlyReq(r) /\ req[r].pc # "enqueue"
  BY PollEffect, ReloadEffect
<1>2. UNCHANGED <<row, queue, delayed, worker, lost>>
  BY DEF Poll, Reload
<1> QED
  BY <1>1, <1>2, NotEnqueuing, QuietAccounted

LEMMA ServerDiesAccounted ==
  ASSUME TypeInv, JobAccounted, NEW r \in Reqs, ServerDies(r)
  PROVE  JobAccounted'
<1>1. /\ OnlyReq(r)
      /\ lost' = IF req[r].pc = "enqueue" THEN lost \cup {<<r, req[r].item>>} ELSE lost
  BY ServerDiesEffect
<1>2. UNCHANGED <<row, queue, delayed, worker>>
  BY DEF ServerDies
<1>3. \A s \in Subm : Enqueuing(s) => Enqueuing(s)' \/ s \in lost'
  <2>1. CASE req[r].pc = "enqueue"
    BY <1>1, <2>1, EnqueuingItem
  <2>2. CASE req[r].pc # "enqueue"
    BY <1>1, <2>2, NotEnqueuing
  <2> QED
    BY <2>1, <2>2
<1> QED
  BY <1>1, <1>2, <1>3, QuietAccounted

\* A step of a worker or an operator: no request moves.
LEMMA WorkAccounted ==
  ASSUME JobAccounted, req' = req, lost \subseteq lost',
         \A s \in Subm : row'[s] \in {"queue", "process"} /\ s \notin lost' =>
                           ToDo(s)' \/ (~ToDo(s) /\ row[s] \in {"queue", "process"})
  PROVE  JobAccounted'
<1>1. \A s : Enqueuing(s)' <=> Enqueuing(s)
  BY DEF Enqueuing, At
<1>2. \A s \in Subm : Accounted(s)'
  BY <1>1, AccountedEach DEF Accounted
<1> QED
  BY <1>2, AccountedNext

LEMMA PopAccounted ==
  ASSUME TypeInv, JobAccounted, NEW w \in Workers, Pop(w)
  PROVE  JobAccounted'
<1>1. /\ queue \in Seq(JobRec) /\ queue # <<>> /\ queue' = Tail(queue)
      /\ \A s : /\ w \in Unsaved(s)' <=> Head(queue).sub = s
                /\ \A v : v # w => (v \in Unsaved(s)' <=> v \in Unsaved(s))
                /\ w \notin Unsaved(s)
  BY PopEffect
<1>2. \A s : InSeq(s, queue) # {} <=> InSeq(s, queue') # {} \/ Head(queue).sub = s
  BY <1>1, TailHas
<1>3. \A s : ToDo(s) => ToDo(s)'
  BY <1>1, <1>2 DEF ToDo, Pop, InSeq
<1> QED
  BY <1>3, WorkAccounted DEF Pop

LEMMA StartJobAccounted ==
  ASSUME TypeInv, JobAccounted, NEW w \in Workers, StartJob(w)
  PROVE  JobAccounted'
<1> DEFINE c == worker[w].job.sub
<1>1. /\ c \in Subm /\ w \in Unsaved(c) /\ row' = [row EXCEPT ![c] = "process"]
      /\ \A x : Unsaved(x)' = Unsaved(x)
  BY StartJobEffect
<1>2. \A s \in Subm : s # c => row'[s] = row[s]
  BY <1>1 DEF TypeInv, TypeOK
<1>3. \A s : ToDo(s)' <=> ToDo(s)
  BY <1>1 DEF ToDo, InSeq, StartJob
<1>4. \A s : s = c => ToDo(s)
  BY <1>1 DEF ToDo
<1>5. req' = req /\ lost' = lost
  BY DEF StartJob
<1>6. ASSUME NEW s \in Subm, row'[s] \in {"queue", "process"}
      PROVE  ToDo(s)' \/ (~ToDo(s) /\ row[s] \in {"queue", "process"})
  <2>1. CASE s = c
    BY <1>3, <1>4, <2>1
  <2>2. CASE s # c
    BY <1>2, <1>3, <1>6, <2>2
  <2> QED
    BY <2>1, <2>2
<1> QED
  BY <1>5, <1>6, WorkAccounted

LEMMA FindFailsAccounted ==
  ASSUME TypeInv, JobAccounted, NEW w \in Workers, FindFails(w)
  PROVE  JobAccounted'
<1> DEFINE job == worker[w].job
           next == [job EXCEPT !.tries = @ + 1]
<1>1. /\ worker[w].pc = "popped" /\ Release(w)
      /\ \/ delayed' = Append(delayed, next) /\ lost' = lost /\ next \in JobRec
         \/ delayed' = delayed /\ lost' = lost \cup {job.sub}
  BY FindFailsEffect
<1>2. delayed \in Seq(JobRec) /\ next.sub = job.sub
  BY BusyJob DEF TypeInv, TypeOK, FindFails, JobRec
<1>3. \A s : s # job.sub => w \notin Unsaved(s)
  BY DEF AtWork, Unsaved
<1> HIDE DEF next
<1>4. \A s : s # job.sub => (Unsaved(s) # {} => Unsaved(s)' # {})
  BY <1>1, <1>3, ReleaseAtWork
<1>5. CASE delayed' = Append(delayed, next) /\ lost' = lost /\ next \in JobRec
  <2>1. \A s : InSeq(s, delayed') # {} <=> InSeq(s, delayed) # {} \/ next.sub = s
    BY <1>2, <1>5, AppendHas
  <2>2. \A s : ToDo(s) => ToDo(s)'
    BY <1>2, <1>4, <2>1 DEF ToDo, InSeq, FindFails
  <2> QED
    BY <1>5, <2>2, WorkAccounted DEF FindFails
<1>6. CASE delayed' = delayed /\ lost' = lost \cup {job.sub}
  <2>1. \A s : s # job.sub /\ ToDo(s) => ToDo(s)'
    BY <1>4, <1>6 DEF ToDo, InSeq, FindFails
  <2> QED
    BY <1>6, <2>1, WorkAccounted DEF FindFails
<1> QED
  BY <1>1, <1>5, <1>6

LEMMA EnqueueDelayedAccounted ==
  ASSUME TypeInv, JobAccounted, EnqueueDelayed
  PROVE  JobAccounted'
<1>1. /\ queue \in Seq(JobRec) /\ delayed \in Seq(JobRec) /\ delayed # <<>>
      /\ queue' = Append(queue, Head(delayed)) /\ delayed' = Tail(delayed)
  BY DEF TypeInv, TypeOK, EnqueueDelayed
<1>2. Head(delayed) \in JobRec
  BY <1>1, TailJob
<1>3. \A s : InSeq(s, queue') # {} <=> InSeq(s, queue) # {} \/ Head(delayed).sub = s
  BY <1>1, <1>2, AppendHas
<1>4. \A s : InSeq(s, delayed) # {} <=> InSeq(s, delayed') # {} \/ Head(delayed).sub = s
  BY <1>1, TailHas
<1>5. \A s : ToDo(s) => ToDo(s)'
  BY <1>3, <1>4 DEF ToDo, InSeq, AtWork, Unsaved, EnqueueDelayed
<1> QED
  BY <1>5, WorkAccounted DEF EnqueueDelayed

\* A worker that lets its job go, done or lost.
LEMMA LeaveAccounted ==
  ASSUME TypeInv, NEW w \in Workers, Release(w), queue' = queue, delayed' = delayed
  PROVE  \A s : ToDo(s) /\ worker[w].job.sub # s => ToDo(s)'
<1>1. \A s : s # worker[w].job.sub => w \notin Unsaved(s)
  BY DEF AtWork, Unsaved
<1>2. \A s : s # worker[w].job.sub => (Unsaved(s) # {} => Unsaved(s)' # {})
  BY <1>1, ReleaseAtWork
<1> QED
  BY <1>2 DEF ToDo, InSeq

LEMMA SaveAccounted ==
  ASSUME TypeInv, JobAccounted, NEW w \in Workers, SaveVerdict(w) \/ RescueSave(w)
  PROVE  JobAccounted'
<1> DEFINE c == worker[w].job.sub
<1>1. /\ c \in Subm /\ UNCHANGED <<queue, delayed, req, lost>>
      /\ \A s \in Subm : s # c => row'[s] = row[s] /\ (ToDo(s) => ToDo(s)')
      /\ row'[c] \notin {"queue", "process"}
  BY SaveEffect DEF ToDo, InSeq
<1>2. ASSUME NEW s \in Subm, row'[s] \in {"queue", "process"}
      PROVE  ToDo(s)' \/ (~ToDo(s) /\ row[s] \in {"queue", "process"})
  BY <1>1, <1>2
<1> QED
  BY <1>1, <1>2, WorkAccounted

\* A job that ends has saved.
LEMMA EndJobAccounted ==
  ASSUME TypeInv, JobAccounted, NEW w \in Workers, EndJob(w)
  PROVE  JobAccounted'
<1>1. \A s : w \notin Unsaved(s)
  BY DEF EndJob, Unsaved, Working
<1>2. \A s : Unsaved(s)' = Unsaved(s)
  BY <1>1, ReleaseAtWork DEF EndJob
<1>3. \A s : ToDo(s)' <=> ToDo(s)
  BY <1>2 DEF ToDo, InSeq, EndJob
<1> QED
  BY <1>3, WorkAccounted DEF EndJob

LEMMA LoseJobAccounted ==
  ASSUME TypeInv, JobAccounted, NEW w \in Workers, LoseJob(w)
  PROVE  JobAccounted'
<1>1. \A s : ToDo(s) /\ worker[w].job.sub # s => ToDo(s)'
  BY LeaveAccounted DEF LoseJob
<1>2. CASE worker[w].pc \in Working
  BY <1>1, <1>2, WorkAccounted DEF LoseJob
<1>3. CASE worker[w].pc \notin Working
  <2>1. \A s : w \notin Unsaved(s)
    BY <1>3 DEF Unsaved
  <2>2. \A s : Unsaved(s)' = Unsaved(s)
    BY <2>1, ReleaseAtWork DEF LoseJob
  <2>3. \A s : ToDo(s)' <=> ToDo(s)
    BY <2>2 DEF ToDo, InSeq, LoseJob
  <2> QED
    BY <1>3, <2>3, WorkAccounted DEF LoseJob
<1> QED
  BY <1>2, <1>3

LEMMA RedisRestartsAccounted ==
  ASSUME TypeInv, JobAccounted, RedisRestarts
  PROVE  JobAccounted'
<1>1. \A s : InSeq(s, queue) # {} \/ InSeq(s, delayed) # {} => s \in lost'
  BY InList DEF TypeInv, TypeOK, RedisRestarts
<1>2. \A s : ToDo(s) => s \in lost' \/ ToDo(s)'
  BY <1>1 DEF ToDo, AtWork, Unsaved, RedisRestarts
<1> QED
  BY <1>2, WorkAccounted DEF RedisRestarts

LEMMA OperatorsAccounted ==
  ASSUME TypeInv, JobAccounted,
         RunInQueue \/ \E s \in Subm : RunAgain(s) \/ DestroyCheck(s) \/ Destroy(s)
  PROVE  JobAccounted'
<1>1. ASSUME RunInQueue \/ \E s \in Subm : DestroyCheck(s)
      PROVE  JobAccounted'
  <2>1. UNCHANGED <<row, req, queue, delayed, worker, lost>>
    BY <1>1 DEF RunInQueue, DestroyCheck
  <2>2. \A s \in Subm : Enqueuing(s) => Enqueuing(s)'
    BY <2>1 DEF Enqueuing, At
  <2> QED
    BY <2>1, <2>2, QuietAccounted
<1>2. ASSUME NEW s \in Subm, RunAgain(s) PROVE JobAccounted'
  <2>1. queue \in Seq(JobRec) /\ Job(s) \in JobRec /\ queue' = Append(queue, Job(s))
    BY <1>2, JobType DEF RunAgain, TypeInv, TypeOK
  <2>2. \A x : InSeq(x, queue) # {} => InSeq(x, queue') # {}
    BY <2>1, AppendHas
  <2>3. \A x : ToDo(x) => ToDo(x)'
    BY <1>2, <2>2 DEF ToDo, InSeq, AtWork, Unsaved, RunAgain
  <2> QED
    BY <1>2, <2>3, WorkAccounted DEF RunAgain
<1>3. ASSUME NEW s \in Subm, Destroy(s) PROVE JobAccounted'
  <2>1. \A x \in Subm : row'[x] \in {"queue", "process"} => row'[x] = row[x]
    BY <1>3 DEF Destroy, TypeInv, TypeOK
  <2>2. \A x : ToDo(x)' <=> ToDo(x)
    BY <1>3 DEF ToDo, InSeq, AtWork, Unsaved, Destroy
  <2> QED
    BY <1>3, <2>1, <2>2, WorkAccounted DEF Destroy
<1> QED
  BY <1>1, <1>2, <1>3

LEMMA AccountedStep == TypeInv /\ JobAccounted /\ [Next]_vars => JobAccounted'
<1> SUFFICES ASSUME TypeInv, JobAccounted, [Next]_vars PROVE JobAccounted'
  OBVIOUS
<1>1. ASSUME NEW r \in Reqs, Admit(r) \/ ReqStep(r) \/ ServerDies(r) PROVE JobAccounted'
  BY <1>1, AdmitAccounted, SaveItemAccounted, EnqueueItemAccounted, PollsAccounted,
     ServerDiesAccounted DEF ReqStep
<1>2. ASSUME NEW w \in Workers, WorkerStep(w) \/ LoseJob(w) PROVE JobAccounted'
  BY <1>2, PopAccounted, StartJobAccounted, FindFailsAccounted, SaveAccounted,
     EndJobAccounted, LoseJobAccounted DEF WorkerStep
<1>3. CASE EnqueueDelayed \/ RedisRestarts \/ RunInQueue
  BY <1>3, EnqueueDelayedAccounted, RedisRestartsAccounted, OperatorsAccounted
<1>4. ASSUME NEW s \in Subm, RunAgain(s) \/ DestroyCheck(s) \/ Destroy(s) PROVE JobAccounted'
  BY <1>4, OperatorsAccounted
<1>5. CASE UNCHANGED vars
  BY <1>5 DEF JobAccounted, ToDo, InSeq, AtWork, Unsaved, At, vars
<1> QED
  BY <1>1, <1>2, <1>3, <1>4, <1>5 DEF Next

\* A submission that is not done has a job in the queue, in the schedule or at
\* a worker, or is being enqueued, or one of its jobs was lost in a way the
\* model names: no other way exists for a token to be waited for in vain.
THEOREM NoJobForgotten == Spec => []JobAccounted
<1>1. Init => TypeInv /\ JobAccounted
  BY TypeInvInit DEF Init, JobAccounted
<1>2. TypeInv /\ JobAccounted /\ [Next]_vars => TypeInv' /\ JobAccounted'
  BY TypeInvStep, AccountedStep
<1> QED
  BY <1>1, <1>2, PTL DEF Spec

-------------------------------------------------------------------------------
(* Rows and the requests and jobs that know of them.                       *)

\* The items a request has not saved yet.
NotYet(s) ==
  \/ At(s[1], "new")
  \/ At(s[1], "save") /\ s[2] >= req[s[1]].item
  \/ At(s[1], "enqueue") /\ s[2] > req[s[1]].item

\* What is not saved has no row, what has a job or is about to get one has,
\* and only what was done is being deleted.
RowOf(s) ==
  /\ NotYet(s) => row[s] = "none"
  /\ (HasJob(s) \/ s \in rake \/ Enqueuing(s)) => row[s] # "none"
  /\ s \in deleting => row[s] \in {"final", "process"}

\* A creation that waits waits for a row.
SleepOf(r) == req[r].pc \in {"sleep", "reload"} => row[<<r, 1>>] # "none"

RowInv ==
  /\ \A s \in Subm : RowOf(s)
  /\ \A r \in Reqs : SleepOf(r)
  /\ rakes # 0 => "rake" \in Faults

\* A request only ever leaves items behind.
LEMMA NotYetShrinks ==
  ASSUME TypeInv, NEW r \in Reqs, OnlyReq(r),
         \/ req[r].pc = "new"
         \/ req[r].pc \in {"save", "enqueue"} /\ ItemFollows(r, req'[r])
         \/ /\ req[r].pc = "save" /\ req'[r].pc = "enqueue"
            /\ req'[r].item = req[r].item
         \/ req'[r].pc \notin {"new", "save", "enqueue"}
  PROVE  \A s \in Subm : NotYet(s)' => NotYet(s)
<1> SUFFICES ASSUME NEW s \in Subm, NotYet(s)' PROVE NotYet(s)
  OBVIOUS
<1>1. s[1] \in Reqs /\ s[2] \in Nat
  BY SubmParts, Bounds
<1>2. CASE s[1] # r
  BY <1>1, <1>2 DEF NotYet, At, OnlyReq
<1>3. CASE s[1] = r
  <2>1. req[r].item \in Nat
    BY Bounds DEF TypeInv, TypeOK, ReqRec
  <2>2. CASE req[r].pc \in {"save", "enqueue"} /\ ItemFollows(r, req'[r])
    <3>1. req'[r].pc = "save" /\ req'[r].item = req[r].item + 1
      BY <1>3, <2>2 DEF NotYet, At, ItemFollows
    <3>2. s[2] >= req[r].item + 1
      BY <1>3, <3>1 DEF NotYet, At
    <3> QED
      BY <1>1, <1>3, <2>1, <2>2, <3>2 DEF NotYet, At
  <2>3. CASE /\ req[r].pc = "save" /\ req'[r].pc = "enqueue"
             /\ req'[r].item = req[r].item
    BY <1>1, <1>3, <2>1, <2>3 DEF NotYet, At
  <2> QED
    BY <1>3, <2>2, <2>3 DEF NotYet, At
<1> QED
  BY <1>2, <1>3

\* A step that keeps rows, jobs and tasks, of a request that moves on.
LEMMA QuietRows ==
  ASSUME RowInv, UNCHANGED <<row, queue, delayed, worker, rake, rakes, deleting>>,
         \A s \in Subm : (NotYet(s)' => NotYet(s)) /\ (Enqueuing(s)' => Enqueuing(s)),
         \A r \in Reqs : SleepOf(r)'
  PROVE  RowInv'
<1>1. \A s : HasJob(s)' <=> HasJob(s)
  BY DEF HasJob, InSeq, AtWork
<1>2. \A s \in Subm : RowOf(s)'
  BY <1>1 DEF RowInv, RowOf
<1> QED
  BY <1>2 DEF RowInv

LEMMA SleepStep ==
  ASSUME RowInv, NEW r \in Reqs, OnlyReq(r), row' = row, SleepOf(r)'
  PROVE  \A q \in Reqs : SleepOf(q)'
  BY DEF RowInv, SleepOf, OnlyReq

\* Only SaveItem puts a request before an enqueue.
LEMMA EnqueuingOld ==
  ASSUME NEW r \in Reqs, OnlyReq(r), req'[r].pc # "enqueue"
  PROVE  \A s \in Subm : Enqueuing(s)' => Enqueuing(s)
  BY SubmParts DEF Enqueuing, At, OnlyReq

LEMMA AdmitRows ==
  ASSUME TypeInv, RowInv, NEW r \in Reqs, Admit(r)
  PROVE  RowInv'
<1>1. OnlyReq(r) /\ req[r].pc = "new" /\ req'[r].pc \in {"refused", "save"}
  BY AdmitEffect
<1>2. SleepOf(r)' /\ row' = row
  BY <1>1 DEF SleepOf, Admit
<1> QED
  BY <1>1, <1>2, NotYetShrinks, EnqueuingOld, SleepStep, QuietRows DEF Admit

\* The first and only item of a creation that waits.
LEMMA WaitItem ==
  ASSUME TypeInv, NEW r \in Reqs, req[r].pc \in Serving, Kind[r] = "wait"
  PROVE  req[r].item = 1
<1>1. Size[r] = 1 /\ req[r].item \in 1..Size[r]
  BY ItemAt, ServiceAssumption
<1> QED
  BY <1>1

LEMMA SaveItemRows ==
  ASSUME TypeInv, RowInv, NEW r \in Reqs, SaveItem(r)
  PROVE  RowInv'
<1> DEFINE c == <<r, req[r].item>>
<1>1. /\ OnlyReq(r) /\ req[r].pc = "save"
      /\ UNCHANGED <<queue, delayed, worker, rake, rakes, deleting>>
  BY SaveItemEffect DEF SaveItem
<1>2. CASE /\ row' = row
           /\ \/ Kind[r] = "batch" /\ ItemFollows(r, req'[r])
              \/ req'[r].pc \in {"answered", "failed"}
  <2>1. \A s \in Subm : NotYet(s)' => NotYet(s)
    BY <1>1, <1>2, NotYetShrinks
  <2>2. req'[r].pc \notin {"enqueue", "sleep", "reload"}
    BY <1>2 DEF ItemFollows
  <2>3. SleepOf(r)'
    BY <2>2 DEF SleepOf
  <2>4. \A q \in Reqs : SleepOf(q)'
    BY <1>1, <1>2, <2>3, SleepStep
  <2> QED
    BY <1>1, <1>2, <2>1, <2>2, <2>4, EnqueuingOld, QuietRows
<1>3. CASE /\ row' = [row EXCEPT ![c] = "queue"] /\ req'[r].pc = "enqueue"
           /\ req'[r].item = req[r].item
  <2>1. c \in Subm /\ row \in [Subm -> {"none", "queue", "process", "final", "deleted"}]
    BY <1>1, ItemAt DEF TypeInv, TypeOK, Serving
  <2>2. \A s \in Subm : row'[s] = IF s = c THEN "queue" ELSE row[s]
    BY <1>3, <2>1
  <2>3. \A s : HasJob(s)' <=> HasJob(s)
    BY <1>1 DEF HasJob, InSeq, AtWork
  <2>4. \A s \in Subm : NotYet(s)' => NotYet(s)
    BY <1>1, <1>3, NotYetShrinks
  <2>5. \A s \in Subm : s = c => ~NotYet(s)' /\ NotYet(s)
    <3>1. req[r].item \in Nat
      BY Bounds DEF TypeInv, TypeOK, ReqRec
    <3> QED
      BY <1>1, <1>3, <3>1 DEF NotYet, At
  <2>6. \A s \in Subm : Enqueuing(s)' => Enqueuing(s) \/ s = c
    BY <1>1, <1>3, SubmParts DEF Enqueuing, At, OnlyReq
  <2>7. ASSUME NEW s \in Subm PROVE RowOf(s)'
    <3>1. CASE s = c
      <4>1. row[s] = "none"
        BY <2>5, <3>1 DEF RowInv, RowOf
      <4>2. s \notin deleting
        BY <4>1 DEF RowInv, RowOf
      <4> QED
        BY <1>1, <2>2, <2>5, <3>1, <4>2 DEF RowOf
    <3>2. CASE s # c
      BY <1>1, <2>2, <2>3, <2>4, <2>6, <3>2 DEF RowInv, RowOf
    <3> QED
      BY <3>1, <3>2
  <2>8. ASSUME NEW q \in Reqs PROVE SleepOf(q)'
    <3>1. req'[q].pc \in {"sleep", "reload"} => req[q].pc \in {"sleep", "reload"}
      BY <1>1, <1>3 DEF OnlyReq
    <3> QED
      BY <2>2, <3>1, FirstItem DEF RowInv, SleepOf
  <2> QED
    BY <1>1, <2>7, <2>8 DEF RowInv
<1> QED
  BY <1>2, <1>3, SaveItemEffect DEF SameData

LEMMA EnqueueItemRows ==
  ASSUME TypeInv, RowInv, NEW r \in Reqs, EnqueueItem(r)
  PROVE  RowInv'
<1> DEFINE c == <<r, req[r].item>>
<1>1. /\ OnlyReq(r) /\ req[r].pc = "enqueue"
      /\ UNCHANGED <<row, delayed, worker, rake, rakes, deleting>>
  BY EnqueueItemEffect DEF EnqueueItem
<1>2. ItemFollows(r, req'[r]) \/ req'[r].pc = "failed"
  BY EnqueueItemEffect
<1>3. c \in Subm /\ row[c] # "none"
  <2>1. c \in Subm
    BY <1>1, ItemAt DEF Serving
  <2>2. Enqueuing(c)
    BY <1>1 DEF Enqueuing, At
  <2> QED
    BY <2>1, <2>2 DEF RowInv, RowOf
<1>4. \A s : HasJob(s)' => HasJob(s) \/ s = c
  <2>1. queue \in Seq(JobRec) /\ Job(c) \in JobRec /\ Job(c).sub = c
    BY <1>3, JobType DEF TypeInv, TypeOK, Job
  <2>2. queue' = queue \/ queue' = Append(queue, Job(c))
    BY EnqueueItemEffect
  <2>3. \A s : InSeq(s, queue') # {} => InSeq(s, queue) # {} \/ c = s
    BY <2>1, <2>2, AppendHas
  <2> QED
    BY <1>1, <2>3 DEF HasJob, AtWork, InSeq
<1>5. \A s \in Subm : NotYet(s)' => NotYet(s)
  BY <1>1, <1>2, NotYetShrinks
<1>6. \A s \in Subm : Enqueuing(s)' => Enqueuing(s)
  BY <1>1, <1>2, EnqueuingOld DEF ItemFollows
<1>7. ASSUME NEW s \in Subm PROVE RowOf(s)'
  BY <1>1, <1>3, <1>4, <1>5, <1>6 DEF RowInv, RowOf
<1>8. SleepOf(r)'
  <2>1. CASE req'[r].pc \in {"sleep", "reload"}
    <3>1. Kind[r] = "wait"
      BY <1>2, <2>1 DEF ItemFollows
    <3>2. c = <<r, 1>>
      BY <1>1, <3>1, WaitItem DEF Serving
    <3> QED
      BY <1>1, <1>3, <3>2 DEF SleepOf
  <2>2. CASE req'[r].pc \notin {"sleep", "reload"}
    BY <2>2 DEF SleepOf
  <2> QED
    BY <2>1, <2>2
<1>9. \A q \in Reqs : SleepOf(q)'
  BY <1>1, <1>8, SleepStep
<1> QED
  BY <1>1, <1>7, <1>9 DEF RowInv

LEMMA PollsRows ==
  ASSUME TypeInv, RowInv, NEW r \in Reqs, Poll(r) \/ Reload(r) \/ ServerDies(r)
  PROVE  RowInv'
<1>1. UNCHANGED <<row, queue, delayed, worker, rake, rakes, deleting>>
  BY DEF Poll, Reload, ServerDies
<1>2. /\ OnlyReq(r) /\ req'[r].pc \in {"sleep", "reload", "answered", "failed"}
      /\ req'[r].pc \in {"sleep", "reload"} => req[r].pc \in {"sleep", "reload"}
  BY PollEffect, ReloadEffect, ServerDiesEffect
<1>3. SleepOf(r)'
  BY <1>1, <1>2 DEF RowInv, SleepOf
<1>4. req'[r].pc \notin {"new", "save", "enqueue"}
  BY <1>2
<1> QED
  BY <1>1, <1>2, <1>3, <1>4, NotYetShrinks, EnqueuingOld, SleepStep, QuietRows

\* What workers, the scheduler and a restart do makes no job for a submission
\* that had none.
LEMMA NoNewJobs ==
  ASSUME TypeInv,
         \/ \E w \in Workers : WorkerStep(w) \/ LoseJob(w)
         \/ EnqueueDelayed \/ RedisRestarts
  PROVE  \A s : HasJob(s)' => HasJob(s)
<1>1. ASSUME NEW w \in Workers, Pop(w)
      PROVE  \A s : HasJob(s)' => HasJob(s)
  <2>1. /\ queue \in Seq(JobRec) /\ queue # <<>> /\ queue' = Tail(queue)
        /\ \A s : /\ w \in AtWork(s)' <=> Head(queue).sub = s
                  /\ \A v : v # w => (v \in AtWork(s)' <=> v \in AtWork(s))
    BY <1>1, PopEffect
  <2>2. \A s : InSeq(s, queue) # {} <=> InSeq(s, queue') # {} \/ Head(queue).sub = s
    BY <2>1, TailHas
  <2>3. \A s : AtWork(s)' # {} => AtWork(s) # {} \/ Head(queue).sub = s
    BY <2>1
  <2> QED
    BY <1>1, <2>2, <2>3 DEF HasJob, InSeq, Pop
<1>2. ASSUME NEW w \in Workers, StartJob(w)
      PROVE  \A s : HasJob(s)' => HasJob(s)
  BY <1>2, StartJobEffect DEF HasJob, InSeq, StartJob
<1>3. ASSUME NEW w \in Workers, FindFails(w)
      PROVE  \A s : HasJob(s)' => HasJob(s)
  <2> DEFINE job == worker[w].job
             next == [job EXCEPT !.tries = @ + 1]
  <2>1. /\ Release(w)
        /\ \/ delayed' = Append(delayed, next) /\ next \in JobRec
           \/ delayed' = delayed
    BY <1>3, FindFailsEffect
  <2>2. delayed \in Seq(JobRec) /\ next.sub = job.sub
    BY <1>3, BusyJob DEF TypeInv, TypeOK, FindFails, JobRec
  <2>3. \A s : s = job.sub => AtWork(s) # {}
    BY <1>3 DEF AtWork, FindFails
  <2> HIDE DEF next
  <2>4. \A s : InSeq(s, delayed') # {} => InSeq(s, delayed) # {} \/ job.sub = s
    BY <2>1, <2>2, AppendHas
  <2>5. \A s : AtWork(s)' # {} => AtWork(s) # {}
    BY <2>1, ReleaseAtWork
  <2> QED
    BY <1>3, <2>3, <2>4, <2>5 DEF HasJob, InSeq, FindFails
<1>7. ASSUME NEW w \in Workers, SaveVerdict(w) \/ RescueSave(w)
      PROVE  \A s : HasJob(s)' => HasJob(s)
  BY <1>7, SaveEffect DEF HasJob, InSeq
<1>4. ASSUME NEW w \in Workers, EndJob(w) \/ LoseJob(w)
      PROVE  \A s : HasJob(s)' => HasJob(s)
  <2>1. Release(w) /\ queue' = queue /\ delayed' = delayed
    BY <1>4 DEF EndJob, LoseJob
  <2>2. \A s : AtWork(s)' # {} => AtWork(s) # {}
    BY <2>1, ReleaseAtWork
  <2> QED
    BY <2>1, <2>2 DEF HasJob, InSeq
<1>5. ASSUME EnqueueDelayed
      PROVE  \A s : HasJob(s)' => HasJob(s)
  <2>1. /\ queue \in Seq(JobRec) /\ delayed \in Seq(JobRec) /\ delayed # <<>>
        /\ queue' = Append(queue, Head(delayed)) /\ delayed' = Tail(delayed)
    BY <1>5 DEF TypeInv, TypeOK, EnqueueDelayed
  <2>2. Head(delayed) \in JobRec
    BY <2>1, TailJob
  <2>3. \A s : InSeq(s, queue') # {} <=> InSeq(s, queue) # {} \/ Head(delayed).sub = s
    BY <2>1, <2>2, AppendHas
  <2>4. \A s : InSeq(s, delayed) # {} <=> InSeq(s, delayed') # {} \/ Head(delayed).sub = s
    BY <2>1, TailHas
  <2> QED
    BY <1>5, <2>3, <2>4 DEF HasJob, InSeq, AtWork, EnqueueDelayed
<1>6. ASSUME RedisRestarts
      PROVE  \A s : HasJob(s)' => HasJob(s)
  <2>1. \A s : InSeq(s, queue') = {} /\ InSeq(s, delayed') = {}
    BY <1>6 DEF InSeq, RedisRestarts
  <2> QED
    BY <1>6, <2>1 DEF HasJob, AtWork, InSeq, RedisRestarts
<1> QED
  BY <1>1, <1>2, <1>3, <1>4, <1>5, <1>6, <1>7 DEF WorkerStep

\* A step that moves no request.
LEMMA WorkRows ==
  ASSUME TypeInv, RowInv, req' = req, rakes' # 0 => "rake" \in Faults,
         \A s \in Subm :
           /\ row'[s] = "none" <=> row[s] = "none"
           /\ HasJob(s)' \/ s \in rake' => HasJob(s) \/ s \in rake \/ row[s] # "none"
           /\ s \in deleting' => row'[s] \in {"final", "process"}
  PROVE  RowInv'
<1>1. \A s : /\ NotYet(s)' <=> NotYet(s)
             /\ Enqueuing(s)' <=> Enqueuing(s)
  BY DEF NotYet, Enqueuing, At
<1>2. \A s \in Subm : RowOf(s)'
  BY <1>1 DEF RowInv, RowOf
<1>3. \A r \in Reqs : SleepOf(r)'
  BY FirstItem DEF RowInv, SleepOf
<1> QED
  BY <1>2, <1>3 DEF RowInv

\* A worker changes only the row of the job it has, which exists.
LEMMA WorkerRow ==
  ASSUME TypeInv, RowInv, NEW w \in Workers, WorkerStep(w) \/ LoseJob(w)
  PROVE  \A s \in Subm :
           /\ row'[s] = "none" <=> row[s] = "none"
           /\ s \in deleting => row'[s] \in {"final", "process"}
<1> DEFINE c == worker[w].job.sub
<1>1. CASE row' = row
  BY <1>1 DEF RowInv, RowOf
<1>2. CASE StartJob(w) \/ SaveVerdict(w) \/ RescueSave(w)
  <2>1. c \in Subm /\ w \in AtWork(c)
    BY <1>2, StartJobEffect, SaveEffect
  <2>2. row[c] # "none"
    BY <2>1 DEF RowInv, RowOf, HasJob
  <2>3. /\ \A s \in Subm : s # c => row'[s] = row[s]
        /\ row'[c] \in {"process", "final", row[c]} \ {"none"}
    BY <1>2, <2>1, <2>2 DEF StartJob, SaveVerdict, RescueSave, WriteFinal, TypeInv, TypeOK
  <2> QED
    BY <2>2, <2>3 DEF RowInv, RowOf
<1> QED
  BY <1>1, <1>2 DEF WorkerStep, Pop, FindFails, EndJob, LoseJob

LEMMA WorkersRows ==
  ASSUME TypeInv, RowInv, NEW w \in Workers, WorkerStep(w) \/ LoseJob(w)
  PROVE  RowInv'
<1>1. UNCHANGED <<req, rake, rakes, deleting>>
  BY DEF WorkerStep, LoseJob, Pop, StartJob, FindFails, SaveVerdict, RescueSave, EndJob
<1>2. rakes' # 0 => "rake" \in Faults
  BY <1>1 DEF RowInv
<1>3. \A s : HasJob(s)' => HasJob(s)
  BY NoNewJobs
<1> QED
  BY <1>1, <1>2, <1>3, WorkerRow, WorkRows

LEMMA RedisRows ==
  ASSUME TypeInv, RowInv, EnqueueDelayed \/ RedisRestarts
  PROVE  RowInv'
<1>1. UNCHANGED <<req, row, rake, rakes, deleting>>
  BY DEF EnqueueDelayed, RedisRestarts
<1>2. \A s \in Subm : s \in deleting' => row'[s] \in {"final", "process"}
  BY <1>1 DEF RowInv, RowOf
<1>3. rakes' # 0 => "rake" \in Faults
  BY <1>1 DEF RowInv
<1>4. \A s : HasJob(s)' => HasJob(s)
  BY NoNewJobs
<1> QED
  BY <1>1, <1>2, <1>3, <1>4, WorkRows

\* What the operators do to the jobs: only run_in_queue makes new ones.
LEMMA OperatorJobs ==
  ASSUME TypeInv,
         \/ RunInQueue /\ UNCHANGED <<queue, delayed, worker>>
         \/ \E s \in Subm : RunAgain(s) \/ DestroyCheck(s) \/ Destroy(s)
  PROVE  \A x : HasJob(x)' => HasJob(x) \/ x \in rake
<1>1. CASE UNCHANGED <<queue, delayed, worker>>
  BY <1>1 DEF HasJob, InSeq, AtWork
<1>2. ASSUME NEW s \in Subm, RunAgain(s)
      PROVE  \A x : HasJob(x)' => HasJob(x) \/ x \in rake
  <2>1. /\ queue \in Seq(JobRec) /\ Job(s) \in JobRec /\ Job(s).sub = s
        /\ queue' = Append(queue, Job(s)) /\ s \in rake
    BY <1>2, JobType DEF RunAgain, TypeInv, TypeOK, Job
  <2>2. \A x : InSeq(x, queue') # {} => InSeq(x, queue) # {} \/ s = x
    BY <2>1, AppendHas
  <2> QED
    BY <1>2, <2>1, <2>2 DEF HasJob, InSeq, AtWork, RunAgain
<1> QED
  BY <1>1, <1>2 DEF RunInQueue, DestroyCheck, Destroy

LEMMA OperatorsRows ==
  ASSUME TypeInv, RowInv,
         RunInQueue \/ \E s \in Subm : RunAgain(s) \/ DestroyCheck(s) \/ Destroy(s)
  PROVE  RowInv'
<1>1. \A x : HasJob(x)' => HasJob(x) \/ x \in rake
  BY OperatorJobs DEF RunInQueue
<1>2. CASE RunInQueue
  <2>1. \A s \in Subm : s \in rake' => row[s] # "none"
    BY <1>2 DEF RunInQueue
  <2>2. \A s \in Subm : s \in deleting' => row'[s] \in {"final", "process"}
    BY <1>2 DEF RowInv, RowOf, RunInQueue
  <2>3. "rake" \in Faults /\ req' = req /\ row' = row
    BY <1>2 DEF RunInQueue
  <2> QED
    BY <1>1, <2>1, <2>2, <2>3, WorkRows
<1>3. ASSUME NEW s \in Subm, RunAgain(s) PROVE RowInv'
  <2>1. UNCHANGED <<req, row, rakes, deleting>> /\ rake' \subseteq rake
    BY <1>3 DEF RunAgain
  <2>2. \A x \in Subm : x \in deleting' => row'[x] \in {"final", "process"}
    BY <2>1 DEF RowInv, RowOf
  <2>3. rakes' # 0 => "rake" \in Faults
    BY <2>1 DEF RowInv
  <2> QED
    BY <1>1, <2>1, <2>2, <2>3, WorkRows
<1>4. ASSUME NEW s \in Subm, DestroyCheck(s) PROVE RowInv'
  <2>1. UNCHANGED <<req, row, rakes, rake>>
    BY <1>4 DEF DestroyCheck
  <2>2. \A x \in Subm : x \in deleting' => row'[x] \in {"final", "process"}
    BY <1>4 DEF RowInv, RowOf, DestroyCheck
  <2>3. rakes' # 0 => "rake" \in Faults
    BY <2>1 DEF RowInv
  <2> QED
    BY <1>1, <2>1, <2>2, <2>3, WorkRows
<1>5. ASSUME NEW s \in Subm, Destroy(s) PROVE RowInv'
  <2>1. UNCHANGED <<req, rakes, rake>>
    BY <1>5 DEF Destroy
  <2>2. row[s] \in {"final", "process"}
    BY <1>5 DEF RowInv, RowOf, Destroy
  <2>3. \A x \in Subm : row'[x] = IF x = s THEN "deleted" ELSE row[x]
    BY <1>5 DEF TypeInv, TypeOK, Destroy
  <2>4. \A x \in Subm : x \in deleting' => row'[x] \in {"final", "process"}
    BY <1>5, <2>3 DEF RowInv, RowOf, Destroy
  <2>5. rakes' # 0 => "rake" \in Faults
    BY <2>1 DEF RowInv
  <2>6. \A x \in Subm : row'[x] = "none" <=> row[x] = "none"
    BY <2>2, <2>3
  <2> QED
    BY <1>1, <2>1, <2>4, <2>5, <2>6, WorkRows
<1> QED
  BY <1>2, <1>3, <1>4, <1>5

LEMMA RowInvStep == TypeInv /\ RowInv /\ [Next]_vars => RowInv'
<1> SUFFICES ASSUME TypeInv, RowInv, [Next]_vars PROVE RowInv'
  OBVIOUS
<1>1. ASSUME NEW r \in Reqs, Admit(r) \/ ReqStep(r) \/ ServerDies(r) PROVE RowInv'
  BY <1>1, AdmitRows, SaveItemRows, EnqueueItemRows, PollsRows DEF ReqStep
<1>2. ASSUME NEW w \in Workers, WorkerStep(w) \/ LoseJob(w) PROVE RowInv'
  BY <1>2, WorkersRows
<1>3. CASE EnqueueDelayed \/ RedisRestarts \/ RunInQueue
  BY <1>3, RedisRows, OperatorsRows
<1>4. ASSUME NEW s \in Subm, RunAgain(s) \/ DestroyCheck(s) \/ Destroy(s) PROVE RowInv'
  BY <1>4, OperatorsRows
<1>5. CASE UNCHANGED vars
  <2>1. \A s : /\ HasJob(s)' <=> HasJob(s)
               /\ NotYet(s)' <=> NotYet(s)
               /\ Enqueuing(s)' <=> Enqueuing(s)
    BY <1>5 DEF HasJob, InSeq, AtWork, NotYet, Enqueuing, At, vars
  <2> QED
    BY <1>5, <2>1 DEF RowInv, RowOf, SleepOf, vars
<1> QED
  BY <1>1, <1>2, <1>3, <1>4, <1>5 DEF Next

LEMMA RowInvInit == Init => RowInv
<1> SUFFICES ASSUME Init PROVE RowInv
  OBVIOUS
<1>1. \A s : ~HasJob(s)
  BY DEF Init, HasJob, InSeq, AtWork, Idle
<1>2. \A r \in Reqs : req[r].pc = "new"
  BY DEF Init
<1>3. \A s \in Subm : ~Enqueuing(s)
  BY <1>2, SubmParts DEF Enqueuing, At
<1>4. \A s \in Subm : RowOf(s)
  BY <1>1, <1>3 DEF Init, RowOf
<1>5. \A r \in Reqs : SleepOf(r)
  BY <1>2 DEF SleepOf
<1> QED
  BY <1>4, <1>5 DEF Init, RowInv

-------------------------------------------------------------------------------
(* One job per submission: OneJobEach.                                     *)

AtMostOne(S) == \A x, y \in S : x = y

\* A submission has at most one job, in one of the three places.
Lone(s) ==
  /\ AtMostOne(InSeq(s, queue)) /\ AtMostOne(InSeq(s, delayed)) /\ AtMostOne(AtWork(s))
  /\ InSeq(s, queue) = {} \/ InSeq(s, delayed) = {}
  /\ (InSeq(s, queue) = {} /\ InSeq(s, delayed) = {}) \/ AtWork(s) = {}

\* What has a job that is to save its verdict waits or is processed, what has
\* one that saved it is done, what is about to get its job has none yet, and
\* what is being deleted is done.
OneOf(s) ==
  /\ Lone(s)
  /\ HasJob(s) => row[s] \in IF ToDo(s) THEN {"queue", "process"} ELSE {"final", "deleted"}
  /\ Enqueuing(s) => row[s] = "queue" /\ ~HasJob(s)
  /\ s \in deleting => row[s] = "final"

\* Until run_in_queue is started.
OneInv == rakes = 0 => rake = {} /\ \A s \in Subm : OneOf(s)

LEMMA AppendOne ==
  ASSUME NEW q \in Seq(JobRec), NEW j \in JobRec
  PROVE  \A s : /\ s # j.sub => InSeq(s, Append(q, j)) = InSeq(s, q)
                /\ s = j.sub /\ InSeq(s, q) = {} => AtMostOne(InSeq(s, Append(q, j)))
<1>1. \A s : InSeq(s, Append(q, j)) =
               InSeq(s, q) \cup (IF j.sub = s THEN {Len(q) + 1} ELSE {})
  BY AppendJob
<1> QED
  BY <1>1 DEF AtMostOne

LEMMA TailOne ==
  ASSUME NEW q \in Seq(JobRec), q # <<>>, NEW s, AtMostOne(InSeq(s, q))
  PROVE  /\ AtMostOne(InSeq(s, Tail(q)))
         /\ s = Head(q).sub => InSeq(s, Tail(q)) = {}
<1>1. \A i : i \in InSeq(s, Tail(q)) <=> i \in 1..(Len(q) - 1) /\ i + 1 \in InSeq(s, q)
  BY TailJob
<1>2. AtMostOne(InSeq(s, Tail(q)))
  <2> SUFFICES ASSUME NEW i \in InSeq(s, Tail(q)), NEW k \in InSeq(s, Tail(q))
               PROVE  i = k
    BY DEF AtMostOne
  <2>1. i \in Int /\ k \in Int /\ i + 1 \in InSeq(s, q) /\ k + 1 \in InSeq(s, q)
    BY <1>1
  <2>2. i + 1 = k + 1
    BY <2>1 DEF AtMostOne
  <2> QED
    BY <2>1, <2>2
<1>3. ASSUME s = Head(q).sub, NEW i \in InSeq(s, Tail(q)) PROVE FALSE
  <2>1. i \in 1..(Len(q) - 1) /\ i + 1 \in InSeq(s, q)
    BY <1>1, <1>3
  <2>2. 1 \in InSeq(s, q)
    BY <1>3, TailJob
  <2>3. i + 1 = 1
    BY <2>1, <2>2 DEF AtMostOne
  <2> QED
    BY <2>1, <2>3
<1> QED
  BY <1>2, <1>3

\* The parts of OneInv that are about one submission only.
LEMMA OneNext ==
  ASSUME rakes' = 0 => rake' = {}, rakes' = 0 => \A s \in Subm : OneOf(s)'
  PROVE  OneInv'
  BY DEF OneInv

\* A step that leaves rows and jobs alone and brings nothing to an enqueue.
LEMMA QuietOne ==
  ASSUME OneInv, UNCHANGED <<row, queue, delayed, worker, rake, rakes, deleting>>,
         \A s \in Subm : Enqueuing(s)' => Enqueuing(s)
  PROVE  OneInv'
<1>1. \A s : HasJob(s)' <=> HasJob(s)
  BY DEF HasJob, InSeq, AtWork
<1>2. \A s : (Lone(s)' <=> Lone(s)) /\ (ToDo(s)' <=> ToDo(s))
  BY DEF Lone, AtMostOne, ToDo, InSeq, AtWork, Unsaved
<1>3. ASSUME rakes = 0, NEW s \in Subm PROVE OneOf(s)'
  BY <1>1, <1>2, <1>3 DEF OneInv, OneOf
<1> QED
  BY <1>3, OneNext DEF OneInv

LEMMA RequestsOne ==
  ASSUME TypeInv, OneInv, NEW r \in Reqs, Admit(r) \/ Poll(r) \/ Reload(r) \/ ServerDies(r)
  PROVE  OneInv'
<1>1. UNCHANGED <<row, queue, delayed, worker, rake, rakes, deleting>>
  BY DEF Admit, Poll, Reload, ServerDies
<1>2. OnlyReq(r) /\ req'[r].pc # "enqueue"
  BY AdmitEffect, PollEffect, ReloadEffect, ServerDiesEffect
<1> QED
  BY <1>1, <1>2, EnqueuingOld, QuietOne

LEMMA SaveItemOne ==
  ASSUME TypeInv, RowInv, OneInv, NEW r \in Reqs, SaveItem(r)
  PROVE  OneInv'
<1> DEFINE c == <<r, req[r].item>>
<1>1. /\ OnlyReq(r) /\ req[r].pc = "save"
      /\ UNCHANGED <<queue, delayed, worker, rake, rakes, deleting>>
  BY SaveItemEffect DEF SaveItem
<1>2. CASE row' = row /\ req'[r].pc # "enqueue"
  BY <1>1, <1>2, EnqueuingOld, QuietOne
<1>3. CASE /\ row' = [row EXCEPT ![c] = "queue"] /\ req'[r].pc = "enqueue"
           /\ req'[r].item = req[r].item
  <2>1. c \in Subm /\ row \in [Subm -> {"none", "queue", "process", "final", "deleted"}]
    BY <1>1, ItemAt DEF TypeInv, TypeOK, Serving
  <2>2. \A s \in Subm : row'[s] = IF s = c THEN "queue" ELSE row[s]
    BY <1>3, <2>1
  <2>3. \A s : /\ HasJob(s)' <=> HasJob(s)
               /\ Lone(s)' <=> Lone(s)
               /\ ToDo(s)' <=> ToDo(s)
    BY <1>1 DEF HasJob, ToDo, Lone, AtMostOne, InSeq, AtWork, Unsaved
  <2>4. \A s \in Subm : Enqueuing(s)' => Enqueuing(s) \/ s = c
    BY <1>1, <1>3, SubmParts DEF Enqueuing, At, OnlyReq
  <2>5. \A s \in Subm : s = c => row[s] = "none" /\ ~HasJob(s) /\ s \notin deleting
    <3>1. req[r].item \in Nat
      BY Bounds DEF TypeInv, TypeOK, ReqRec
    <3>2. \A s : s = c => NotYet(s)
      BY <1>1, <3>1 DEF NotYet, At
    <3> QED
      BY <3>2 DEF RowInv, RowOf
  <2>6. ASSUME rakes = 0, NEW s \in Subm PROVE OneOf(s)'
    <3>1. CASE s = c
      BY <1>1, <2>2, <2>3, <2>5, <2>6, <3>1 DEF OneInv, OneOf
    <3>2. CASE s # c
      BY <1>1, <2>2, <2>3, <2>4, <2>6, <3>2 DEF OneInv, OneOf
    <3> QED
      BY <3>1, <3>2
  <2> QED
    BY <1>1, <2>6, OneNext DEF OneInv
<1> QED
  BY <1>2, <1>3, SaveItemEffect DEF SameData, ItemFollows

LEMMA EnqueueItemOne ==
  ASSUME TypeInv, OneInv, NEW r \in Reqs, EnqueueItem(r)
  PROVE  OneInv'
<1> DEFINE c == <<r, req[r].item>>
<1>1. /\ OnlyReq(r) /\ req[r].pc = "enqueue" /\ req'[r].pc # "enqueue"
      /\ UNCHANGED <<row, delayed, worker, rake, rakes, deleting>>
  BY EnqueueItemEffect DEF EnqueueItem, ItemFollows
<1>2. \A s \in Subm : Enqueuing(s)' => Enqueuing(s) /\ s # c
  <2>1. \A s \in Subm : s = c => ~Enqueuing(s)'
    BY <1>1 DEF Enqueuing, At
  <2> QED
    BY <1>1, <2>1, EnqueuingOld
<1>3. CASE queue' = queue
  BY <1>1, <1>2, <1>3, QuietOne
<1>4. CASE queue' = Append(queue, Job(c))
  <2>1. queue \in Seq(JobRec) /\ Job(c) \in JobRec /\ Job(c).sub = c /\ c \in Subm
    BY <1>1, ItemAt, JobType DEF TypeInv, TypeOK, Job, Serving
  <2>2. \A s : /\ s # c => InSeq(s, queue') = InSeq(s, queue)
               /\ s = c /\ InSeq(s, queue) = {} => AtMostOne(InSeq(s, queue'))
    BY <1>4, <2>1, AppendOne
  <2>3. \A s : /\ AtWork(s)' = AtWork(s) /\ Unsaved(s)' = Unsaved(s)
               /\ InSeq(s, delayed)' = InSeq(s, delayed)
    BY <1>1 DEF AtWork, Unsaved, InSeq
  <2>4. \A s : InSeq(s, queue)' = InSeq(s, queue')
    BY DEF InSeq
  <2>5. \A s \in Subm : s = c => Enqueuing(s)
    BY <1>1 DEF Enqueuing, At
  <2>6. ASSUME rakes = 0, NEW s \in Subm PROVE OneOf(s)'
    <3>1. OneOf(s)
      BY <2>6 DEF OneInv
    <3>2. CASE s = c
      <4>1. ~HasJob(s) /\ row[s] = "queue"
        BY <2>5, <3>1, <3>2 DEF OneOf
      <4>2. InSeq(s, queue) = {} /\ InSeq(s, delayed) = {} /\ AtWork(s) = {}
        BY <4>1 DEF HasJob
      <4>3. Lone(s)'
        BY <2>2, <2>3, <2>4, <3>2, <4>2 DEF Lone, AtMostOne
      <4>4. ToDo(s)'
        BY <1>4, <2>1, <2>4, <3>2, AppendHas DEF ToDo
      <4> QED
        BY <1>1, <1>2, <3>1, <3>2, <4>1, <4>3, <4>4 DEF OneOf
    <3>3. CASE s # c
      <4>1. InSeq(s, queue)' = InSeq(s, queue)
        BY <2>2, <2>4, <3>3
      <4>2. /\ HasJob(s)' <=> HasJob(s)
            /\ Lone(s)' <=> Lone(s)
            /\ ToDo(s)' <=> ToDo(s)
        BY <2>3, <4>1 DEF HasJob, ToDo, Lone, AtMostOne
      <4> QED
        BY <1>1, <1>2, <3>1, <3>3, <4>2 DEF OneOf
    <3> QED
      BY <3>2, <3>3
  <2> QED
    BY <1>1, <2>6, OneNext DEF OneInv
<1> QED
  BY <1>3, <1>4, EnqueueItemEffect

\* A step that moves no request and makes no job.
LEMMA WorkOne ==
  ASSUME OneInv, req' = req, rakes' = rakes, rake' \subseteq rake,
         rakes = 0 => \A s \in Subm :
           /\ Lone(s)'
           /\ HasJob(s)' => /\ HasJob(s)
                            /\ row'[s] \in IF ToDo(s)' THEN {"queue", "process"}
                                                       ELSE {"final", "deleted"}
           /\ ~HasJob(s) => row'[s] = row[s] \/ ~Enqueuing(s)
           /\ s \in deleting' => row'[s] = "final"
  PROVE  OneInv'
<1>1. \A s : Enqueuing(s)' <=> Enqueuing(s)
  BY DEF Enqueuing, At
<1>2. ASSUME rakes = 0, NEW s \in Subm PROVE OneOf(s)'
  BY <1>1, <1>2 DEF OneInv, OneOf
<1> QED
  BY <1>2, OneNext DEF OneInv

\* In a step that changes no row it is enough that no job is made and none
\* that stays saves.
LEMMA SameRowsOne ==
  ASSUME TypeInv, OneInv, UNCHANGED <<req, row, rake, rakes, deleting>>,
         \A s : HasJob(s)' => HasJob(s),
         rakes = 0 => \A s \in Subm : Lone(s)' /\ (HasJob(s)' => (ToDo(s)' <=> ToDo(s)))
  PROVE  OneInv'
  BY WorkOne DEF OneInv, OneOf

LEMMA PopOne ==
  ASSUME TypeInv, OneInv, NEW w \in Workers, Pop(w)
  PROVE  OneInv'
<1>1. /\ queue \in Seq(JobRec) /\ queue # <<>> /\ queue' = Tail(queue)
      /\ \A s : /\ w \in AtWork(s)' <=> Head(queue).sub = s
                /\ w \in Unsaved(s)' <=> Head(queue).sub = s
                /\ \A v : v # w => /\ v \in AtWork(s)' <=> v \in AtWork(s)
                                   /\ v \in Unsaved(s)' <=> v \in Unsaved(s)
                /\ w \notin AtWork(s) /\ w \notin Unsaved(s)
  BY PopEffect
<1>2. \A s : HasJob(s)' => HasJob(s)
  BY NoNewJobs DEF WorkerStep
<1>5. \A s : ToDo(s)' <=> ToDo(s)
  <2>1. \A s : InSeq(s, queue) # {} <=> InSeq(s, queue)' # {} \/ Head(queue).sub = s
    BY <1>1, TailHas DEF InSeq
  <2>2. \A s : Unsaved(s)' # {} <=> Unsaved(s) # {} \/ Head(queue).sub = s
    BY <1>1
  <2> QED
    BY <2>1, <2>2 DEF ToDo, InSeq, Pop
<1>3. \A s : InSeq(s, queue)' = InSeq(s, Tail(queue)) /\ InSeq(s, delayed)' = InSeq(s, delayed)
  BY <1>1 DEF InSeq, Pop
<1>4. ASSUME rakes = 0, NEW s \in Subm PROVE Lone(s)'
  <2>1. Lone(s)
    BY <1>4 DEF OneInv, OneOf
  <2>2. /\ AtMostOne(InSeq(s, Tail(queue)))
        /\ s = Head(queue).sub => InSeq(s, Tail(queue)) = {}
    BY <1>1, <2>1, TailOne DEF Lone
  <2>3. CASE s = Head(queue).sub
    <3>1. InSeq(s, queue) # {}
      BY <1>1, <2>3, TailJob
    <3>2. AtWork(s) = {} /\ InSeq(s, delayed) = {}
      BY <2>1, <3>1 DEF Lone
    <3>3. AtMostOne(AtWork(s)')
      BY <1>1, <2>3, <3>2 DEF AtMostOne
    <3> QED
      BY <1>3, <2>2, <2>3, <3>2, <3>3 DEF Lone, AtMostOne
  <2>4. CASE s # Head(queue).sub
    <3>0. \A v : v \in AtWork(s)' <=> v \in AtWork(s)
      BY <1>1, <2>4
    <3>1. AtWork(s)' = AtWork(s)
      BY <3>0
    <3>2. InSeq(s, Tail(queue)) # {} => InSeq(s, queue) # {}
      BY <1>1, TailHas
    <3> QED
      BY <1>3, <2>1, <2>2, <3>1, <3>2 DEF Lone, AtMostOne
  <2> QED
    BY <2>3, <2>4
<1> QED
  BY <1>2, <1>4, <1>5, SameRowsOne DEF Pop

LEMMA StartJobOne ==
  ASSUME TypeInv, RowInv, OneInv, NEW w \in Workers, StartJob(w)
  PROVE  OneInv'
<1> DEFINE c == worker[w].job.sub
<1>1. /\ c \in Subm /\ w \in AtWork(c) /\ row' = [row EXCEPT ![c] = "process"]
      /\ w \in Unsaved(c) /\ \A x : AtWork(x)' = AtWork(x) /\ Unsaved(x)' = Unsaved(x)
      /\ UNCHANGED <<req, rake, rakes, deleting, queue, delayed>>
  BY StartJobEffect DEF StartJob
<1>2. \A s \in Subm : row'[s] = IF s = c THEN "process" ELSE row[s]
  BY <1>1 DEF TypeInv, TypeOK
<1>3. \A s : /\ HasJob(s)' <=> HasJob(s)
             /\ Lone(s)' <=> Lone(s)
             /\ ToDo(s)' <=> ToDo(s)
  BY <1>1 DEF HasJob, ToDo, Lone, AtMostOne, InSeq
<1>4. \A s : s = c => HasJob(s) /\ ToDo(s)
  BY <1>1 DEF HasJob, ToDo
<1>5. ASSUME rakes = 0, NEW s \in Subm
      PROVE  /\ Lone(s)'
             /\ HasJob(s)' => /\ HasJob(s)
                              /\ row'[s] \in IF ToDo(s)' THEN {"queue", "process"}
                                                         ELSE {"final", "deleted"}
             /\ ~HasJob(s) => row'[s] = row[s]
             /\ s \in deleting' => row'[s] = "final"
  <2>1. OneOf(s)
    BY <1>5 DEF OneInv
  <2>2. CASE s = c
    BY <1>1, <1>2, <1>3, <1>4, <2>1, <2>2 DEF OneOf
  <2>3. CASE s # c
    BY <1>1, <1>2, <1>3, <2>1, <2>3 DEF OneOf
  <2> QED
    BY <2>2, <2>3
<1> QED
  BY <1>1, <1>5, WorkOne

LEMMA FindFailsOne ==
  ASSUME TypeInv, OneInv, NEW w \in Workers, FindFails(w)
  PROVE  OneInv'
<1> DEFINE job == worker[w].job
           next == [job EXCEPT !.tries = @ + 1]
<1>1. /\ Release(w)
      /\ \/ delayed' = Append(delayed, next) /\ next \in JobRec
         \/ delayed' = delayed
  BY FindFailsEffect
<1>2. delayed \in Seq(JobRec) /\ next.sub = job.sub
  BY BusyJob DEF TypeInv, TypeOK, FindFails, JobRec
<1>3. \A s : (w \in AtWork(s) <=> s = job.sub) /\ (w \in Unsaved(s) <=> s = job.sub)
  BY DEF AtWork, Unsaved, Working, FindFails
<1>4. \A s : InSeq(s, queue)' = InSeq(s, queue) /\ InSeq(s, delayed)' = InSeq(s, delayed')
  BY DEF InSeq, FindFails
<1> HIDE DEF next, job
<1>5. \A s : /\ s # job.sub => InSeq(s, delayed') = InSeq(s, delayed)
             /\ s = job.sub /\ InSeq(s, delayed) = {} => AtMostOne(InSeq(s, delayed'))
  <2>1. CASE delayed' = delayed
    BY <2>1 DEF AtMostOne
  <2>2. CASE delayed' = Append(delayed, next) /\ next \in JobRec
    BY <1>2, <2>2, AppendOne
  <2> QED
    BY <1>1, <2>1, <2>2
<1>6. \A s : /\ w \notin AtWork(s)' /\ w \notin Unsaved(s)'
             /\ \A v : v # w => /\ v \in AtWork(s)' <=> v \in AtWork(s)
                                /\ v \in Unsaved(s)' <=> v \in Unsaved(s)
  BY <1>1, ReleaseAtWork
<1>7. \A s : HasJob(s)' => HasJob(s)
  BY NoNewJobs DEF WorkerStep
<1>8. ASSUME rakes = 0, NEW s \in Subm PROVE Lone(s)' /\ (HasJob(s)' => (ToDo(s)' <=> ToDo(s)))
  <2>1. Lone(s)
    BY <1>8 DEF OneInv, OneOf
  <2>2. CASE s = job.sub
    <3>1. w \in AtWork(s)
      BY <1>3, <2>2
    <3>2. InSeq(s, queue) = {} /\ InSeq(s, delayed) = {}
      BY <2>1, <3>1 DEF Lone
    <3>3. AtWork(s)' = {}
      BY <1>6, <2>1, <3>1 DEF Lone, AtMostOne
    <3>4. HasJob(s)' => ToDo(s)' /\ ToDo(s)
      BY <1>3, <2>2, <3>3 DEF HasJob, ToDo
    <3>5. Lone(s)'
      BY <1>4, <1>5, <2>2, <3>2, <3>3 DEF Lone, AtMostOne
    <3> QED
      BY <3>4, <3>5
  <2>3. CASE s # job.sub
    <3>1. AtWork(s)' = AtWork(s) /\ Unsaved(s)' = Unsaved(s)
      BY <1>3, <1>6, <2>3
    <3>2. Lone(s)'
      BY <1>4, <1>5, <2>1, <2>3, <3>1 DEF Lone, AtMostOne
    <3>3. ToDo(s)' <=> ToDo(s)
      BY <1>4, <1>5, <2>3, <3>1 DEF ToDo
    <3> QED
      BY <3>2, <3>3
  <2> QED
    BY <2>2, <2>3
<1> QED
  BY <1>7, <1>8, SameRowsOne DEF FindFails

LEMMA EnqueueDelayedOne ==
  ASSUME TypeInv, OneInv, EnqueueDelayed
  PROVE  OneInv'
<1> DEFINE h == Head(delayed)
<1>1. /\ queue \in Seq(JobRec) /\ delayed \in Seq(JobRec) /\ delayed # <<>>
      /\ queue' = Append(queue, h) /\ delayed' = Tail(delayed)
  BY DEF TypeInv, TypeOK, EnqueueDelayed
<1>2. h \in JobRec
  BY <1>1, TailJob
<1>3. \A s : /\ AtWork(s)' = AtWork(s)
             /\ InSeq(s, queue)' = InSeq(s, Append(queue, h))
             /\ InSeq(s, delayed)' = InSeq(s, Tail(delayed))
  BY <1>1 DEF AtWork, InSeq, EnqueueDelayed
<1>6. \A s : ToDo(s)' <=> ToDo(s)
  <2>1. \A s : Unsaved(s)' = Unsaved(s)
    BY DEF Unsaved, AtWork, EnqueueDelayed
  <2>2. \A s : InSeq(s, queue)' # {} <=> InSeq(s, queue) # {} \/ h.sub = s
    BY <1>1, <1>2, <1>3, AppendHas
  <2>3. \A s : InSeq(s, delayed) # {} <=> InSeq(s, delayed)' # {} \/ h.sub = s
    BY <1>1, <1>3, TailHas
  <2> QED
    BY <2>1, <2>2, <2>3 DEF ToDo
<1>4. \A s : HasJob(s)' => HasJob(s)
  BY NoNewJobs
<1>5. ASSUME rakes = 0, NEW s \in Subm PROVE Lone(s)'
  <2>1. Lone(s)
    BY <1>5 DEF OneInv, OneOf
  <2>2. /\ AtMostOne(InSeq(s, Tail(delayed)))
        /\ s = h.sub => InSeq(s, Tail(delayed)) = {}
    BY <1>1, <2>1, TailOne DEF Lone
  <2>3. /\ s # h.sub => InSeq(s, Append(queue, h)) = InSeq(s, queue)
        /\ s = h.sub /\ InSeq(s, queue) = {} => AtMostOne(InSeq(s, Append(queue, h)))
    BY <1>1, <1>2, AppendOne
  <2>4. CASE s = h.sub
    <3>1. InSeq(s, delayed) # {}
      BY <1>1, <2>4, TailJob
    <3>2. AtWork(s) = {} /\ InSeq(s, queue) = {}
      BY <2>1, <3>1 DEF Lone
    <3> QED
      BY <1>3, <2>2, <2>3, <2>4, <3>2 DEF Lone, AtMostOne
  <2>5. CASE s # h.sub
    <3>1. InSeq(s, Tail(delayed)) # {} => InSeq(s, delayed) # {}
      BY <1>1, TailHas
    <3> QED
      BY <1>3, <2>1, <2>2, <2>3, <2>5, <3>1 DEF Lone, AtMostOne
  <2> QED
    BY <2>4, <2>5
<1> QED
  BY <1>4, <1>5, <1>6, SameRowsOne DEF EnqueueDelayed

LEMMA SaveOne ==
  ASSUME TypeInv, OneInv, NEW w \in Workers, SaveVerdict(w) \/ RescueSave(w)
  PROVE  OneInv'
<1> DEFINE c == worker[w].job.sub
<1>1. /\ c \in Subm /\ w \in AtWork(c)
      /\ UNCHANGED <<req, rake, rakes, deleting, queue, delayed>>
      /\ row'[c] = IF row[c] = "deleted" THEN "deleted" ELSE "final"
      /\ \A s \in Subm : s # c => row'[s] = row[s]
      /\ \A s : /\ AtWork(s)' = AtWork(s) /\ w \notin Unsaved(s)'
                /\ \A v : v # w => (v \in Unsaved(s)' <=> v \in Unsaved(s))
                /\ s # c => Unsaved(s)' = Unsaved(s)
  BY SaveEffect
<1> HIDE DEF c
<1>2. \A s : /\ Lone(s)' <=> Lone(s)
             /\ HasJob(s)' <=> HasJob(s)
             /\ s # c => (ToDo(s)' <=> ToDo(s))
  BY <1>1 DEF Lone, AtMostOne, HasJob, ToDo, InSeq
<1>3. ASSUME rakes = 0, NEW s \in Subm
      PROVE  /\ Lone(s)'
             /\ HasJob(s)' => /\ HasJob(s)
                              /\ row'[s] \in IF ToDo(s)' THEN {"queue", "process"}
                                                         ELSE {"final", "deleted"}
             /\ ~HasJob(s) => row'[s] = row[s]
             /\ s \in deleting' => row'[s] = "final"
  <2>1. OneOf(s)
    BY <1>3 DEF OneInv
  <2>2. CASE s = c
    <3>1. w \in AtWork(s) /\ HasJob(s)
      BY <1>1, <2>2 DEF HasJob
    <3>2. InSeq(s, queue) = {} /\ InSeq(s, delayed) = {} /\ AtWork(s) = {w}
      BY <2>1, <3>1 DEF OneOf, Lone, AtMostOne
    <3>3. Unsaved(s)' = {}
      BY <1>1, <3>2 DEF Unsaved
    <3>4. ~ToDo(s)'
      BY <1>1, <3>2, <3>3 DEF ToDo, InSeq
    <3> QED
      BY <1>1, <1>2, <2>1, <2>2, <3>1, <3>4 DEF OneOf
  <2>3. CASE s # c
    BY <1>1, <1>2, <2>1, <2>3 DEF OneOf
  <2> QED
    BY <2>2, <2>3
<1> QED
  BY <1>1, <1>3, WorkOne

\* A job that leaves its worker, done or lost, was the only one.
LEMMA LeaveOne ==
  ASSUME TypeInv, OneInv, NEW w \in Workers, EndJob(w) \/ LoseJob(w)
  PROVE  OneInv'
<1>1. /\ worker[w].pc # "idle" /\ Release(w)
      /\ UNCHANGED <<req, row, rake, rakes, deleting, queue, delayed>>
  BY DEF EndJob, LoseJob
<1>2. \A s : HasJob(s)' => HasJob(s)
  BY NoNewJobs DEF WorkerStep
<1>3. \A s : InSeq(s, queue)' = InSeq(s, queue) /\ InSeq(s, delayed)' = InSeq(s, delayed)
  BY <1>1 DEF InSeq
<1>4. \A s : /\ w \notin AtWork(s)' /\ w \notin Unsaved(s)'
             /\ \A v : v # w => /\ v \in AtWork(s)' <=> v \in AtWork(s)
                                /\ v \in Unsaved(s)' <=> v \in Unsaved(s)
             /\ w \in Unsaved(s) => w \in AtWork(s)
  BY <1>1, ReleaseAtWork DEF Unsaved
<1>5. ASSUME rakes = 0, NEW s \in Subm
      PROVE  Lone(s)' /\ (HasJob(s)' => (ToDo(s)' <=> ToDo(s)))
  <2>1. Lone(s)
    BY <1>5 DEF OneInv, OneOf
  <2>2. Lone(s)'
    BY <1>3, <1>4, <2>1 DEF Lone, AtMostOne
  <2>3. CASE w \in AtWork(s)
    <3>1. InSeq(s, queue) = {} /\ InSeq(s, delayed) = {} /\ AtWork(s)' = {}
      BY <1>4, <2>1, <2>3 DEF Lone, AtMostOne
    <3>2. ~HasJob(s)'
      BY <1>3, <3>1 DEF HasJob
    <3> QED
      BY <2>2, <3>2
  <2>4. CASE w \notin AtWork(s)
    <3>1. Unsaved(s)' = Unsaved(s)
      BY <1>4, <2>4
    <3>2. ToDo(s)' <=> ToDo(s)
      BY <1>3, <3>1 DEF ToDo
    <3> QED
      BY <2>2, <3>2
  <2> QED
    BY <2>3, <2>4
<1> QED
  BY <1>1, <1>2, <1>5, SameRowsOne

LEMMA RedisRestartsOne ==
  ASSUME TypeInv, OneInv, RedisRestarts
  PROVE  OneInv'
<1>1. \A s : HasJob(s)' => HasJob(s)
  BY NoNewJobs
<1>2. \A s : InSeq(s, queue)' = {} /\ InSeq(s, delayed)' = {} /\ AtWork(s)' = AtWork(s)
  BY DEF InSeq, AtWork, RedisRestarts
<1>3. \A s : Lone(s) => Lone(s)'
  BY <1>2 DEF Lone, AtMostOne
<1>4. \A s : Unsaved(s)' = Unsaved(s)
  BY DEF Unsaved, AtWork, RedisRestarts
<1>5. \A s : Lone(s) /\ HasJob(s)' => (ToDo(s)' <=> ToDo(s))
  BY <1>2, <1>4 DEF Lone, HasJob, ToDo
<1> QED
  BY <1>1, <1>3, <1>5, SameRowsOne DEF OneInv, OneOf, RedisRestarts

LEMMA OperatorsOne ==
  ASSUME TypeInv, OneInv,
         RunInQueue \/ \E s \in Subm : RunAgain(s) \/ DestroyCheck(s) \/ Destroy(s)
  PROVE  OneInv'
<1>1. CASE RunInQueue
  <2>1. rakes' # 0
    BY <1>1, Bounds DEF RunInQueue, TypeInv, TypeOK
  <2> QED
    BY <2>1 DEF OneInv
<1>2. ASSUME NEW s \in Subm, RunAgain(s) PROVE OneInv'
  BY <1>2 DEF RunAgain, OneInv
<1>3. ASSUME NEW s \in Subm, DestroyCheck(s) \/ Destroy(s) PROVE OneInv'
  <2>1. UNCHANGED <<req, rake, rakes, queue, delayed, worker>>
    BY <1>3 DEF DestroyCheck, Destroy
  <2>2. \A x : /\ HasJob(x)' <=> HasJob(x)
               /\ Lone(x)' <=> Lone(x)
               /\ ToDo(x)' <=> ToDo(x)
    BY <2>1 DEF HasJob, ToDo, Lone, AtMostOne, InSeq, AtWork, Unsaved
  <2>3. CASE DestroyCheck(s)
    BY <2>1, <2>2, <2>3, WorkOne DEF OneInv, OneOf, DestroyCheck
  <2>4. CASE Destroy(s)
    <3>1. \A x \in Subm : x # s => row'[x] = row[x]
      BY <2>4 DEF Destroy, TypeInv, TypeOK
    <3>2. s \in deleting /\ deleting' = deleting \ {s}
      BY <2>4 DEF Destroy
    <3>3. ASSUME rakes = 0, NEW x \in Subm
          PROVE  /\ Lone(x)'
                 /\ HasJob(x)' => /\ HasJob(x)
                                  /\ row'[x] \in IF ToDo(x)' THEN {"queue", "process"}
                                                             ELSE {"final", "deleted"}
                 /\ ~HasJob(x) => row'[x] = row[x] \/ ~Enqueuing(x)
                 /\ x \in deleting' => row'[x] = "final"
      <4>1. OneOf(x)
        BY <3>3 DEF OneInv
      <4>2. CASE x = s
        <5>1. row[x] = "final" /\ row'[x] = "deleted"
          BY <2>4, <3>2, <4>1, <4>2 DEF OneOf, Destroy, TypeInv, TypeOK
        <5>2. ~Enqueuing(x) /\ (HasJob(x) => ~ToDo(x))
          BY <4>1, <5>1 DEF OneOf
        <5> QED
          BY <2>2, <3>2, <4>1, <4>2, <5>1, <5>2 DEF OneOf
      <4>3. CASE x # s
        BY <2>2, <3>1, <3>2, <4>1, <4>3 DEF OneOf
      <4> QED
        BY <4>2, <4>3
    <3> QED
      BY <2>1, <3>3, WorkOne
  <2> QED
    BY <1>3, <2>3, <2>4
<1> QED
  BY <1>1, <1>2, <1>3

LEMMA OneInvStep == TypeInv /\ RowInv /\ OneInv /\ [Next]_vars => OneInv'
<1> SUFFICES ASSUME TypeInv, RowInv, OneInv, [Next]_vars PROVE OneInv'
  OBVIOUS
<1>1. ASSUME NEW r \in Reqs, Admit(r) \/ ReqStep(r) \/ ServerDies(r) PROVE OneInv'
  BY <1>1, RequestsOne, SaveItemOne, EnqueueItemOne DEF ReqStep
<1>2. ASSUME NEW w \in Workers, WorkerStep(w) \/ LoseJob(w) PROVE OneInv'
  BY <1>2, PopOne, StartJobOne, FindFailsOne, SaveOne, LeaveOne DEF WorkerStep
<1>3. CASE EnqueueDelayed \/ RedisRestarts \/ RunInQueue
  BY <1>3, EnqueueDelayedOne, RedisRestartsOne, OperatorsOne
<1>4. ASSUME NEW s \in Subm, RunAgain(s) \/ DestroyCheck(s) \/ Destroy(s) PROVE OneInv'
  BY <1>4, OperatorsOne
<1>5. CASE UNCHANGED vars
  <2>1. \A s : Enqueuing(s)' <=> Enqueuing(s)
    BY <1>5 DEF Enqueuing, At, vars
  <2> QED
    BY <1>5, <2>1, QuietOne DEF vars
<1> QED
  BY <1>1, <1>2, <1>3, <1>4, <1>5 DEF Next

LEMMA OneInvInit == Init => OneInv
<1> SUFFICES ASSUME Init PROVE OneInv
  OBVIOUS
<1>1. \A s : InSeq(s, queue) = {} /\ InSeq(s, delayed) = {} /\ AtWork(s) = {}
  BY DEF Init, InSeq, AtWork, Idle
<1>2. \A s \in Subm : ~Enqueuing(s)
  BY SubmParts DEF Init, Enqueuing, At
<1> QED
  BY <1>1, <1>2 DEF Init, OneInv, OneOf, Lone, AtMostOne, HasJob

LEMMA AtMostOneCount ==
  ASSUME NEW S, AtMostOne(S)
  PROVE  Cardinality(S) \in {0, 1} /\ (Cardinality(S) = 0 <=> S = {})
<1>1. CASE S = {}
  BY <1>1, FS_EmptySet
<1>2. CASE S # {}
  <2>1. PICK x : x \in S
    BY <1>2
  <2>2. S = {x}
    BY <2>1 DEF AtMostOne
  <2>3. Cardinality(S) = 1
    BY <2>2, FS_Singleton
  <2> QED
    BY <1>2, <2>3
<1> QED
  BY <1>1, <1>2

LEMMA OneJobFromInv == OneInv => OneJobEach
<1> SUFFICES ASSUME OneInv, rakes = 0, NEW s \in Subm
             PROVE  LET n == Cardinality(InSeq(s, queue)) + Cardinality(InSeq(s, delayed))
                             + Cardinality(AtWork(s)) IN
                    /\ n <= 1
                    /\ n = 1 => row[s] \in IF ToDo(s) THEN {"queue", "process"}
                                                     ELSE {"final", "deleted"}
  BY DEF OneJobEach
<1> DEFINE q == Cardinality(InSeq(s, queue))
           d == Cardinality(InSeq(s, delayed))
           a == Cardinality(AtWork(s))
<1>1. /\ Lone(s)
      /\ HasJob(s) => row[s] \in IF ToDo(s) THEN {"queue", "process"} ELSE {"final", "deleted"}
  BY DEF OneInv, OneOf
<1>2. /\ q \in {0, 1} /\ (q = 0 <=> InSeq(s, queue) = {})
      /\ d \in {0, 1} /\ (d = 0 <=> InSeq(s, delayed) = {})
      /\ a \in {0, 1} /\ (a = 0 <=> AtWork(s) = {})
  BY <1>1, AtMostOneCount DEF Lone
<1>3. q = 0 \/ d = 0
  BY <1>1, <1>2 DEF Lone
<1>4. (q = 0 /\ d = 0) \/ a = 0
  BY <1>1, <1>2 DEF Lone
<1>5. q + d + a <= 1 /\ (q + d + a = 1 => HasJob(s))
  <2> HIDE DEF q, d, a
  <2>1. q + d + a <= 1 /\ (q + d + a = 1 => q = 1 \/ d = 1 \/ a = 1)
    BY <1>2, <1>3, <1>4
  <2> QED
    BY <1>2, <2>1 DEF HasJob
<1> QED
  BY <1>1, <1>5

\* Everything about rows and jobs that the steps above keep.
ServiceInv == TypeInv /\ RowInv /\ OneInv

LEMMA ServiceInvKept == Spec => []ServiceInv
<1>1. Init => ServiceInv
  BY TypeInvInit, RowInvInit, OneInvInit DEF ServiceInv
<1>2. ServiceInv /\ [Next]_vars => ServiceInv'
  BY TypeInvStep, RowInvStep, OneInvStep DEF ServiceInv
<1> QED
  BY <1>1, <1>2, PTL DEF Spec

\* Until somebody starts judge0:run_in_queue, no submission has two jobs, so no
\* two workers are in one sandbox, whatever fails, dies or restarts. A job comes
\* after its row and finds it neither done nor deleted before it has saved; then
\* the row is done or deleted, as long as the job cleans up and calls back.
THEOREM OneJobKept == Spec => []OneJobEach
<1>1. ServiceInv => OneJobEach
  BY OneJobFromInv DEF ServiceInv
<1> QED
  BY <1>1, ServiceInvKept, PTL

-------------------------------------------------------------------------------
(* What a client sees of a submission: LifecycleKept.                      *)

LEMMA SaveItemLife ==
  ASSUME ServiceInv, NEW r \in Reqs, SaveItem(r)
  PROVE  Lifecycle!Next \/ row' = row
<1> DEFINE c == <<r, req[r].item>>
<1>1. CASE row' = [row EXCEPT ![c] = "queue"]
  <2>1. req[r].pc = "save" /\ req[r].item \in Nat
    BY Bounds DEF SaveItem, At, ServiceInv, TypeInv, TypeOK, ReqRec
  <2>2. c \in Subm
    BY <2>1, ItemAt DEF ServiceInv, Serving
  <2>3. NotYet(c)
    BY <2>1 DEF NotYet, At
  <2>4. row[c] \in {"none"}
    BY <2>2, <2>3 DEF ServiceInv, RowInv, RowOf
  <2>5. Lifecycle!Create(c)
    BY <1>1, <2>2, <2>4 DEF Lifecycle!Create, Lifecycle!Moves
  <2>6. row'[c] # row[c]
    BY <1>1, <2>2, <2>4 DEF ServiceInv, TypeInv, TypeOK
  <2> QED
    BY <2>2, <2>5, <2>6 DEF Lifecycle!Next
<1> QED
  BY <1>1 DEF SaveItem

\* A job that is to save the verdict of a row that is done exists only after
\* run_in_queue.
LEMMA JobRow ==
  ASSUME ServiceInv, NEW w \in Workers, worker[w].pc # "idle"
  PROVE  LET s == worker[w].job.sub IN
         /\ s \in Subm /\ row[s] \in {"queue", "process", "final", "deleted"}
         /\ worker[w].pc \in Working /\ row[s] \in {"final", "deleted"} => "rake" \in Faults
<1> DEFINE s == worker[w].job.sub
<1>1. s \in Subm
  BY BusyJob DEF ServiceInv
<1>2. HasJob(s)
  BY DEF HasJob, AtWork
<1>3. row[s] # "none"
  BY <1>1, <1>2 DEF ServiceInv, RowInv, RowOf
<1>4. row[s] \in {"none", "queue", "process", "final", "deleted"}
  BY <1>1 DEF ServiceInv, TypeInv, TypeOK
<1>7. worker[w].pc \in Working => ToDo(s)
  BY DEF ToDo, Unsaved, AtWork
<1>5. rakes = 0 /\ worker[w].pc \in Working => row[s] \in {"queue", "process"}
  BY <1>1, <1>2, <1>7 DEF ServiceInv, OneInv, OneOf
<1>6. rakes # 0 => "rake" \in Faults
  BY DEF ServiceInv, RowInv
<1> QED
  BY <1>1, <1>3, <1>4, <1>5, <1>6

LEMMA StartJobLife ==
  ASSUME ServiceInv, NEW w \in Workers, StartJob(w)
  PROVE  Lifecycle!Next \/ row' = row
<1> DEFINE c == worker[w].job.sub
<1>1. /\ c \in Subm /\ row[c] \in {"queue", "process", "final"}
      /\ row[c] = "final" => "rake" \in Faults
      /\ row' = [row EXCEPT ![c] = "process"]
  BY JobRow DEF StartJob, Found, Working
<1>5. row'[c] = "process"
  BY <1>1 DEF ServiceInv, TypeInv, TypeOK
<1> HIDE DEF c
<1>2. CASE row[c] = "queue"
  <2>1. Lifecycle!Start(c)
    BY <1>1, <1>2 DEF Lifecycle!Start, Lifecycle!Moves
  <2> QED
    BY <1>1, <1>2, <1>5, <2>1 DEF Lifecycle!Next
<1>3. CASE row[c] = "process"
  BY <1>1, <1>3 DEF ServiceInv, TypeInv, TypeOK
<1>4. CASE row[c] = "final"
  <2>1. Lifecycle!Rerun(c)
    BY <1>1, <1>4 DEF Lifecycle!Rerun, Lifecycle!Moves
  <2> QED
    BY <1>1, <1>4, <1>5, <2>1 DEF Lifecycle!Next
<1> QED
  BY <1>1, <1>2, <1>3, <1>4

LEMMA SaveLife ==
  ASSUME ServiceInv, NEW w \in Workers, SaveVerdict(w) \/ RescueSave(w)
  PROVE  Lifecycle!Next \/ row' = row
<1> DEFINE c == worker[w].job.sub
<1>1. /\ c \in Subm /\ row[c] \in {"queue", "process", "final", "deleted"}
      /\ row' = IF row[c] = "deleted" THEN row ELSE [row EXCEPT ![c] = "final"]
  BY JobRow DEF SaveVerdict, RescueSave, WriteFinal
<1> HIDE DEF c
<1>2. CASE row[c] \in {"queue", "process"}
  <2>1. row' = [row EXCEPT ![c] = "final"]
    BY <1>1, <1>2
  <2>2. Lifecycle!End(c)
    BY <1>1, <1>2, <2>1 DEF Lifecycle!End, Lifecycle!Moves
  <2>3. row'[c] = "final"
    BY <1>1, <2>1 DEF ServiceInv, TypeInv, TypeOK
  <2> QED
    BY <1>1, <1>2, <2>2, <2>3 DEF Lifecycle!Next
<1>3. CASE row[c] \in {"final", "deleted"}
  BY <1>1, <1>3 DEF ServiceInv, TypeInv, TypeOK
<1> QED
  BY <1>1, <1>2, <1>3

LEMMA DestroyLife ==
  ASSUME ServiceInv, NEW s \in Subm, Destroy(s)
  PROVE  Lifecycle!Next
<1> DEFINE from == {"final"} \cup (IF "rake" \in Faults THEN {"process"} ELSE {})
<1>1. row[s] \in {"final", "process"} /\ row' = [row EXCEPT ![s] = "deleted"]
  BY DEF Destroy, ServiceInv, RowInv, RowOf
<1>2. rakes = 0 => row[s] = "final"
  BY DEF Destroy, ServiceInv, OneInv, OneOf
<1>3. rakes # 0 => "rake" \in Faults
  BY DEF ServiceInv, RowInv
<1>4. row[s] \in from
  BY <1>1, <1>2, <1>3
<1>5. Lifecycle!Delete(s)
  BY <1>1, <1>4 DEF Lifecycle!Delete, Lifecycle!Moves
<1>6. row'[s] # row[s]
  BY <1>1 DEF ServiceInv, TypeInv, TypeOK
<1> QED
  BY <1>5, <1>6 DEF Lifecycle!Next

\* A submission as its clients see it waits, is processed, is done and is
\* deleted, in this order; only where run_in_queue may be used is one that was
\* done processed again.
THEOREM ServiceLifecycleKept == Spec => LifecycleKept
<1>1. Init => Lifecycle!Init
  BY DEF Init, Lifecycle!Init
<1>2. ServiceInv /\ [Next]_vars => [Lifecycle!Next]_row
  <2> SUFFICES ASSUME ServiceInv, [Next]_vars PROVE Lifecycle!Next \/ row' = row
    OBVIOUS
  <2>1. ASSUME NEW r \in Reqs, Admit(r) \/ ReqStep(r) \/ ServerDies(r)
        PROVE  Lifecycle!Next \/ row' = row
    BY <2>1, SaveItemLife DEF ReqStep, Admit, EnqueueItem, Poll, Reload, ServerDies
  <2>2. ASSUME NEW w \in Workers, WorkerStep(w) \/ LoseJob(w)
        PROVE  Lifecycle!Next \/ row' = row
    BY <2>2, StartJobLife, SaveLife DEF WorkerStep, Pop, FindFails, EndJob, LoseJob
  <2>3. CASE EnqueueDelayed \/ RedisRestarts \/ RunInQueue
    BY <2>3 DEF EnqueueDelayed, RedisRestarts, RunInQueue
  <2>4. ASSUME NEW s \in Subm, RunAgain(s) \/ DestroyCheck(s) \/ Destroy(s)
        PROVE  Lifecycle!Next \/ row' = row
    BY <2>4, DestroyLife DEF RunAgain, DestroyCheck
  <2>5. CASE UNCHANGED vars
    BY <2>5 DEF vars
  <2> QED
    BY <2>1, <2>2, <2>3, <2>4, <2>5 DEF Next
<1> QED
  BY <1>1, <1>2, ServiceInvKept, PTL DEF Spec, LifecycleKept, Lifecycle!Spec

-------------------------------------------------------------------------------
(* How long a creation waits: WaitIsShort.                                 *)

\* The sum of the pauses before n looks, and what n looks say of MaxWait: the
\* last pause but one ended before it.
LooksSum(n, t) ==
  /\ n = 0 => t = 0
  /\ n = 1 => t = 4
  /\ n >= 2 => 2 * t = 10 + n * (n - 1)

WaitOf(r) ==
  LET n == req[r].polls
      t == req[r].waited IN
  /\ LooksSum(n, t)
  /\ n > 2 => t < MaxWait + (n - 1)
  /\ req[r].pc = "sleep" => n = 0 \/ t < MaxWait
  /\ req[r].pc \in {"new", "save", "enqueue"} => n = 0

WaitInv == \A r \in Reqs : WaitOf(r)

LEMMA NextLook ==
  ASSUME NEW n \in Nat, NEW t \in Nat, LooksSum(n, t)
  PROVE  LooksSum(n + 1, t + WaitTime(n))
<1>1. CASE n = 0
  BY <1>1 DEF LooksSum, WaitTime
<1>2. CASE n = 1
  BY <1>2 DEF LooksSum, WaitTime
<1>3. CASE n >= 2
  <2>1. WaitTime(n) = n
    BY <1>3 DEF WaitTime
  <2>2. 2 * t = 10 + n * (n - 1)
    BY <1>3 DEF LooksSum
  <2>3. (n + 1) * ((n + 1) - 1) = n * (n - 1) + 2 * n
    OBVIOUS
  <2>4. 2 * (t + n) = 10 + (n + 1) * ((n + 1) - 1)
    BY <2>2, <2>3
  <2> QED
    BY <1>3, <2>1, <2>4 DEF LooksSum
<1> QED
  BY <1>1, <1>2, <1>3

\* A step of one request that is not a look.
LEMMA NoLook ==
  ASSUME TypeInv, WaitInv, NEW r \in Reqs, OnlyReq(r), SameLooks(r, req'[r]),
         req'[r].pc = "sleep" => req[r].pc \in {"save", "enqueue"},
         req'[r].pc \in {"new", "save", "enqueue"} => req[r].pc \in {"new", "save", "enqueue"}
  PROVE  WaitInv'
<1>1. WaitOf(r)'
  BY DEF WaitInv, WaitOf, SameLooks
<1>2. \A q \in Reqs \ {r} : WaitOf(q)'
  BY DEF WaitInv, WaitOf, OnlyReq
<1> QED
  BY <1>1, <1>2 DEF WaitInv

LEMMA PollWait ==
  ASSUME TypeInv, WaitInv, NEW r \in Reqs, Poll(r)
  PROVE  WaitInv'
<1> DEFINE n == req[r].polls
           t == req[r].waited
           u == t + WaitTime(n)
<1>1. /\ OnlyReq(r) /\ req[r].pc = "sleep" /\ req'[r].polls = n + 1 /\ req'[r].waited = u
      /\ req'[r].pc \in {"sleep", "reload"} /\ (req'[r].pc = "sleep" => u < MaxWait)
  BY PollEffect
<1>2. n \in Nat /\ t \in Nat /\ u \in Nat /\ MaxWait \in Nat
  <2>1. n \in Nat /\ t \in Nat
    BY DEF TypeInv, TypeOK, ReqRec
  <2> QED
    BY <2>1, WaitTimeType, Bounds
<1>3. LooksSum(n, t) /\ (n = 0 \/ t < MaxWait)
  BY <1>1 DEF WaitInv, WaitOf
<1>4. LooksSum(n + 1, u)
  BY <1>2, <1>3, NextLook
<1>5. n + 1 > 2 => u < MaxWait + ((n + 1) - 1)
  <2>1. n + 1 > 2 => WaitTime(n) = n
    BY <1>2 DEF WaitTime
  <2> QED
    BY <1>2, <1>3, <2>1
<1>6. WaitOf(r)'
  BY <1>1, <1>4, <1>5 DEF WaitOf
<1>7. \A q \in Reqs \ {r} : WaitOf(q)'
  BY <1>1 DEF WaitInv, WaitOf, OnlyReq
<1> QED
  BY <1>6, <1>7 DEF WaitInv

LEMMA WaitInvStep == TypeInv /\ WaitInv /\ [Next]_vars => WaitInv'
<1> SUFFICES ASSUME TypeInv, WaitInv, [Next]_vars PROVE WaitInv'
  OBVIOUS
<1>1. ASSUME NEW r \in Reqs, Admit(r) PROVE WaitInv'
  BY <1>1, AdmitEffect, NoLook DEF SameData
<1>2. ASSUME NEW r \in Reqs, SaveItem(r) PROVE WaitInv'
  BY <1>2, SaveItemEffect, NoLook DEF SameData, ItemFollows
<1>3. ASSUME NEW r \in Reqs, EnqueueItem(r) PROVE WaitInv'
  BY <1>3, EnqueueItemEffect, NoLook DEF SameData, ItemFollows
<1>4. ASSUME NEW r \in Reqs, Reload(r) \/ ServerDies(r) PROVE WaitInv'
  BY <1>4, ReloadEffect, ServerDiesEffect, NoLook DEF SameData
<1>5. CASE req' = req
  BY <1>5 DEF WaitInv, WaitOf
<1>6. \/ \E r \in Reqs : Admit(r) \/ ReqStep(r) \/ ServerDies(r)
      \/ req' = req
  BY DEF Next, WorkerStep, Pop, StartJob, FindFails, SaveVerdict, RescueSave,
             EndJob, LoseJob, EnqueueDelayed,
         RedisRestarts, RunInQueue, RunAgain, DestroyCheck, Destroy, vars
<1> QED
  BY <1>1, <1>2, <1>3, <1>4, <1>5, <1>6, PollWait DEF ReqStep

LEMMA ShortFromWait == TypeInv /\ WaitInv => WaitIsShort
<1> SUFFICES ASSUME TypeInv, WaitInv, NEW r \in Reqs, req[r].polls > 2
             PROVE  /\ req[r].waited < MaxWait + req[r].polls
                    /\ (req[r].polls - 1) * (req[r].polls - 2) < 2 * MaxWait
  BY DEF WaitIsShort
<1> DEFINE n == req[r].polls
           t == req[r].waited
<1>1. n \in Nat /\ t \in Nat /\ MaxWait \in Nat
  BY Bounds DEF TypeInv, TypeOK, ReqRec
<1>2. 2 * t = 10 + n * (n - 1) /\ t < MaxWait + (n - 1)
  BY <1>1 DEF WaitInv, WaitOf, LooksSum
<1> HIDE DEF n, t
<1>3. (n - 1) * (n - 2) = n * (n - 1) - 2 * (n - 1)
  BY <1>1
<1>4. t < MaxWait + n
  BY <1>1, <1>2
<1>5. n * (n - 1) \in Int
  BY <1>1
<1>6. n * (n - 1) - 2 * (n - 1) < 2 * MaxWait
  BY <1>1, <1>2, <1>5
<1> QED
  BY <1>3, <1>4, <1>6 DEF n, t

\* A thread of the server is held at most one pause beyond MaxWait, and looks
\* at the database only about the square root of twice MaxWait times.
THEOREM WaitStaysShort == Spec => []WaitIsShort
<1>1. Init => TypeInv /\ WaitInv
  BY TypeInvInit DEF Init, WaitInv, WaitOf, LooksSum
<1>2. TypeInv /\ WaitInv /\ [Next]_vars => TypeInv' /\ WaitInv'
  BY TypeInvStep, WaitInvStep
<1>3. TypeInv /\ WaitInv => WaitIsShort
  BY ShortFromWait
<1> QED
  BY <1>1, <1>2, <1>3, PTL DEF Spec

-------------------------------------------------------------------------------
(* What wait=true answers: WaitAnswersResult.                              *)

Done(s) == row[s] \in {"final", "deleted"}

AnswerOf(r) ==
  /\ req[r].pc = "reload" => req[r].waited >= MaxWait \/ Done(<<r, 1>>)
  /\ req[r].pc = "answered" => req[r].answer \in {"final", "errors"} \/ req[r].waited >= MaxWait

AnswerInv == rakes = 0 => \A r \in Reqs : Kind[r] = "wait" => AnswerOf(r)

\* Without a second job a row that is done stays done.
LEMMA DoneStays ==
  ASSUME ServiceInv, Next, rakes = 0
  PROVE  \A s \in Subm : Done(s) => Done(s)'
<1>1. CASE row' = row
  BY <1>1 DEF Done
<1>2. ASSUME NEW r \in Reqs, SaveItem(r), row' # row
      PROVE  \A s \in Subm : Done(s) => Done(s)'
  <2> DEFINE c == <<r, req[r].item>>
  <2>1. row' = [row EXCEPT ![c] = "queue"]
    BY <1>2 DEF SaveItem
  <2>2. req[r].pc = "save" /\ req[r].item \in Nat
    BY <1>2, Bounds DEF SaveItem, At, ServiceInv, TypeInv, TypeOK, ReqRec
  <2>3. c \in Subm /\ NotYet(c)
    BY <2>2, ItemAt DEF ServiceInv, Serving, NotYet, At
  <2>4. row[c] = "none"
    BY <2>3 DEF ServiceInv, RowInv, RowOf
  <2> QED
    BY <2>1, <2>3, <2>4 DEF Done, ServiceInv, TypeInv, TypeOK
<1>3. ASSUME NEW w \in Workers, StartJob(w)
      PROVE  \A s \in Subm : Done(s) => Done(s)'
  <2> DEFINE c == worker[w].job.sub
  <2>1. c \in Subm /\ HasJob(c) /\ ToDo(c)
    BY <1>3, StartJobEffect DEF ServiceInv, HasJob, ToDo
  <2>2. row[c] \in {"queue", "process"}
    BY <2>1 DEF ServiceInv, OneInv, OneOf
  <2>3. \A s \in Subm : s # c => row'[s] = row[s]
    BY <1>3, <2>1 DEF StartJob, ServiceInv, TypeInv, TypeOK
  <2> QED
    BY <2>2, <2>3 DEF Done
<1>6. ASSUME NEW w \in Workers, SaveVerdict(w) \/ RescueSave(w)
      PROVE  \A s \in Subm : Done(s) => Done(s)'
  BY <1>6, SaveEffect DEF ServiceInv, Done
<1>4. ASSUME NEW x \in Subm, Destroy(x)
      PROVE  \A s \in Subm : Done(s) => Done(s)'
  BY <1>4 DEF Destroy, Done, ServiceInv, TypeInv, TypeOK
<1>5. \/ row' = row
      \/ \E r \in Reqs : SaveItem(r)
      \/ \E w \in Workers : StartJob(w) \/ SaveVerdict(w) \/ RescueSave(w)
      \/ \E x \in Subm : Destroy(x)
  BY DEF Next, ReqStep, Admit, EnqueueItem, Poll, Reload, ServerDies, WorkerStep, Pop,
         FindFails, EndJob, LoseJob, EnqueueDelayed, RedisRestarts, RunInQueue, RunAgain,
         DestroyCheck
<1> QED
  BY <1>1, <1>2, <1>3, <1>4, <1>5, <1>6

\* A step of the request itself.
LEMMA AnswerStep ==
  ASSUME ServiceInv, AnswerInv, rakes = 0, NEW r \in Reqs, Kind[r] = "wait",
         Admit(r) \/ ReqStep(r) \/ ServerDies(r),
         \A s \in Subm : Done(s) => Done(s)'
  PROVE  AnswerOf(r)'
<1>1. TypeInv /\ AnswerOf(r)
  BY DEF ServiceInv, AnswerInv
<1>2. CASE Admit(r) \/ ServerDies(r)
  BY <1>1, <1>2, AdmitEffect, ServerDiesEffect DEF AnswerOf
<1>3. CASE SaveItem(r)
  BY <1>1, <1>3, SaveItemEffect DEF AnswerOf
<1>4. CASE EnqueueItem(r)
  BY <1>1, <1>4, EnqueueItemEffect DEF AnswerOf, ItemFollows
<1>5. CASE Poll(r)
  <2>1. CASE req'[r].pc = "reload" /\ ~Waiting(<<r, 1>>)
    <3> DEFINE s == <<r, 1>>
    <3>1. s \in Subm /\ row[s] \in {"none", "queue", "process", "final", "deleted"}
      BY <1>1, FirstItem DEF TypeInv, TypeOK
    <3>2. row[s] # "none"
      BY <1>1, <1>5, PollEffect DEF ServiceInv, RowInv, SleepOf
    <3>3. Done(s)
      BY <2>1, <3>1, <3>2 DEF Waiting, Done
    <3>4. Done(s)'
      BY <3>1, <3>3
    <3> QED
      BY <2>1, <3>4 DEF AnswerOf
  <2>2. CASE req'[r].pc = "reload" /\ req'[r].waited >= MaxWait
    BY <2>2 DEF AnswerOf
  <2>3. CASE req'[r].pc = "sleep"
    BY <2>3 DEF AnswerOf
  <2> QED
    BY <1>1, <1>5, <2>1, <2>2, <2>3, PollEffect
<1>6. CASE Reload(r)
  <2>1. CASE req'[r].pc = "failed"
    BY <2>1 DEF AnswerOf
  <2>2. CASE /\ req'[r].pc = "answered" /\ req'[r].answer = row[<<r, 1>>]
             /\ row[<<r, 1>>] # "deleted"
    <3>1. req[r].pc = "reload" /\ req'[r].waited = req[r].waited
      BY <1>1, <1>6, ReloadEffect DEF SameLooks
    <3>2. req[r].waited >= MaxWait \/ row[<<r, 1>>] \in {"final", "deleted"}
      BY <1>1, <3>1 DEF AnswerOf, Done
    <3> QED
      BY <2>2, <3>1, <3>2 DEF AnswerOf
  <2> QED
    BY <1>1, <1>6, <2>1, <2>2, ReloadEffect
<1> QED
  BY <1>2, <1>3, <1>4, <1>5, <1>6 DEF ReqStep

LEMMA AnswerInvStep == ServiceInv /\ AnswerInv /\ [Next]_vars => AnswerInv'
<1> SUFFICES ASSUME ServiceInv, AnswerInv, [Next]_vars PROVE AnswerInv'
  OBVIOUS
<1>1. CASE UNCHANGED vars
  BY <1>1 DEF AnswerInv, AnswerOf, Done, vars
<1>2. CASE Next /\ rakes' = 0
  <2>1. rakes = 0
    <3>1. rakes' = rakes \/ rakes' = rakes + 1
      BY <1>2 DEF Next, ReqStep, Admit, SaveItem, EnqueueItem, Poll, Reload, ServerDies,
             WorkerStep, Pop, StartJob, FindFails, SaveVerdict, RescueSave,
             EndJob, LoseJob, EnqueueDelayed,
             RedisRestarts, RunInQueue, RunAgain, DestroyCheck, Destroy
    <3>2. rakes \in Nat
      BY Bounds DEF ServiceInv, TypeInv, TypeOK
    <3> QED
      BY <1>2, <3>1, <3>2
  <2>2. \A s \in Subm : Done(s) => Done(s)'
    BY <1>2, <2>1, DoneStays
  <2>3. ASSUME NEW q \in Reqs, Kind[q] = "wait", req'[q] = req[q]
        PROVE  AnswerOf(q)'
    <3>1. Done(<<q, 1>>) => Done(<<q, 1>>)'
      BY <2>2, FirstItem
    <3> QED
      BY <2>1, <2>3, <3>1 DEF AnswerInv, AnswerOf
  <2>4. ASSUME NEW r \in Reqs, Admit(r) \/ ReqStep(r) \/ ServerDies(r)
        PROVE  AnswerInv'
    <3>1. OnlyReq(r)
      BY <2>4, AdmitEffect, SaveItemEffect, EnqueueItemEffect, PollEffect, ReloadEffect,
         ServerDiesEffect DEF ReqStep, ServiceInv
    <3>2. Kind[r] = "wait" => AnswerOf(r)'
      BY <2>1, <2>2, <2>4, AnswerStep
    <3>3. \A q \in Reqs \ {r} : Kind[q] = "wait" => AnswerOf(q)'
      BY <2>3, <3>1 DEF OnlyReq
    <3> QED
      BY <3>2, <3>3 DEF AnswerInv
  <2>5. CASE req' = req
    BY <2>3, <2>5 DEF AnswerInv
  <2>6. \/ \E r \in Reqs : Admit(r) \/ ReqStep(r) \/ ServerDies(r)
        \/ req' = req
    BY <1>2 DEF Next, WorkerStep, Pop, StartJob, FindFails, SaveVerdict, RescueSave,
           EndJob, LoseJob,
           EnqueueDelayed, RedisRestarts, RunInQueue, RunAgain, DestroyCheck, Destroy
  <2> QED
    BY <2>4, <2>5, <2>6
<1>3. CASE rakes' # 0
  BY <1>3 DEF AnswerInv
<1> QED
  BY <1>1, <1>2, <1>3

\* A creation with wait=true is answered the verdict, or perform_now has waited
\* for as long as it should: what its last look found is what it reloads.
THEOREM WaitAnswersVerdict == Spec => []WaitAnswersResult
<1>1. Init => AnswerInv
  BY DEF Init, AnswerInv, AnswerOf
<1>2. ServiceInv /\ AnswerInv /\ [Next]_vars => AnswerInv'
  BY AnswerInvStep
<1>3. AnswerInv => WaitAnswersResult
  BY DEF AnswerInv, AnswerOf, WaitAnswersResult
<1> QED
  BY <1>1, <1>2, <1>3, ServiceInvKept, PTL DEF Spec

-------------------------------------------------------------------------------
(* How far the queue can grow: QueueOvershoot.                             *)

\* The items that requests have seen room for and not enqueued yet.
Pending ==
  {s \in Reqs \X (1..MaxBatch) :
     /\ req[s[1]].pc \in {"save", "enqueue"}
     /\ s[2] >= req[s[1]].item /\ s[2] <= Size[s[1]]}

Bound == MaxQueueSize + (Threads - 1) * MaxBatch

\* Nothing is ever tried again, and what is in the queue and what will be fits.
RoomInv == delayed = <<>> /\ Len(queue) + Cardinality(Pending) <= Bound

LEMMA Counted ==
  ASSUME NEW n \in Nat
  PROVE  IsFiniteSet(1..n) /\ Cardinality(1..n) = n
  BY FS_Interval

LEMMA PendingFinite == IsFiniteSet(Pending) /\ Cardinality(Pending) \in Nat
<1>1. IsFiniteSet(1..MaxBatch)
  BY Bounds, FS_Interval
<1>2. IsFiniteSet(Reqs \X (1..MaxBatch))
  BY <1>1, ServiceAssumption, FS_Product
<1>3. Pending \subseteq Reqs \X (1..MaxBatch)
  BY DEF Pending
<1> QED
  BY <1>2, <1>3, FS_Subset, FS_CardinalityType

\* What is pending belongs to the requests that are served.
LEMMA PendingServed == Cardinality(Pending) <= Cardinality(Served) * MaxBatch
<1>1. IsFiniteSet(Served)
  <2>1. Served \subseteq Reqs
    BY DEF Served
  <2> QED
    BY <2>1, ServiceAssumption, FS_Subset
<1>2. IsFiniteSet(1..MaxBatch) /\ Cardinality(1..MaxBatch) = MaxBatch
  <2>1. 1 <= MaxBatch /\ MaxBatch \in Int
    BY Bounds
  <2> QED
    BY <2>1, FS_Interval
<1>3. /\ IsFiniteSet(Served \X (1..MaxBatch))
      /\ Cardinality(Served \X (1..MaxBatch)) = Cardinality(Served) * MaxBatch
  BY <1>1, <1>2, FS_Product
<1>4. Pending \subseteq Served \X (1..MaxBatch)
  BY DEF Pending, Served, Serving
<1> QED
  BY <1>3, <1>4, FS_Subset

LEMMA BoundType == Bound \in Nat
<1>1. Threads - 1 \in Nat /\ MaxBatch \in Nat /\ MaxQueueSize \in Nat
  BY Bounds
<1>2. (Threads - 1) * MaxBatch \in Nat
  BY <1>1
<1> QED
  BY <1>1, <1>2 DEF Bound

\* The pending items of a request that moves on are pending before.
LEMMA PendingStep ==
  ASSUME NEW r \in Reqs, OnlyReq(r),
         req'[r].pc \in {"save", "enqueue"} =>
           /\ req[r].pc \in {"save", "enqueue"} /\ req[r].item \in Nat
           /\ req'[r].item \in {req[r].item, req[r].item + 1}
  PROVE  Pending' \subseteq Pending
<1> SUFFICES ASSUME NEW s \in Reqs \X (1..MaxBatch),
                    req'[s[1]].pc \in {"save", "enqueue"},
                    s[2] >= req'[s[1]].item, s[2] <= Size[s[1]]
             PROVE  /\ req[s[1]].pc \in {"save", "enqueue"}
                    /\ s[2] >= req[s[1]].item
  BY DEF Pending
<1>1. s[1] \in Reqs /\ s[2] \in Nat
  BY Bounds
<1>2. CASE s[1] # r
  BY <1>1, <1>2 DEF OnlyReq
<1>3. CASE s[1] = r
  BY <1>1, <1>3
<1> QED
  BY <1>2, <1>3

\* A step that leaves no more pending and the queue no longer.
LEMMA RoomKept ==
  ASSUME RoomInv, delayed' = delayed, Pending' \subseteq Pending,
         Len(queue) \in Nat, Len(queue') \in Nat, Len(queue') <= Len(queue)
  PROVE  RoomInv'
<1>1. IsFiniteSet(Pending') /\ Cardinality(Pending') <= Cardinality(Pending)
  BY PendingFinite, FS_Subset
<1>2. Cardinality(Pending) \in Nat /\ Cardinality(Pending') \in Nat
  BY <1>1, PendingFinite, FS_CardinalityType
<1>3. Bound' = Bound /\ Bound \in Nat
  BY BoundType DEF Bound
<1>4. Len(queue') + Cardinality(Pending') <= Bound
  BY <1>1, <1>2, <1>3 DEF RoomInv
<1> QED
  BY <1>3, <1>4 DEF RoomInv

LEMMA AdmitRoom ==
  ASSUME TypeInv, RoomInv, NEW r \in Reqs, Admit(r)
  PROVE  RoomInv'
<1>1. /\ OnlyReq(r) /\ SameData(r) /\ req[r].pc = "new"
      /\ UNCHANGED <<queue, delayed>> /\ Cardinality(Served) < Threads
  BY AdmitEffect DEF Admit
<1>2. queue \in Seq(JobRec) /\ Len(queue) \in Nat
  BY LenProperties DEF TypeInv, TypeOK
<1>3. CASE req'[r].pc = "refused"
  BY <1>1, <1>2, <1>3, PendingStep, RoomKept
<1>4. CASE req'[r].pc = "save" /\ ~Refused(r) /\ HasRoom(r)
  <2> DEFINE mine == {r} \X (1..Size[r])
  <2>1. Size[r] \in Nat /\ MaxQueueSize \in Nat /\ Len(queue) + Size[r] <= MaxQueueSize
    BY <1>4, ServiceAssumption DEF HasRoom
  <2>2. IsFiniteSet(mine) /\ Cardinality(mine) = Size[r]
    <3>1. IsFiniteSet({r}) /\ Cardinality({r}) = 1
      BY FS_Singleton
    <3>2. IsFiniteSet(1..Size[r]) /\ Cardinality(1..Size[r]) = Size[r]
      BY <2>1, Counted
    <3>3. /\ IsFiniteSet(mine)
          /\ Cardinality(mine) = Cardinality({r}) * Cardinality(1..Size[r])
      BY <3>1, <3>2, FS_Product
    <3> QED
      BY <2>1, <3>1, <3>2, <3>3
  <2>3. Pending' \subseteq Pending \cup mine
    <3> SUFFICES ASSUME NEW s \in Pending', s \notin mine PROVE s \in Pending
      OBVIOUS
    <3>1. /\ s \in Reqs \X (1..MaxBatch) /\ req'[s[1]].pc \in {"save", "enqueue"}
          /\ s[2] >= req'[s[1]].item /\ s[2] <= Size[s[1]]
      BY DEF Pending
    <3>2. s[1] # r
      <4>1. s = <<s[1], s[2]>> /\ s[2] \in 1..MaxBatch
        BY <3>1
      <4>2. s[1] = r => s[2] \in 1..Size[r]
        BY <2>1, <3>1, <4>1, Bounds
      <4> QED
        BY <4>1, <4>2
    <3> QED
      BY <1>1, <3>1, <3>2 DEF Pending, OnlyReq
  <2>4. /\ IsFiniteSet(Pending \cup mine)
        /\ Cardinality(Pending \cup mine) <= Cardinality(Pending) + Size[r]
    <3>1. /\ IsFiniteSet(Pending \cup mine)
          /\ Cardinality(Pending \cup mine) =
               Cardinality(Pending) + Cardinality(mine) - Cardinality(Pending \cap mine)
      BY <2>2, PendingFinite, FS_Union
    <3>2. Cardinality(Pending \cap mine) \in Nat
      <4>1. IsFiniteSet(Pending \cap mine)
        BY PendingFinite, FS_Subset
      <4> QED
        BY <4>1, FS_CardinalityType
    <3> HIDE DEF mine
    <3> QED
      BY <2>1, <2>2, <3>1, <3>2, PendingFinite
  <2>5. /\ Cardinality(Pending') <= Cardinality(Pending) + Size[r]
        /\ Cardinality(Pending') \in Nat
    <3>1. IsFiniteSet(Pending') /\ Cardinality(Pending') <= Cardinality(Pending \cup mine)
      BY <2>3, <2>4, FS_Subset
    <3>2. Cardinality(Pending') \in Nat /\ Cardinality(Pending \cup mine) \in Nat
      BY <2>4, <3>1, FS_CardinalityType
    <3> QED
      BY <2>1, <2>4, <3>1, <3>2, PendingFinite
  <2>6. Cardinality(Pending) <= (Threads - 1) * MaxBatch
    <3>1. Cardinality(Served) \in Nat
      <4>1. Served \subseteq Reqs
        BY DEF Served
      <4> QED
        BY <4>1, ServiceAssumption, FS_Subset, FS_CardinalityType
    <3>2. Threads - 1 \in Nat /\ MaxBatch \in Nat /\ Cardinality(Served) <= Threads - 1
      BY <1>1, <3>1, Bounds
    <3>3. Cardinality(Served) * MaxBatch <= (Threads - 1) * MaxBatch
      BY <3>1, <3>2
    <3>4. (Threads - 1) * MaxBatch \in Nat /\ Cardinality(Served) * MaxBatch \in Nat
      BY <3>1, <3>2
    <3> QED
      BY <3>3, <3>4, PendingServed, PendingFinite
  <2>7. (Threads - 1) * MaxBatch \in Int
    BY Bounds
  <2>8. Len(queue) + Cardinality(Pending') <= Bound
    BY <1>2, <2>1, <2>5, <2>6, <2>7, PendingFinite DEF Bound
  <2> QED
    BY <1>1, <2>8 DEF RoomInv, Bound
<1> QED
  BY <1>3, <1>4, AdmitEffect

LEMMA SaveItemRoom ==
  ASSUME TypeInv, RoomInv, NEW r \in Reqs, SaveItem(r)
  PROVE  RoomInv'
<1>1. /\ OnlyReq(r) /\ req[r].pc = "save" /\ UNCHANGED <<queue, delayed>>
      /\ req'[r].pc \in {"save", "enqueue"} => req'[r].item \in {req[r].item, req[r].item + 1}
  BY SaveItemEffect DEF SaveItem, SameData, ItemFollows
<1>2. queue \in Seq(JobRec) /\ Len(queue) \in Nat /\ req[r].item \in Nat
  BY LenProperties, Bounds DEF TypeInv, TypeOK, ReqRec
<1>3. Pending' \subseteq Pending
  BY <1>1, <1>2, PendingStep
<1> QED
  BY <1>1, <1>2, <1>3, RoomKept

LEMMA EnqueueItemRoom ==
  ASSUME TypeInv, RoomInv, NEW r \in Reqs, EnqueueItem(r)
  PROVE  RoomInv'
<1> DEFINE c == <<r, req[r].item>>
<1>1. /\ OnlyReq(r) /\ req[r].pc = "enqueue" /\ delayed' = delayed
      /\ req'[r].pc \in {"save", "enqueue"} =>
           req'[r].pc = "save" /\ req'[r].item = req[r].item + 1
  BY EnqueueItemEffect DEF EnqueueItem, SameData, ItemFollows
<1>2. /\ c \in Subm /\ req[r].item \in 1..Size[r] /\ Size[r] \in 1..MaxBatch
      /\ req[r].item \in Nat
  BY <1>1, ItemAt, Bounds DEF Serving, TypeInv, TypeOK, ReqRec
<1>3. queue \in Seq(JobRec) /\ Job(c) \in JobRec /\ Len(queue) \in Nat
  BY <1>2, JobType, LenProperties DEF TypeInv, TypeOK
<1>4. Len(queue') \in Nat /\ Len(queue') <= Len(queue) + 1
  <2>1. queue' = queue \/ queue' = Append(queue, Job(c))
    BY EnqueueItemEffect
  <2> QED
    BY <1>3, <2>1, AppendJob
<1>5. c \in Pending
  <2>1. req[r].item <= Size[r] /\ req[r].item \in 1..MaxBatch
    BY <1>2, Bounds
  <2> QED
    BY <1>1, <1>2, <2>1 DEF Pending
<1>6. Pending' \subseteq Pending
  BY <1>1, <1>2, PendingStep
<1>7. \A s \in Pending' : s # c
  <2> SUFFICES ASSUME NEW s \in Pending', s = c PROVE FALSE
    OBVIOUS
  <2>1. req'[r].pc \in {"save", "enqueue"} /\ req[r].item >= req'[r].item
    BY DEF Pending
  <2> QED
    BY <1>1, <1>2, <2>1
<1>8. Cardinality(Pending') \in Nat /\ Cardinality(Pending') <= Cardinality(Pending) - 1
  <2> DEFINE rest == Pending \ {c}
  <2>1. IsFiniteSet(rest) /\ Cardinality(rest) = Cardinality(Pending) - 1
    BY <1>5, PendingFinite, FS_RemoveElement
  <2>2. Pending' \subseteq rest
    BY <1>6, <1>7
  <2> HIDE DEF rest
  <2>3. IsFiniteSet(Pending') /\ Cardinality(Pending') <= Cardinality(rest)
    BY <2>1, <2>2, FS_Subset
  <2> QED
    BY <2>1, <2>3, FS_CardinalityType
<1>9. Bound' = Bound /\ Bound \in Nat
  BY BoundType DEF Bound
<1>10. Len(queue') + Cardinality(Pending') <= Bound
  BY <1>3, <1>4, <1>8, <1>9, PendingFinite DEF RoomInv
<1> QED
  BY <1>1, <1>9, <1>10 DEF RoomInv

LEMMA QuietRoom ==
  ASSUME TypeInv, RoomInv, UNCHANGED <<req, queue, delayed>>
  PROVE  RoomInv'
<1>1. Pending' = Pending
  BY DEF Pending
<1> QED
  BY <1>1 DEF RoomInv, Bound

LEMMA PollsRoom ==
  ASSUME TypeInv, RoomInv, NEW r \in Reqs, Poll(r) \/ Reload(r) \/ ServerDies(r)
  PROVE  RoomInv'
<1>1. /\ OnlyReq(r) /\ req'[r].pc \notin {"save", "enqueue"}
      /\ UNCHANGED <<queue, delayed>>
  BY PollEffect, ReloadEffect, ServerDiesEffect DEF Poll, Reload, ServerDies
<1>2. queue \in Seq(JobRec) /\ Len(queue) \in Nat
  BY LenProperties DEF TypeInv, TypeOK
<1> QED
  BY <1>1, <1>2, PendingStep, RoomKept

\* Jobs leave the queue, and without failing statements or a second job none
\* is put into the schedule.
LEMMA WorkerRoom ==
  ASSUME "db" \notin Faults, "rake" \notin Faults,
         ServiceInv, RoomInv, NEW w \in Workers, WorkerStep(w) \/ LoseJob(w)
  PROVE  RoomInv'
<1>1. CASE Pop(w)
  <2>1. queue \in Seq(JobRec) /\ queue # <<>> /\ Len(queue) \in Nat
    BY <1>1, LenProperties DEF ServiceInv, TypeInv, TypeOK, Pop
  <2>2. Len(queue') = Len(queue) - 1 /\ Len(queue) > 0
    BY <1>1, <2>1, TailJob DEF Pop
  <2>3. Len(queue') \in Nat /\ Len(queue') <= Len(queue)
    BY <2>1, <2>2
  <2>4. Pending' = Pending /\ delayed' = delayed
    BY <1>1 DEF Pending, Pop
  <2> QED
    BY <2>1, <2>3, <2>4, RoomKept
<1>2. CASE StartJob(w) \/ SaveVerdict(w) \/ RescueSave(w) \/ EndJob(w) \/ LoseJob(w)
  BY <1>2, QuietRoom DEF StartJob, SaveVerdict, RescueSave, EndJob, LoseJob, ServiceInv
<1>3. CASE FindFails(w)
  <2>1. /\ worker[w].pc # "idle" /\ worker[w].pc \in Working
        /\ row[worker[w].job.sub] = "deleted"
    BY <1>3 DEF FindFails, Found, Working
  <2> QED
    BY <2>1, JobRow
<1> QED
  BY <1>1, <1>2, <1>3 DEF WorkerStep

LEMMA RedisRoom ==
  ASSUME "rake" \notin Faults, ServiceInv, RoomInv,
         \/ EnqueueDelayed \/ RedisRestarts \/ RunInQueue
         \/ \E s \in Subm : RunAgain(s) \/ DestroyCheck(s) \/ Destroy(s)
  PROVE  RoomInv'
<1>1. CASE RedisRestarts
  <2>1. Pending' = Pending /\ delayed' = delayed /\ Len(queue') = 0
    BY <1>1, EmptySeq DEF Pending, RedisRestarts, RoomInv
  <2>2. Len(queue) \in Nat
    BY LenProperties DEF ServiceInv, TypeInv, TypeOK
  <2> QED
    BY <2>1, <2>2, RoomKept
<1>2. rake = {}
  BY DEF ServiceInv, RowInv, OneInv
<1>3. ASSUME NEW s \in Subm, DestroyCheck(s) \/ Destroy(s) PROVE RoomInv'
  BY <1>3, QuietRoom DEF DestroyCheck, Destroy, ServiceInv
<1> QED
  BY <1>1, <1>2, <1>3 DEF EnqueueDelayed, RoomInv, RunInQueue, RunAgain

\* Where no statement fails and nobody runs run_in_queue, the queue is never
\* longer than MAX_QUEUE_SIZE and one batch for every other thread: the check
\* of the size and the jobs it lets in are apart, but not further than that.
THEOREM QueueStaysNear ==
  ASSUME "db" \notin Faults, "rake" \notin Faults
  PROVE  Spec => []QueueOvershoot
<1>1. Init => RoomInv
  <2> SUFFICES ASSUME Init PROVE RoomInv
    OBVIOUS
  <2>1. Pending = {}
    BY DEF Init, Pending
  <2>2. Len(queue) = 0
    BY EmptySeq DEF Init
  <2> QED
    BY <2>1, <2>2, FS_EmptySet, BoundType DEF RoomInv, Init
<1>2. ServiceInv /\ RoomInv /\ [Next]_vars => RoomInv'
  <2> SUFFICES ASSUME ServiceInv, RoomInv, [Next]_vars PROVE RoomInv'
    OBVIOUS
  <2>1. ASSUME NEW r \in Reqs, Admit(r) \/ ReqStep(r) \/ ServerDies(r) PROVE RoomInv'
    BY <2>1, AdmitRoom, SaveItemRoom, EnqueueItemRoom, PollsRoom DEF ReqStep, ServiceInv
  <2>2. ASSUME NEW w \in Workers, WorkerStep(w) \/ LoseJob(w) PROVE RoomInv'
    BY <2>2, WorkerRoom
  <2>3. CASE EnqueueDelayed \/ RedisRestarts \/ RunInQueue
    BY <2>3, RedisRoom
  <2>4. ASSUME NEW s \in Subm, RunAgain(s) \/ DestroyCheck(s) \/ Destroy(s) PROVE RoomInv'
    BY <2>4, RedisRoom
  <2>5. CASE UNCHANGED vars
    BY <2>5, QuietRoom DEF vars, ServiceInv
  <2> QED
    BY <2>1, <2>2, <2>3, <2>4, <2>5 DEF Next
<1>3. ServiceInv /\ RoomInv => QueueOvershoot
  <2> SUFFICES ASSUME ServiceInv, RoomInv PROVE Len(queue) <= Bound
    BY DEF QueueOvershoot, Bound
  <2>1. Len(queue) \in Nat
    BY LenProperties DEF ServiceInv, TypeInv, TypeOK
  <2> QED
    BY <2>1, PendingFinite, BoundType DEF RoomInv
<1> QED
  BY <1>1, <1>2, <1>3, ServiceInvKept, PTL DEF Spec
=================================================================================
