--------------------------- MODULE IsolateJob_proofs ---------------------------
(***************************************************************************)
(* Theorems about IsolateJob: for every set of jobs, number of runs,       *)
(* number of attempts and combination of faults.                           *)
(***************************************************************************)
EXTENDS IsolateJob, TLAPS

RowRec == [st : {0, Queue, Process} \cup FinalIds, out : OutKinds, fin : BOOLEAN]

\* One job moves to r. What the step must show of r, of the row and of the
\* sandbox for the invariant to survive it.
LEMMA Moves ==
  ASSUME IsolateInv, NEW j \in Jobs, NEW r \in JobRec, Set(j, r), JobInv(r),
         row' \in RowRec, box' \in BOOLEAN, UNCHANGED <<archived, deleting>>,
         sent' \in [Jobs -> {0} \cup FinalIds],
         row'.st \in FinalIds => row'.fin,
         row'.st = Ac => row.st = Ac \/ Accepts(r),
         Accepts(job[j]) => Accepts(r),
         box' => box \/ Owns(r),
         box' /\ Owns(job[j]) => Owns(r),
         row'.st \in {Queue, Process} => row.st \in {Queue, Process} \/ Pending(r),
         row'.st \in {Queue, Process} /\ Pending(job[j]) => Pending(r)
  PROVE  IsolateInv'
<1>1. job \in [Jobs -> JobRec] /\ job' = [job EXCEPT ![j] = r]
  BY DEF IsolateInv, TypeOK, Set
<1>2. \A i \in Jobs : job'[i] = IF i = j THEN r ELSE job[i]
  BY <1>1
<1>3. TypeOK'
  BY <1>1 DEF IsolateInv, TypeOK, RowRec
<1>4. FinalIsFinished'
  BY DEF FinalIsFinished
<1>5. \A i \in Jobs : JobInv(job'[i])
  BY <1>2 DEF IsolateInv
<1>6. row'.st = Ac => \E i \in Jobs : Accepts(job'[i])
  BY <1>2 DEF IsolateInv
<1>7. box' => \E i \in Jobs : Owns(job'[i])
  BY <1>2 DEF IsolateInv
<1>8. row'.st \in {Queue, Process} => \E i \in Jobs : Pending(job'[i])
  BY <1>2 DEF IsolateInv
<1> QED
  BY <1>3, <1>4, <1>5, <1>6, <1>7, <1>8 DEF IsolateInv

\* A job moves and leaves the row and the sandbox as they are.
LEMMA MovesQuietly ==
  ASSUME IsolateInv, NEW j \in Jobs, NEW r \in JobRec, Set(j, r), JobInv(r),
         UNCHANGED <<row, archived, deleting, box, sent>>,
         Accepts(job[j]) => Accepts(r),
         box /\ Owns(job[j]) => Owns(r),
         row.st \in {Queue, Process} /\ Pending(job[j]) => Pending(r)
  PROVE  IsolateInv'
<1>1. row' \in RowRec /\ box' \in BOOLEAN /\ sent' \in [Jobs -> {0} \cup FinalIds]
  BY DEF IsolateInv, TypeOK, RowRec
<1>2. row'.st \in FinalIds => row'.fin
  BY DEF IsolateInv, FinalIsFinished
<1> QED
  BY <1>1, <1>2, Moves

\* What save leaves in the row.
LEMMA SaveEffect ==
  ASSUME NEW r \in JobRec, row \in RowRec
  PROVE  /\ Save(r) \in RowRec
         /\ row.st = 0 \/ ~r.saves => Save(r) = row
         /\ row.st # 0 /\ r.saves => Save(r).st = r.status /\ Save(r).fin = (row.fin \/ r.fin)
<1>1. CASE row.st = 0 \/ ~r.saves
  BY <1>1 DEF Save
<1>2. CASE row.st # 0 /\ r.saves
  <2>1. /\ r.status \in {0, Queue, Process} \cup FinalIds
        /\ (row.fin \/ r.fin) \in BOOLEAN
        /\ (IF r.out # r.was THEN r.out ELSE row.out) \in OutKinds
    BY DEF JobRec, RowRec
  <2> QED
    BY <1>2, <2>1 DEF Save, RowRec
<1> QED
  BY <1>1, <1>2

\* A verdict, once saved, is in the row; nothing else got there by it.
LEMMA SaveVerdict ==
  ASSUME IsolateInv, NEW r \in JobRec, r.status \in FinalIds, r.fin
  PROVE  /\ Save(r) \in RowRec
         /\ Save(r).st \in FinalIds => Save(r).fin
         /\ Save(r).st = Ac => row.st = Ac \/ r.status = Ac
         /\ Save(r).st \in {Queue, Process} => row.st \in {Queue, Process} /\ ~r.saves
<1>1. row \in RowRec /\ FinalIsFinished
  BY DEF IsolateInv, TypeOK, RowRec
<1>2. \A v \in FinalIds : v \notin {Queue, Process}
  BY DEF FinalIds, Queue, Process
<1>3. CASE row.st = 0
  BY <1>1, <1>3, SaveEffect DEF FinalIds, Ac, Queue, Process
<1>4. CASE row.st # 0 /\ ~r.saves
  BY <1>1, <1>4, SaveEffect DEF FinalIsFinished
<1>5. CASE row.st # 0 /\ r.saves
  BY <1>1, <1>2, <1>5, SaveEffect
<1> QED
  BY <1>3, <1>4, <1>5

\* The initial state: a row that waits and the job that will run it.
LEMMA IsolateInit == Init => IsolateInv
<1> SUFFICES ASSUME Init PROVE IsolateInv
  OBVIOUS
<1>1. First \in Jobs /\ 0 \in 0..NumberOfRuns /\ 0 \in 0..MaxAttempts
  BY JobAssumption
<1>2. NoJob \in JobRec /\ [NoJob EXCEPT !.pc = "queued"] \in JobRec
  BY <1>1 DEF NoJob, JobRec, Pcs, OutKinds
<1>3. /\ NoJob.pc = "none" /\ ~NoJob.inited /\ NoJob.runs = 0
      /\ [NoJob EXCEPT !.pc = "queued"].pc = "queued"
      /\ ~[NoJob EXCEPT !.pc = "queued"].inited /\ [NoJob EXCEPT !.pc = "queued"].runs = 0
      /\ NoJob.tries = 0 /\ [NoJob EXCEPT !.pc = "queued"].tries = 0
  BY DEF NoJob
<1>4. TypeOK
  BY <1>1, <1>2 DEF Init, TypeOK, OutKinds
<1>5. \A j \in Jobs : job[j] = NoJob \/ job[j] = [NoJob EXCEPT !.pc = "queued"]
  BY DEF Init
<1>6. \A j \in Jobs : JobInv(job[j])
  <2>1. 0 < MaxAttempts
    BY JobAssumption
  <2> QED
    BY <1>3, <1>5, <2>1 DEF JobInv
<1>7. Pending(job[First])
  BY <1>1, <1>3 DEF Init, Pending
<1> QED
  BY <1>1, <1>4, <1>6, <1>7 DEF Init, IsolateInv, FinalIsFinished, FinalIds, Queue, Ac

-------------------------------------------------------------------------------
(* One lemma per action.                                                   *)

\* What is known of a job before its step.
LEMMA Before ==
  ASSUME IsolateInv, NEW j \in Jobs
  PROVE  job[j] \in JobRec /\ JobInv(job[j]) /\ row \in RowRec
  BY DEF IsolateInv, TypeOK, RowRec

\* A job record moves to another step and keeps everything else.
LEMMA GotoEffect ==
  ASSUME NEW r \in JobRec, NEW pc \in Pcs
  PROVE  /\ Goto(r, pc) \in JobRec /\ Goto(r, pc).pc = pc
         /\ Goto(r, pc).status = r.status /\ Goto(r, pc).runs = r.runs
         /\ Goto(r, pc).fin = r.fin /\ Goto(r, pc).saves = r.saves
         /\ Goto(r, pc).inited = r.inited
  BY DEF Goto, JobRec

\* All steps of a job are among its program counters.
LEMMA PcSet ==
  /\ "none" \in Pcs /\ "queued" \in Pcs /\ "mark" \in Pcs /\ "init" \in Pcs
  /\ "compile" \in Pcs /\ "run" \in Pcs /\ "verify" \in Pcs /\ "clean" \in Pcs
  /\ "check" \in Pcs /\ "average" \in Pcs /\ "rescue" \in Pcs /\ "lastclean" \in Pcs
  /\ "callback" \in Pcs /\ "done" \in Pcs /\ "failed" \in Pcs /\ "killed" \in Pcs
  BY DEF Pcs, Running

\* An exception takes the job to the rescue clause.
LEMMA Raised ==
  ASSUME IsolateInv, NEW j \in Jobs, Set(j, Goto(job[j], "rescue")),
         job[j].pc \in {"mark", "init", "compile", "run", "verify", "check", "average"},
         UNCHANGED <<row, archived, deleting, box, sent>>
  PROVE  IsolateInv'
<1> DEFINE r == Goto(job[j], "rescue")
<1>1. job[j] \in JobRec /\ JobInv(job[j])
  BY Before
<1>2. r \in JobRec /\ r.pc = "rescue" /\ r.status = job[j].status /\ r.inited = job[j].inited
  <2>1. "rescue" \in Pcs
    BY PcSet
  <2> QED
    BY <1>1, <2>1, GotoEffect
<1>3. JobInv(r) /\ Pending(r)
  BY <1>2 DEF JobInv, Pending
<1>4. Accepts(job[j]) => Accepts(r)
  BY DEF Accepts
<1>5. Owns(job[j]) => Owns(r)
  BY <1>2 DEF Owns
<1> QED
  BY <1>2, <1>3, <1>4, <1>5, MovesQuietly

\* A job is loaded, put back or given up.
LEMMA FindInv ==
  ASSUME IsolateInv, NEW j \in Jobs, Find(j)
  PROVE  IsolateInv'
<1>1. job[j] \in JobRec /\ JobInv(job[j]) /\ row \in RowRec /\ job[j].pc = "queued"
  BY Before DEF Find, At
<1>2. ~Accepts(job[j]) /\ ~Owns(job[j])
  BY <1>1 DEF Accepts, Owns, JobInv
<1>3. CASE /\ row.st = 0 \/ "db" \in Faults
           /\ Set(j, [job[j] EXCEPT !.tries = @ + 1,
                        !.pc = IF job[j].tries + 1 < MaxAttempts THEN "queued" ELSE "failed"])
  <2> DEFINE pc == IF job[j].tries + 1 < MaxAttempts THEN "queued" ELSE "failed"
             n == job[j].tries + 1
             r == [job[j] EXCEPT !.tries = n, !.pc = pc]
  <2>0. pc \in {"queued", "failed"}
    OBVIOUS
  <2>1. CASE n \in 0..MaxAttempts
    <3>1. pc \in Pcs
      BY <2>0, PcSet
    <3>2. Set(j, r)
      BY <1>3
    <3> HIDE DEF pc, n
    <3>3. /\ r \in JobRec /\ r.pc = pc /\ r.inited = job[j].inited /\ r.runs = job[j].runs
          /\ r.tries = n
      BY <1>1, <2>1, <3>1 DEF JobRec
    <3>a. pc = "queued" => n < MaxAttempts
      BY DEF pc, n
    <3>4. JobInv(r) /\ Pending(r)
      BY <1>1, <2>0, <3>3, <3>a DEF JobInv, Pending
    <3> HIDE DEF r
    <3> QED
      BY <1>2, <3>2, <3>3, <3>4, MovesQuietly DEF Find
  <2>2. n \in 0..MaxAttempts
    <3>1. job[j].tries \in 0..MaxAttempts /\ job[j].tries < MaxAttempts
      BY <1>1 DEF JobRec, JobInv
    <3> QED
      BY <3>1, JobAssumption
  <2> QED
    BY <2>1, <2>2
<1>4. CASE /\ row.st # 0
           /\ Set(j, [job[j] EXCEPT !.pc = "mark", !.status = row.st, !.out = row.out,
                                    !.was = row.out])
  <2> DEFINE r == [job[j] EXCEPT !.pc = "mark", !.status = row.st, !.out = row.out,
                                 !.was = row.out]
  <2>1. row.st \in {Queue, Process} \cup FinalIds /\ row.out \in OutKinds
    BY <1>1, <1>4 DEF RowRec
  <2>2. /\ r \in JobRec /\ r.pc = "mark" /\ r.inited = job[j].inited /\ r.runs = job[j].runs
    BY <1>1, <2>1, PcSet DEF JobRec
  <2>3. JobInv(r) /\ Pending(r)
    BY <1>1, <2>2 DEF JobInv, Pending
  <2> HIDE DEF r
  <2> QED
    BY <1>2, <1>4, <2>2, <2>3, MovesQuietly DEF Find, r
<1> QED
  BY <1>3, <1>4 DEF Find

\* Processing is written, unless the row can no longer be saved.
LEMMA MarkProcessInv ==
  ASSUME IsolateInv, NEW j \in Jobs, MarkProcess(j)
  PROVE  IsolateInv'
<1>1. job[j] \in JobRec /\ JobInv(job[j]) /\ row \in RowRec /\ job[j].pc = "mark"
      /\ archived \in BOOLEAN
  BY Before DEF MarkProcess, At, IsolateInv, TypeOK
<1>2. CASE DbFails(j)
  BY <1>1, <1>2, Raised DEF DbFails
<1>3. CASE ~DbFails(j)
  <2> DEFINE r == [job[j] EXCEPT !.status = Process, !.saves = ~archived, !.pc = "init"]
  <2>1. /\ Set(j, r) /\ row' = (IF job[j].status = Process THEN row ELSE Save(r))
        /\ UNCHANGED <<archived, deleting, box, sent>>
    BY <1>3 DEF MarkProcess
  <2>2. /\ r \in JobRec /\ r.pc = "init" /\ r.inited = job[j].inited /\ r.runs = job[j].runs
        /\ r.status = Process
    BY <1>1, PcSet DEF JobRec
  <2> HIDE DEF r
  <2>3. 0 < NumberOfRuns
    BY JobAssumption
  <2>4. JobInv(r) /\ Pending(r) /\ ~Owns(job[j]) /\ ~Accepts(job[j])
    BY <1>1, <2>2, <2>3 DEF JobInv, Pending, Owns, Accepts
  <2>5. /\ row' \in RowRec
        /\ (row'.st = row.st /\ row'.fin = row.fin) \/ row'.st = Process
    BY <1>1, <2>1, <2>2, SaveEffect
  <2>6. FinalIsFinished /\ Process \notin FinalIds /\ Process # Ac
    BY DEF IsolateInv, Process, FinalIds, Ac
  <2>7. box' \in BOOLEAN /\ sent' \in [Jobs -> {0} \cup FinalIds]
    BY <2>1 DEF IsolateInv, TypeOK
  <2> QED
    BY <2>1, <2>2, <2>4, <2>5, <2>6, <2>7, Moves DEF FinalIsFinished
<1> QED
  BY <1>2, <1>3

\* The sandbox is made by a job that answers for it.
LEMMA InitializeWorkdirInv ==
  ASSUME IsolateInv, NEW j \in Jobs, InitializeWorkdir(j)
  PROVE  IsolateInv'
<1>1. job[j] \in JobRec /\ JobInv(job[j]) /\ row \in RowRec /\ job[j].pc = "init"
  BY Before DEF InitializeWorkdir, At
<1>2. PICK pc \in {"compile", "rescue"} :
        /\ Set(j, [job[j] EXCEPT !.pc = pc, !.inited = TRUE])
        /\ box' = TRUE \/ box' = box
  BY DEF InitializeWorkdir
<1> DEFINE r == [job[j] EXCEPT !.pc = pc, !.inited = TRUE]
<1>3. /\ r \in JobRec /\ r.pc = pc /\ r.inited /\ r.runs = job[j].runs
  BY <1>1, <1>2, PcSet DEF JobRec
<1>4. Set(j, r)
  BY <1>2
<1> HIDE DEF r
<1>5. JobInv(r) /\ Pending(r) /\ Owns(r) /\ ~Accepts(job[j])
  BY <1>1, <1>2, <1>3 DEF JobInv, Pending, Owns, Accepts
<1>6. UNCHANGED <<row, archived, deleting, sent>>
  BY DEF InitializeWorkdir
<1>7. row.st \in FinalIds => row.fin
  BY DEF IsolateInv, FinalIsFinished
<1>8. row' \in RowRec /\ box' \in BOOLEAN /\ sent' \in [Jobs -> {0} \cup FinalIds]
  BY <1>1, <1>2, <1>6 DEF IsolateInv, TypeOK
<1> QED
  BY <1>3, <1>4, <1>5, <1>6, <1>7, <1>8, Moves

\* A compile error is saved before the sandbox is cleaned up.
LEMMA CompileInv ==
  ASSUME IsolateInv, NEW j \in Jobs, Compile(j)
  PROVE  IsolateInv'
<1>1. job[j] \in JobRec /\ JobInv(job[j]) /\ row \in RowRec /\ job[j].pc = "compile"
  BY Before DEF Compile, At
<1>2. ~Accepts(job[j])
  BY <1>1 DEF Accepts
<1> DEFINE c == CompileError(job[j])
<1>3. /\ c \in JobRec /\ c.pc = "clean" /\ c.status = Ce /\ c.fin
      /\ c.inited = job[j].inited /\ c.runs = job[j].runs /\ c.saves = job[j].saves
  <2>1. Ce \in FinalIds /\ "nil" \in OutKinds /\ "clean" \in Pcs
    BY PcSet DEF FinalIds, Ce, OutKinds
  <2>2. c = [job[j] EXCEPT !.status = Ce, !.out = "nil", !.fin = TRUE, !.pc = "clean"]
    BY DEF CompileError
  <2> HIDE DEF c
  <2> QED
    BY <1>1, <2>1, <2>2 DEF JobRec
<1> HIDE DEF c
<1>4. Ce \in FinalIds /\ Ce # Ac
  BY DEF Ce, FinalIds, Ac
<1>5. CASE Set(j, Goto(job[j], "run")) /\ UNCHANGED <<row, archived, deleting, box, sent>>
  <2> DEFINE r == Goto(job[j], "run")
  <2>1. r \in JobRec /\ r.pc = "run" /\ r.runs = job[j].runs /\ r.inited = job[j].inited
    BY <1>1, GotoEffect, PcSet
  <2>2. JobInv(r) /\ Pending(r)
    BY <1>1, <2>1 DEF JobInv, Pending
  <2>3. Owns(job[j]) => Owns(r)
    BY <2>1 DEF Owns
  <2> HIDE DEF r
  <2> QED
    BY <1>2, <1>5, <2>1, <2>2, <2>3, MovesQuietly DEF r
<1>6. CASE Set(j, Saved(c)) /\ row' = Save(c) /\ UNCHANGED <<archived, deleting, box, sent>>
  <2> DEFINE r == Saved(c)
  <2>1. /\ r \in JobRec /\ r.pc = "clean" /\ r.status = Ce /\ r.fin
        /\ r.inited = job[j].inited /\ r.runs = job[j].runs /\ r.saves = job[j].saves
    BY <1>3 DEF Saved, JobRec
  <2>2. Set(j, r)
    BY <1>6
  <2> HIDE DEF r
  <2>3. JobInv(r) /\ (Owns(job[j]) => Owns(r)) /\ (~job[j].saves => Pending(r))
    BY <1>4, <2>1 DEF JobInv, Owns, Pending
  <2>4. /\ Save(c) \in RowRec
        /\ Save(c).st \in FinalIds => Save(c).fin
        /\ Save(c).st = Ac => row.st = Ac
        /\ Save(c).st \in {Queue, Process} => row.st \in {Queue, Process} /\ ~job[j].saves
    BY <1>3, <1>4, SaveVerdict
  <2>5. box' \in BOOLEAN /\ sent' \in [Jobs -> {0} \cup FinalIds]
    BY <1>6 DEF IsolateInv, TypeOK
  <2> QED
    BY <1>2, <1>6, <2>1, <2>2, <2>3, <2>4, <2>5, Moves
<1>7. CASE /\ Set(j, Goto(c, "rescue")) /\ UNCHANGED <<row, archived, deleting, box, sent>>
  <2> DEFINE r == Goto(c, "rescue")
  <2>1. r \in JobRec /\ r.pc = "rescue" /\ r.inited = job[j].inited
    BY <1>3, GotoEffect, PcSet
  <2>2. Set(j, r)
    BY <1>7
  <2> HIDE DEF r
  <2>3. JobInv(r) /\ Pending(r) /\ (Owns(job[j]) => Owns(r))
    BY <2>1 DEF JobInv, Pending, Owns
  <2> QED
    BY <1>2, <1>7, <2>1, <2>2, <2>3, MovesQuietly
<1>8. CASE BoxFails(j)
  BY <1>1, <1>8, Raised DEF BoxFails
<1> QED
  BY <1>5, <1>6, <1>7, <1>8 DEF Compile, c

\* The program runs.
LEMMA RunInv ==
  ASSUME IsolateInv, NEW j \in Jobs, Run(j)
  PROVE  IsolateInv'
<1>1. job[j] \in JobRec /\ JobInv(job[j]) /\ job[j].pc = "run"
  BY Before DEF Run, At
<1>2. CASE BoxFails(j)
  BY <1>1, <1>2, Raised DEF BoxFails
<1>3. CASE ~BoxFails(j)
  <2> DEFINE r == Goto(job[j], "verify")
  <2>1. r \in JobRec /\ r.pc = "verify" /\ r.runs = job[j].runs /\ r.inited = job[j].inited
    <3>1. "verify" \in Pcs
      BY PcSet
    <3> QED
      BY <1>1, <3>1, GotoEffect
  <2>2. Set(j, r) /\ UNCHANGED <<row, archived, deleting, box, sent>>
    BY <1>3 DEF Run
  <2>3. JobInv(r) /\ Pending(r) /\ (Owns(job[j]) => Owns(r)) /\ ~Accepts(job[j])
    BY <1>1, <2>1 DEF JobInv, Pending, Owns, Accepts
  <2> HIDE DEF r
  <2> QED
    BY <2>1, <2>2, <2>3, MovesQuietly
<1> QED
  BY <1>2, <1>3

\* A run ends with a verdict that only the job knows.
LEMMA VerifyEffect ==
  ASSUME IsolateInv, NEW j \in Jobs, Verify(j), ~BoxFails(j)
  PROVE  \E q \in JobRec :
           /\ q.pc = "clean" /\ q.fin /\ q.status \in FinalIds /\ q.status # Ce
           /\ q.inited = job[j].inited /\ q.saves = job[j].saves
           /\ Set(j, q) /\ UNCHANGED <<row, archived, deleting, box, sent>>
<1>0. job[j] \in JobRec /\ JobInv(job[j]) /\ job[j].pc = "verify"
  BY Before DEF Verify, At
<1>1. PICK o \in Outcomes :
        LET r == [job[j] EXCEPT !.out = o.out, !.fin = TRUE, !.runs = @ + 1,
                                !.unmeasured = @ \/ ~o.measured, !.pc = "clean"]
            q == [r EXCEPT !.status = DetermineStatus(r, o.id),
                           !.memo = IF o.id = 0 /\ Expected THEN ReadStdout(r) ELSE @] IN
        /\ Set(j, q) /\ row' = RowAfterVerify(q)
        /\ UNCHANGED <<archived, deleting, box, sent>>
  BY DEF Verify
<1> DEFINE r == [job[j] EXCEPT !.out = o.out, !.fin = TRUE, !.runs = job[j].runs + 1,
                        !.unmeasured = job[j].unmeasured \/ ~o.measured, !.pc = "clean"]
           q == [r EXCEPT !.status = DetermineStatus(r, o.id),
                          !.memo = IF o.id = 0 /\ Expected THEN ReadStdout(r) ELSE r.memo]
<1>2. o.id \in {0} \cup FinalIds /\ o.out \in OutKinds
  BY JobAssumption DEF FinalIds
<1>3. job[j].runs + 1 \in 0..NumberOfRuns
  BY <1>0, JobAssumption DEF JobInv, JobRec
<1>4. /\ r \in JobRec /\ r.pc = "clean" /\ r.fin /\ r.inited = job[j].inited /\ r.saves = job[j].saves
      /\ r.memo \in OutKinds /\ r.out \in OutKinds
  <2>1. (job[j].unmeasured \/ ~o.measured) \in BOOLEAN
    OBVIOUS
  <2> QED
    BY <1>0, <1>2, <1>3, <2>1, PcSet DEF JobRec
<1>5. Set(j, q) /\ UNCHANGED <<row, archived, deleting, box, sent>>
  BY <1>1 DEF RowAfterVerify
<1> HIDE DEF r
<1>6. DetermineStatus(r, o.id) \in FinalIds /\ ReadStdout(r) \in OutKinds
  BY <1>2, <1>4 DEF DetermineStatus, ReadStdout, FinalIds, Ac, Wa
<1>7. /\ q \in JobRec /\ q.pc = "clean" /\ q.fin /\ q.inited = job[j].inited /\ q.saves = job[j].saves
      /\ q.status \in FinalIds /\ q.status = DetermineStatus(r, o.id)
  BY <1>4, <1>6 DEF JobRec
<1> HIDE DEF q
<1>8. q.status # Ce
  BY <1>1, <1>7, JobAssumption DEF DetermineStatus, Ac, Wa, Ce
<1> QED
  BY <1>5, <1>7, <1>8

LEMMA VerifyInv ==
  ASSUME IsolateInv, NEW j \in Jobs, Verify(j)
  PROVE  IsolateInv'
<1>1. job[j] \in JobRec /\ JobInv(job[j]) /\ job[j].pc = "verify"
  BY Before DEF Verify, At
<1>2. CASE BoxFails(j)
  BY <1>1, <1>2, Raised DEF BoxFails
<1>3. CASE ~BoxFails(j)
  <2>1. PICK q \in JobRec :
          /\ q.pc = "clean" /\ q.fin /\ q.status \in FinalIds /\ q.status # Ce
          /\ q.inited = job[j].inited /\ q.saves = job[j].saves
          /\ Set(j, q) /\ UNCHANGED <<row, archived, deleting, box, sent>>
    BY <1>3, VerifyEffect
  <2>2. JobInv(q) /\ Pending(q) /\ (Owns(job[j]) => Owns(q)) /\ ~Accepts(job[j])
    BY <1>1, <2>1 DEF JobInv, Pending, Owns, Accepts
  <2> QED
    BY <2>1, <2>2, MovesQuietly
<1> QED
  BY <1>2, <1>3

\* The sandbox is removed, or not.
LEMMA CleanupInv ==
  ASSUME IsolateInv, NEW j \in Jobs, Cleanup(j)
  PROVE  IsolateInv'
<1>1. job[j] \in JobRec /\ JobInv(job[j]) /\ row \in RowRec /\ job[j].pc = "clean"
  BY Before DEF Cleanup, At
<1> DEFINE r == Goto(job[j], "check")
<1>2. /\ r \in JobRec /\ r.pc = "check" /\ r.runs = job[j].runs /\ r.inited = job[j].inited
      /\ r.status = job[j].status /\ r.fin = job[j].fin /\ r.saves = job[j].saves
  <2>1. "check" \in Pcs
    BY PcSet
  <2> QED
    BY <1>1, <2>1, GotoEffect
<1>3. Set(j, r) /\ UNCHANGED <<row, archived, deleting, sent>> /\ (box' => box)
      /\ box' \in {FALSE, box}
  BY DEF Cleanup
<1>4. JobInv(r) /\ (Owns(job[j]) => Owns(r)) /\ (Pending(job[j]) => Pending(r))
      /\ ~Accepts(job[j])
  BY <1>1, <1>2 DEF JobInv, Pending, Owns, Accepts
<1> HIDE DEF r
<1>5. row.st \in FinalIds => row.fin
  BY DEF IsolateInv, FinalIsFinished
<1>6. row' \in RowRec /\ box' \in BOOLEAN /\ sent' \in [Jobs -> {0} \cup FinalIds]
  BY <1>1, <1>3 DEF IsolateInv, TypeOK
<1> QED
  BY <1>2, <1>3, <1>4, <1>5, <1>6, Moves

\* The next run, the end of the runs, the end of a compile error or an error.
LEMMA CheckCleanupInv ==
  ASSUME IsolateInv, NEW j \in Jobs, CheckCleanup(j)
  PROVE  IsolateInv'
<1>1. job[j] \in JobRec /\ JobInv(job[j]) /\ job[j].pc = "check"
  BY Before DEF CheckCleanup, At
<1>2. UNCHANGED <<row, archived, deleting, box, sent>> /\ ~Accepts(job[j])
  BY <1>1 DEF CheckCleanup, Accepts
<1>3. CASE box
  BY <1>1, <1>2, <1>3, Raised DEF CheckCleanup
<1>4. ASSUME ~box, NEW pc \in {"callback", "average", "init"},
             pc = "callback" => job[j].status = Ce,
             pc = "average" => job[j].status # Ce /\ LastRun(job[j]),
             pc = "init" => job[j].status # Ce /\ ~LastRun(job[j]),
             Set(j, Goto(job[j], pc))
      PROVE  IsolateInv'
  <2> DEFINE r == Goto(job[j], pc)
  <2>0. pc \in Pcs
    BY <1>4, PcSet
  <2>1. /\ r \in JobRec /\ r.pc = pc /\ r.runs = job[j].runs /\ r.inited = job[j].inited
        /\ r.status = job[j].status /\ r.fin = job[j].fin /\ r.saves = job[j].saves
    BY <1>1, <2>0, GotoEffect
  <2>2. Set(j, r)
    BY <1>4
  <2> HIDE DEF r
  <2>3. job[j].runs \in 0..NumberOfRuns /\ NumberOfRuns \in Nat
    BY <1>1, JobAssumption DEF JobRec
  <2>4. pc = "init" => r.runs < NumberOfRuns
    BY <1>4, <2>1, <2>3 DEF LastRun
  <2>5. pc = "average" /\ r.status = Ac => r.runs = NumberOfRuns
    BY <1>4, <2>1 DEF LastRun
  <2>6. JobInv(r)
    BY <1>1, <1>4, <2>1, <2>4, <2>5 DEF JobInv
  <2>7. Pending(job[j]) => Pending(r)
    BY <1>1, <1>4, <2>1 DEF Pending
  <2> QED
    BY <1>2, <1>4, <2>1, <2>2, <2>6, <2>7, MovesQuietly
<1>5. CASE ~box /\ job[j].status = Ce
  BY <1>4, <1>5 DEF CheckCleanup
<1>6. CASE ~box /\ job[j].status # Ce /\ LastRun(job[j])
  BY <1>4, <1>6 DEF CheckCleanup
<1>7. CASE ~box /\ job[j].status # Ce /\ ~LastRun(job[j])
  BY <1>4, <1>7 DEF CheckCleanup
<1> QED
  BY <1>3, <1>5, <1>6, <1>7

\* The last save of perform writes the verdict.
LEMMA AverageAndSaveInv ==
  ASSUME IsolateInv, NEW j \in Jobs, AverageAndSave(j)
  PROVE  IsolateInv'
<1>1. job[j] \in JobRec /\ JobInv(job[j]) /\ job[j].pc = "average"
  BY Before DEF AverageAndSave, At
<1>2. CASE Set(j, Goto(job[j], "rescue")) /\ UNCHANGED <<row, archived, deleting, box, sent>>
  BY <1>1, <1>2, Raised
<1>3. CASE /\ Set(j, Goto(Saved(job[j]), "callback")) /\ row' = Save(job[j])
           /\ UNCHANGED <<archived, deleting, box, sent>>
  <2> DEFINE s == Saved(job[j])
             r == Goto(s, "callback")
  <2>1. /\ s \in JobRec /\ s.status = job[j].status /\ s.runs = job[j].runs
        /\ s.inited = job[j].inited /\ s.saves = job[j].saves
    BY <1>1 DEF Saved, JobRec
  <2>2. Set(j, r)
    BY <1>3
  <2> HIDE DEF s
  <2>3. /\ r \in JobRec /\ r.pc = "callback" /\ r.status = job[j].status
        /\ r.runs = job[j].runs /\ r.inited = job[j].inited /\ r.saves = job[j].saves
    BY <2>1, GotoEffect, PcSet
  <2> HIDE DEF r
  <2>4. /\ JobInv(r) /\ (Owns(job[j]) => Owns(r)) /\ ~Accepts(job[j])
        /\ (~job[j].saves => Pending(r)) /\ (job[j].status = Ac => Accepts(r))
    BY <1>1, <2>3 DEF JobInv, Owns, Accepts, Pending
  <2>5. /\ Save(job[j]) \in RowRec
        /\ Save(job[j]).st \in FinalIds => Save(job[j]).fin
        /\ Save(job[j]).st = Ac => row.st = Ac \/ job[j].status = Ac
        /\ Save(job[j]).st \in {Queue, Process} => row.st \in {Queue, Process} /\ ~job[j].saves
    BY <1>1, SaveVerdict DEF JobInv
  <2>6. box' \in BOOLEAN /\ sent' \in [Jobs -> {0} \cup FinalIds]
    BY <1>3 DEF IsolateInv, TypeOK
  <2> QED
    BY <1>3, <2>2, <2>3, <2>4, <2>5, <2>6, Moves
<1> QED
  BY <1>2, <1>3 DEF AverageAndSave, DbFails

\* The internal error is saved, or the database failed once more.
LEMMA RescueInv ==
  ASSUME IsolateInv, NEW j \in Jobs, Rescue(j)
  PROVE  IsolateInv'
<1>1. job[j] \in JobRec /\ JobInv(job[j]) /\ job[j].pc = "rescue"
  BY Before DEF Rescue, At
<1>0. PICK v \in {job[j].saves, job[j].saves /\ (job[j].inited \/ ~archived)} :
        LET r == [job[j] EXCEPT !.status = BoxErr, !.fin = TRUE, !.saves = v] IN
        \/ Set(j, Goto(Saved(r), "lastclean")) /\ row' = Save(r)
        \/ Set(j, Goto(r, "callback")) /\ row' = row
  BY DEF Rescue
<1>a. v \in BOOLEAN /\ (v => job[j].saves)
  BY <1>0, <1>1 DEF JobRec
<1> DEFINE b == [job[j] EXCEPT !.status = BoxErr, !.fin = TRUE, !.saves = v]
<1>2. BoxErr \in FinalIds /\ BoxErr # Ac
  BY DEF BoxErr, FinalIds, Ac
<1>3. /\ b \in JobRec /\ b.status = BoxErr /\ b.fin /\ (b.saves => job[j].saves)
      /\ b.inited = job[j].inited
  BY <1>1, <1>2, <1>a DEF JobRec
<1>4. UNCHANGED <<archived, deleting, box, sent>> /\ ~Accepts(job[j])
  BY <1>1 DEF Rescue, Accepts
<1>5. \/ Set(j, Goto(Saved(b), "lastclean")) /\ row' = Save(b)
      \/ Set(j, Goto(b, "callback")) /\ row' = row
  BY <1>0
<1> HIDE DEF b
<1>6. CASE Set(j, Goto(Saved(b), "lastclean")) /\ row' = Save(b)
  <2> DEFINE s == Saved(b)
             r == Goto(s, "lastclean")
  <2>1. /\ s \in JobRec /\ s.status = BoxErr /\ s.inited = job[j].inited
        /\ s.saves = b.saves
    BY <1>3 DEF Saved, JobRec
  <2>2. Set(j, r)
    BY <1>6
  <2> HIDE DEF s
  <2>0. "lastclean" \in Pcs
    BY PcSet
  <2>3. /\ r \in JobRec /\ r.pc = "lastclean" /\ r.status = BoxErr
        /\ r.inited = job[j].inited /\ r.saves = b.saves
    BY <2>0, <2>1, GotoEffect
  <2> HIDE DEF r
  <2>4. JobInv(r) /\ (Owns(job[j]) => Owns(r)) /\ (~b.saves => Pending(r))
    BY <2>3 DEF JobInv, Owns, Pending
  <2>5. /\ Save(b) \in RowRec
        /\ Save(b).st \in FinalIds => Save(b).fin
        /\ Save(b).st = Ac => row.st = Ac
        /\ Save(b).st \in {Queue, Process} => row.st \in {Queue, Process} /\ ~b.saves
    BY <1>2, <1>3, SaveVerdict
  <2>6. box' \in BOOLEAN /\ sent' \in [Jobs -> {0} \cup FinalIds]
    BY <1>4 DEF IsolateInv, TypeOK
  <2> QED
    BY <1>4, <1>6, <2>2, <2>3, <2>4, <2>5, <2>6, Moves
<1>7. CASE Set(j, Goto(b, "callback")) /\ row' = row
  <2> DEFINE r == Goto(b, "callback")
  <2>1. /\ r \in JobRec /\ r.pc = "callback" /\ r.status = BoxErr /\ r.inited = job[j].inited
    <3>1. "callback" \in Pcs
      BY PcSet
    <3> QED
      BY <1>3, <3>1, GotoEffect
  <2>2. Set(j, r)
    BY <1>7
  <2> HIDE DEF r
  <2>3. JobInv(r) /\ (Owns(job[j]) => Owns(r)) /\ Pending(r)
    BY <1>2, <2>1 DEF JobInv, Owns, Pending
  <2> QED
    BY <1>4, <1>7, <2>1, <2>2, <2>3, MovesQuietly
<1> QED
  BY <1>5, <1>6, <1>7

\* The last cleanup; a sandbox it leaves belongs to an internal error.
LEMMA LastCleanupInv ==
  ASSUME IsolateInv, NEW j \in Jobs, LastCleanup(j)
  PROVE  IsolateInv'
<1>1. job[j] \in JobRec /\ JobInv(job[j]) /\ row \in RowRec /\ job[j].pc = "lastclean"
  BY Before DEF LastCleanup, At
<1> DEFINE r == Goto(job[j], "callback")
<1>2. /\ r \in JobRec /\ r.pc = "callback" /\ r.status = job[j].status
      /\ r.inited = job[j].inited /\ r.saves = job[j].saves
  <2>1. "callback" \in Pcs
    BY PcSet
  <2> QED
    BY <1>1, <2>1, GotoEffect
<1>3. Set(j, r) /\ UNCHANGED <<row, archived, deleting, sent>> /\ box' \in {FALSE, box}
  BY DEF LastCleanup
<1> HIDE DEF r
<1>4. JobInv(r) /\ (Owns(job[j]) => Owns(r)) /\ (Pending(job[j]) => Pending(r))
      /\ ~Accepts(job[j])
  BY <1>1, <1>2 DEF JobInv, Pending, Owns, Accepts, BoxErr, FinalIds
<1>5. row.st \in FinalIds => row.fin
  BY DEF IsolateInv, FinalIsFinished
<1>6. row' \in RowRec /\ box' \in BOOLEAN /\ sent' \in [Jobs -> {0} \cup FinalIds]
  BY <1>1, <1>3 DEF IsolateInv, TypeOK
<1> QED
  BY <1>2, <1>3, <1>4, <1>5, <1>6, Moves

\* The callback carries a verdict.
LEMMA CallCallbackInv ==
  ASSUME IsolateInv, NEW j \in Jobs, CallCallback(j)
  PROVE  IsolateInv'
<1>1. job[j] \in JobRec /\ JobInv(job[j]) /\ row \in RowRec /\ job[j].pc = "callback"
  BY Before DEF CallCallback, At
<1> DEFINE r == Goto(job[j], "done")
<1>2. /\ r \in JobRec /\ r.pc = "done" /\ r.status = job[j].status /\ r.runs = job[j].runs
      /\ r.inited = job[j].inited /\ r.saves = job[j].saves
  <2>1. "done" \in Pcs
    BY PcSet
  <2> QED
    BY <1>1, <2>1, GotoEffect
<1>3. Set(j, r) /\ UNCHANGED <<row, archived, deleting, box>>
      /\ sent' = [sent EXCEPT ![j] = job[j].status]
  BY DEF CallCallback
<1> HIDE DEF r
<1>4. JobInv(r) /\ (Owns(job[j]) => Owns(r)) /\ (Pending(job[j]) => Pending(r))
      /\ (Accepts(job[j]) => Accepts(r)) /\ job[j].status \in FinalIds
  BY <1>1, <1>2 DEF JobInv, Pending, Owns, Accepts
<1>5. row.st \in FinalIds => row.fin
  BY DEF IsolateInv, FinalIsFinished
<1>6. row' \in RowRec /\ box' \in BOOLEAN
  BY <1>1, <1>3 DEF IsolateInv, TypeOK
<1>7. sent' \in [Jobs -> {0} \cup FinalIds]
  BY <1>3, <1>4 DEF IsolateInv, TypeOK
<1> QED
  BY <1>2, <1>3, <1>4, <1>5, <1>6, <1>7, Moves

\* Around the jobs: a killed worker, a job enqueued again, an archived
\* language, a deleted row.
LEMMA SurroundingsInv ==
  ASSUME IsolateInv
  PROVE  /\ \A j \in Jobs : Kill(j) \/ RunInQueue(j) => IsolateInv'
         /\ Archive \/ DestroyCheck \/ Destroy => IsolateInv'
<1>1. ASSUME NEW j \in Jobs, Kill(j) PROVE IsolateInv'
  <2>1. job[j] \in JobRec /\ JobInv(job[j]) /\ job[j].pc \in Running
    BY <1>1, Before DEF Kill
  <2> DEFINE r == Goto(job[j], "killed")
  <2>2. /\ r \in JobRec /\ r.pc = "killed" /\ r.status = job[j].status
        /\ r.runs = job[j].runs /\ r.inited = job[j].inited
    <3>1. "killed" \in Pcs
      BY PcSet
    <3> QED
      BY <2>1, <3>1, GotoEffect
  <2>3. Set(j, r) /\ UNCHANGED <<row, archived, deleting, box, sent>>
    BY <1>1 DEF Kill
  <2> HIDE DEF r
  <2>4. JobInv(r) /\ Pending(r) /\ (Owns(job[j]) => Owns(r)) /\ (Accepts(job[j]) => Accepts(r))
    BY <2>2 DEF JobInv, Pending, Owns, Accepts
  <2> QED
    BY <2>2, <2>3, <2>4, MovesQuietly
<1>2. ASSUME NEW j \in Jobs, RunInQueue(j) PROVE IsolateInv'
  <2>1. job[j] \in JobRec /\ JobInv(job[j]) /\ job[j].pc = "none"
    BY <1>2, Before DEF RunInQueue, At
  <2> DEFINE r == Goto(job[j], "queued")
  <2>2. /\ r \in JobRec /\ r.pc = "queued" /\ r.runs = job[j].runs
        /\ r.inited = job[j].inited /\ r.tries = job[j].tries
    BY <2>1, GotoEffect, PcSet DEF Goto, JobRec
  <2>3. Set(j, r) /\ UNCHANGED <<row, archived, deleting, box, sent>>
    BY <1>2 DEF RunInQueue
  <2> HIDE DEF r
  <2>4. JobInv(r) /\ Pending(r) /\ ~Owns(job[j]) /\ ~Accepts(job[j])
    BY <2>1, <2>2 DEF JobInv, Pending, Owns, Accepts
  <2> QED
    BY <2>2, <2>3, <2>4, MovesQuietly
<1>3. ASSUME Archive \/ DestroyCheck PROVE IsolateInv'
  <2>1. UNCHANGED <<row, box, job, sent>> /\ archived' \in BOOLEAN /\ deleting' \in BOOLEAN
    BY <1>3 DEF Archive, DestroyCheck, IsolateInv, TypeOK
  <2> QED
    BY <2>1 DEF IsolateInv, TypeOK, FinalIsFinished
<1>4. ASSUME Destroy PROVE IsolateInv'
  <2>1. /\ UNCHANGED <<archived, box, job, sent>> /\ deleting' = FALSE
        /\ row' = [st |-> 0, out |-> "nil", fin |-> FALSE]
    BY <1>4 DEF Destroy
  <2>2. row'.st = 0 /\ row' \in RowRec
    BY <2>1 DEF RowRec, OutKinds
  <2>3. TypeOK'
    BY <2>1, <2>2 DEF IsolateInv, TypeOK, RowRec
  <2>4. row'.st \notin FinalIds /\ row'.st # Ac /\ row'.st \notin {Queue, Process}
    BY <2>2 DEF FinalIds, Ac, Queue, Process
  <2> QED
    BY <2>1, <2>3, <2>4 DEF IsolateInv, FinalIsFinished
<1> QED
  BY <1>1, <1>2, <1>3, <1>4

-------------------------------------------------------------------------------
(* The theorems.                                                           *)

\* Every step of the jobs and of their surroundings keeps the invariant.
LEMMA IsolateStep == IsolateInv /\ [Next]_vars => IsolateInv'
<1> SUFFICES ASSUME IsolateInv, [Next]_vars PROVE IsolateInv'
  OBVIOUS
<1>1. ASSUME NEW j \in Jobs, JobStep(j) PROVE IsolateInv'
  BY <1>1, FindInv, MarkProcessInv, InitializeWorkdirInv, CompileInv, RunInv, VerifyInv,
     CleanupInv, CheckCleanupInv, AverageAndSaveInv, RescueInv, LastCleanupInv,
     CallCallbackInv DEF JobStep
<1>2. CASE UNCHANGED vars
  BY <1>2 DEF vars, IsolateInv, TypeOK, FinalIsFinished
<1> QED
  BY <1>1, <1>2, SurroundingsInv DEF Next

\* The invariant holds in every reachable state.
THEOREM Isolating == Spec => []IsolateInv
  BY IsolateInit, IsolateStep, PTL DEF Spec

\* Rows, Submission objects and callbacks keep their types, and retry_on stops.
THEOREM JobTyping == Spec => []TypeOK
<1>1. IsolateInv => TypeOK
  BY DEF IsolateInv
<1> QED
  BY <1>1, Isolating, PTL

\* However many jobs run the submission at once and whatever fails, Accepted is
\* only ever written by a job that got through all number_of_runs runs.
THEOREM Accepting == Spec => []AcceptedIsEarned
<1>1. IsolateInv => AcceptedIsEarned
  BY DEF IsolateInv, AcceptedIsEarned, Accepts
<1> QED
  BY <1>1, Isolating, PTL

\* No verdict is ever in a row without its finished_at.
THEOREM Finishing == Spec => []FinalIsFinished
<1>1. IsolateInv => FinalIsFinished
  BY DEF IsolateInv
<1> QED
  BY <1>1, Isolating, PTL

\* A sandbox is left behind only by an internal error or a killed worker.
THEOREM Cleaning == Spec => []SandboxIsClean
<1>1. IsolateInv => SandboxIsClean
  BY DEF IsolateInv, SandboxIsClean, Owns
<1> QED
  BY <1>1, Isolating, PTL

\* A submission that is not done has a job that goes on with it, unless its
\* worker was killed, it cannot be saved any more or the database failed.
THEOREM NotSticking == Spec => []NotStuck
<1>1. IsolateInv => NotStuck
  <2> SUFFICES ASSUME IsolateInv, NEW j \in Jobs, Pending(job[j])
               PROVE  \/ job[j].pc \in {"queued", "killed", "failed"} \cup Running
                      \/ ~job[j].saves
                      \/ job[j].pc = "done" /\ job[j].status = BoxErr
    BY DEF IsolateInv, NotStuck
  <2> QED
    BY DEF Pending, Running
<1> QED
  BY <1>1, Isolating, PTL

-------------------------------------------------------------------------------
(* Who tells what: the verdict in the row and the jobs that can stand for  *)
(* it, for CallbackTellsRow, PublishedOnce and LifecycleKept.              *)

\* Every job can save the row, and none was killed or given up.
Fine == \A j \in Jobs : job[j].saves /\ job[j].pc \notin {"killed", "failed"}

\* A job that has its last save before it.
Unfinished(r) ==
  \/ r.pc \in {"queued", "mark", "init", "compile", "run", "verify", "average", "rescue"}
  \/ r.pc \in {"clean", "check"} /\ r.status # Ce

\* A job that will write the row, wrote what the row shows, or could not.
Tells(r) ==
  \/ Unfinished(r)
  \/ r.pc \in {"clean", "check", "lastclean", "callback", "done"} /\ row.st = r.status
  \/ r.pc \in {"callback", "done"} /\ r.status = BoxErr /\ "db" \in Faults

TellInv ==
  /\ \A j \in Jobs : job[j].pc = "done" => sent[j] = job[j].status
  /\ Fine => row.st = 0 \/ \E j \in Jobs : Tells(job[j])

\* Only the job of the creation was ever enqueued.
Alone == \A j \in Jobs \ {First} : job[j].pc = "none"

\* A job that has written its verdict and writes no other, except that a
\* compile error may still become an internal error.
Through(r) ==
  \/ r.pc \in {"lastclean", "callback", "done", "killed"}
  \/ row.st = Ce /\ (r.pc = "rescue" \/ (r.pc \in {"clean", "check"} /\ r.status = Ce))

OnceInv ==
  /\ Alone /\ row.st \in FinalIds => Through(job[First])
  /\ ~Alone => "rake" \in Faults
  /\ deleting => row.st \in FinalIds \/ (row.st = Process /\ "rake" \in Faults)

\* What a step that writes nothing does to the record a of its job.
Quiet(a, s) ==
  \/ a.pc = "none" /\ s.pc = "queued" /\ "rake" \in Faults
  \/ a.pc = "queued" /\ s.pc \in {"queued", "failed", "mark"}
  \/ a.pc \in {"mark", "init", "compile", "run", "verify", "check", "average"}
     /\ s.pc = "rescue"
  \/ a.pc \in {"init", "compile", "run"} /\ s.pc \in {"compile", "run", "verify"}
  \/ a.pc = "verify" /\ s.pc = "clean" /\ s.status # Ce
  \/ a.pc = "clean" /\ s.pc = "check" /\ s.status = a.status
  \/ a.pc = "check" /\ s.pc = "callback" /\ a.status = Ce /\ s.status = Ce
  \/ a.pc = "check" /\ s.pc \in {"average", "init"} /\ a.status # Ce
  \/ a.pc = "rescue" /\ s.pc = "callback" /\ s.status = BoxErr /\ "db" \in Faults
  \/ a.pc = "lastclean" /\ s.pc = "callback" /\ s.status = a.status
  \/ a.pc \in Running /\ s.pc = "killed"

\* What a step that saves the verdict of s does to the record a of its job.
Verdict(a, s) ==
  \/ a.pc = "compile" /\ s.pc = "clean" /\ s.status = Ce
  \/ a.pc = "average" /\ s.pc = "callback" /\ s.status = a.status
  \/ a.pc = "rescue" /\ s.pc = "lastclean" /\ s.status = BoxErr

\* One job moves to s, and this is what row and callbacks become.
Shape(j, s) ==
  /\ s \in JobRec /\ Set(j, s) /\ row' \in RowRec /\ UNCHANGED deleting
  /\ \/ Quiet(job[j], s) /\ (s.saves => job[j].saves) /\ UNCHANGED <<row, sent>>
     \/ /\ job[j].pc = "callback" /\ s.pc = "done" /\ s.status = job[j].status
        /\ s.saves = job[j].saves /\ row' = row
        /\ sent' = [sent EXCEPT ![j] = s.status]
     \/ /\ job[j].pc = "mark" /\ s.pc = "init" /\ UNCHANGED sent
        /\ row'.st = row.st \/ (row.st # 0 /\ row'.st = Process)
     \/ /\ Verdict(job[j], s) /\ (s.saves => job[j].saves) /\ UNCHANGED sent
        /\ s.status \in FinalIds
        /\ row'.st = IF row.st = 0 \/ ~s.saves THEN row.st ELSE s.status

\* A job that only goes to another step has the shape Quiet allows.
LEMMA GotoShape ==
  ASSUME IsolateInv, NEW j \in Jobs, NEW pc \in Pcs, Set(j, Goto(job[j], pc)),
         UNCHANGED <<row, deleting, sent>>,
         Quiet(job[j], Goto(job[j], pc))
  PROVE  \E s \in JobRec : Shape(j, s)
<1>1. job[j] \in JobRec /\ row \in RowRec
  BY Before
<1> DEFINE s == Goto(job[j], pc)
<1>2. s \in JobRec /\ s.saves = job[j].saves
  BY <1>1, GotoEffect
<1> HIDE DEF s
<1>3. Shape(j, s)
  BY <1>1, <1>2 DEF Shape, s
<1> QED
  BY <1>2, <1>3

\* An exception is of that shape.
LEMMA RaisedShape ==
  ASSUME IsolateInv, NEW j \in Jobs, Set(j, Goto(job[j], "rescue")),
         job[j].pc \in {"mark", "init", "compile", "run", "verify", "check", "average"},
         UNCHANGED <<row, deleting, sent>>
  PROVE  \E s \in JobRec : Shape(j, s)
<1>1. job[j] \in JobRec /\ "rescue" \in Pcs
  BY Before, PcSet
<1>2. Goto(job[j], "rescue").pc = "rescue"
  BY <1>1, GotoEffect
<1>3. Quiet(job[j], Goto(job[j], "rescue"))
  BY <1>2 DEF Quiet
<1> QED
  BY <1>1, <1>3, GotoShape

\* The first half of perform.
LEMMA FindShape ==
  ASSUME IsolateInv, NEW j \in Jobs, Find(j)
  PROVE  \E s \in JobRec : Shape(j, s)
<1>1. job[j] \in JobRec /\ JobInv(job[j]) /\ row \in RowRec /\ job[j].pc = "queued"
  BY Before DEF Find, At
<1>2. UNCHANGED <<row, deleting, sent>>
  BY DEF Find
<1>3. ASSUME NEW n \in 0..MaxAttempts, NEW pc \in {"queued", "failed"},
             Set(j, [job[j] EXCEPT !.tries = n, !.pc = pc])
      PROVE  \E s \in JobRec : Shape(j, s)
  <2> DEFINE s == [job[j] EXCEPT !.tries = n, !.pc = pc]
  <2>0. pc \in Pcs
    BY PcSet
  <2>1. s \in JobRec /\ s.pc = pc /\ s.saves = job[j].saves
    BY <1>1, <2>0 DEF JobRec
  <2>2. Set(j, s)
    BY <1>3
  <2> HIDE DEF s
  <2>3. Shape(j, s)
    BY <1>1, <1>2, <2>1, <2>2 DEF Shape, Quiet
  <2> QED
    BY <2>1, <2>3
<1>4. ASSUME row.st # 0,
             Set(j, [job[j] EXCEPT !.pc = "mark", !.status = row.st, !.out = row.out,
                                   !.was = row.out])
      PROVE  \E s \in JobRec : Shape(j, s)
  <2> DEFINE s == [job[j] EXCEPT !.pc = "mark", !.status = row.st, !.out = row.out,
                                 !.was = row.out]
  <2>0. row.st \in {Queue, Process} \cup FinalIds /\ row.out \in OutKinds
    BY <1>1, <1>4 DEF RowRec
  <2>1. s \in JobRec /\ s.pc = "mark" /\ s.saves = job[j].saves
    BY <1>1, <2>0, PcSet DEF JobRec
  <2>2. Set(j, s)
    BY <1>4
  <2> HIDE DEF s
  <2>3. Shape(j, s)
    BY <1>1, <1>2, <2>1, <2>2 DEF Shape, Quiet
  <2> QED
    BY <2>1, <2>3
<1>5. job[j].tries + 1 \in 0..MaxAttempts
  <2>1. job[j].tries \in 0..MaxAttempts /\ job[j].tries < MaxAttempts
    BY <1>1 DEF JobRec, JobInv
  <2> QED
    BY <2>1, JobAssumption
<1>6. CASE job[j].tries + 1 < MaxAttempts
  BY <1>3, <1>4, <1>5, <1>6 DEF Find
<1>7. CASE ~(job[j].tries + 1 < MaxAttempts)
  BY <1>3, <1>4, <1>5, <1>7 DEF Find
<1> QED
  BY <1>6, <1>7

LEMMA MarkProcessShape ==
  ASSUME IsolateInv, NEW j \in Jobs, MarkProcess(j)
  PROVE  \E s \in JobRec : Shape(j, s)
<1>1. job[j] \in JobRec /\ JobInv(job[j]) /\ row \in RowRec /\ job[j].pc = "mark"
      /\ archived \in BOOLEAN
  BY Before DEF MarkProcess, At, IsolateInv, TypeOK
<1>2. CASE DbFails(j)
  BY <1>1, <1>2, RaisedShape DEF DbFails
<1>3. CASE ~DbFails(j)
  <2> DEFINE r == [job[j] EXCEPT !.status = Process, !.saves = ~archived, !.pc = "init"]
  <2>1. /\ Set(j, r) /\ row' = (IF job[j].status = Process THEN row ELSE Save(r))
        /\ UNCHANGED <<deleting, sent>>
    BY <1>3 DEF MarkProcess
  <2>2. r \in JobRec /\ r.pc = "init" /\ r.status = Process
    BY <1>1, PcSet DEF JobRec
  <2> HIDE DEF r
  <2>3. row' \in RowRec /\ (row'.st = row.st \/ (row.st # 0 /\ row'.st = Process))
    BY <1>1, <2>1, <2>2, SaveEffect
  <2>4. Shape(j, r)
    BY <1>1, <2>1, <2>2, <2>3 DEF Shape
  <2> QED
    BY <2>2, <2>4
<1> QED
  BY <1>2, <1>3

LEMMA InitializeWorkdirShape ==
  ASSUME IsolateInv, NEW j \in Jobs, InitializeWorkdir(j)
  PROVE  \E s \in JobRec : Shape(j, s)
<1>1. job[j] \in JobRec /\ JobInv(job[j]) /\ row \in RowRec /\ job[j].pc = "init"
  BY Before DEF InitializeWorkdir, At
<1>2. PICK pc \in {"compile", "rescue"} : Set(j, [job[j] EXCEPT !.pc = pc, !.inited = TRUE])
  BY DEF InitializeWorkdir
<1> DEFINE r == [job[j] EXCEPT !.pc = pc, !.inited = TRUE]
<1>3. r \in JobRec /\ r.pc = pc /\ r.saves = job[j].saves
  BY <1>1, <1>2, PcSet DEF JobRec
<1>4. Set(j, r) /\ UNCHANGED <<row, deleting, sent>>
  BY <1>2 DEF InitializeWorkdir
<1> HIDE DEF r
<1>5. Shape(j, r)
  BY <1>1, <1>2, <1>3, <1>4 DEF Shape, Quiet
<1> QED
  BY <1>3, <1>5

LEMMA CompileShape ==
  ASSUME IsolateInv, NEW j \in Jobs, Compile(j)
  PROVE  \E s \in JobRec : Shape(j, s)
<1>1. job[j] \in JobRec /\ JobInv(job[j]) /\ row \in RowRec /\ job[j].pc = "compile"
  BY Before DEF Compile, At
<1> DEFINE c == CompileError(job[j])
<1>2. /\ c \in JobRec /\ c.pc = "clean" /\ c.status = Ce /\ c.saves = job[j].saves
      /\ Ce \in FinalIds
  <2>1. Ce \in FinalIds /\ "nil" \in OutKinds /\ "clean" \in Pcs
    BY PcSet DEF FinalIds, Ce, OutKinds
  <2>2. c = [job[j] EXCEPT !.status = Ce, !.out = "nil", !.fin = TRUE, !.pc = "clean"]
    BY DEF CompileError
  <2> HIDE DEF c
  <2> QED
    BY <1>1, <2>1, <2>2 DEF JobRec
<1> HIDE DEF c
<1>3. CASE Set(j, Goto(job[j], "run")) /\ UNCHANGED <<row, archived, deleting, box, sent>>
  <2>1. "run" \in Pcs /\ Goto(job[j], "run").pc = "run"
    BY <1>1, GotoEffect, PcSet
  <2>2. Quiet(job[j], Goto(job[j], "run"))
    BY <1>1, <2>1 DEF Quiet
  <2> QED
    BY <1>3, <2>1, <2>2, GotoShape
<1>4. CASE Set(j, Saved(c)) /\ row' = Save(c) /\ UNCHANGED <<archived, deleting, box, sent>>
  <2> DEFINE r == Saved(c)
  <2>1. r \in JobRec /\ r.pc = "clean" /\ r.status = Ce /\ r.saves = job[j].saves
    BY <1>2 DEF Saved, JobRec
  <2>2. Set(j, r)
    BY <1>4
  <2> HIDE DEF r
  <2>3. row' \in RowRec /\ row'.st = IF row.st = 0 \/ ~r.saves THEN row.st ELSE r.status
    BY <1>1, <1>2, <1>4, <2>1, SaveEffect
  <2>4. Shape(j, r)
    BY <1>1, <1>2, <1>4, <2>1, <2>2, <2>3 DEF Shape, Verdict
  <2> QED
    BY <2>1, <2>4
<1>5. CASE Set(j, Goto(c, "rescue")) /\ UNCHANGED <<row, archived, deleting, box, sent>>
  <2> DEFINE r == Goto(c, "rescue")
  <2>1. r \in JobRec /\ r.pc = "rescue" /\ r.saves = job[j].saves
    BY <1>2, GotoEffect, PcSet
  <2>2. Set(j, r)
    BY <1>5
  <2> HIDE DEF r
  <2>3. Shape(j, r)
    BY <1>1, <1>5, <2>1, <2>2 DEF Shape, Quiet
  <2> QED
    BY <2>1, <2>3
<1>6. CASE BoxFails(j)
  BY <1>1, <1>6, RaisedShape DEF BoxFails
<1> QED
  BY <1>3, <1>4, <1>5, <1>6 DEF Compile, c

LEMMA RunShape ==
  ASSUME IsolateInv, NEW j \in Jobs, Run(j)
  PROVE  \E s \in JobRec : Shape(j, s)
<1>1. job[j] \in JobRec /\ job[j].pc = "run"
  BY Before DEF Run, At
<1>2. CASE BoxFails(j)
  BY <1>1, <1>2, RaisedShape DEF BoxFails
<1>3. CASE ~BoxFails(j)
  <2>1. "verify" \in Pcs /\ Goto(job[j], "verify").pc = "verify"
    BY <1>1, GotoEffect, PcSet
  <2>2. Quiet(job[j], Goto(job[j], "verify"))
    BY <1>1, <2>1 DEF Quiet
  <2>3. Set(j, Goto(job[j], "verify")) /\ UNCHANGED <<row, deleting, sent>>
    BY <1>3 DEF Run
  <2> QED
    BY <2>1, <2>2, <2>3, GotoShape
<1> QED
  BY <1>2, <1>3

LEMMA VerifyShape ==
  ASSUME IsolateInv, NEW j \in Jobs, Verify(j)
  PROVE  \E s \in JobRec : Shape(j, s)
<1>1. job[j] \in JobRec /\ row \in RowRec /\ job[j].pc = "verify"
  BY Before DEF Verify, At
<1>2. CASE BoxFails(j)
  BY <1>1, <1>2, RaisedShape DEF BoxFails
<1>3. CASE ~BoxFails(j)
  <2>1. PICK q \in JobRec :
          /\ q.pc = "clean" /\ q.fin /\ q.status \in FinalIds /\ q.status # Ce
          /\ q.inited = job[j].inited /\ q.saves = job[j].saves
          /\ Set(j, q) /\ UNCHANGED <<row, archived, deleting, box, sent>>
    BY <1>3, VerifyEffect
  <2>2. Shape(j, q)
    BY <1>1, <2>1 DEF Shape, Quiet
  <2> QED
    BY <2>2
<1> QED
  BY <1>2, <1>3

\* The second half of perform.
LEMMA CleanupShape ==
  ASSUME IsolateInv, NEW j \in Jobs, Cleanup(j)
  PROVE  \E s \in JobRec : Shape(j, s)
<1>1. job[j] \in JobRec /\ job[j].pc = "clean" /\ "check" \in Pcs
  BY Before, PcSet DEF Cleanup, At
<1>2. Goto(job[j], "check").pc = "check" /\ Goto(job[j], "check").status = job[j].status
  BY <1>1, GotoEffect
<1>3. Quiet(job[j], Goto(job[j], "check"))
  BY <1>1, <1>2 DEF Quiet
<1>4. Set(j, Goto(job[j], "check")) /\ UNCHANGED <<row, deleting, sent>>
  BY DEF Cleanup
<1> QED
  BY <1>1, <1>3, <1>4, GotoShape

LEMMA CheckCleanupShape ==
  ASSUME IsolateInv, NEW j \in Jobs, CheckCleanup(j)
  PROVE  \E s \in JobRec : Shape(j, s)
<1>1. job[j] \in JobRec /\ job[j].pc = "check"
  BY Before DEF CheckCleanup, At
<1>2. UNCHANGED <<row, deleting, sent>>
  BY DEF CheckCleanup
<1>3. CASE box
  BY <1>1, <1>2, <1>3, RaisedShape DEF CheckCleanup
<1>4. CASE ~box /\ job[j].status = Ce
  <2>1. "callback" \in Pcs /\ Set(j, Goto(job[j], "callback"))
    BY <1>4, PcSet DEF CheckCleanup
  <2>2. Goto(job[j], "callback").pc = "callback" /\ Goto(job[j], "callback").status = Ce
    BY <1>1, <1>4, <2>1, GotoEffect
  <2>3. Quiet(job[j], Goto(job[j], "callback"))
    BY <1>1, <1>4, <2>2 DEF Quiet
  <2> QED
    BY <1>2, <2>1, <2>3, GotoShape
<1>5. CASE ~box /\ job[j].status # Ce
  <2>1. PICK pc \in {"average", "init"} : Set(j, Goto(job[j], pc))
    <3>1. CASE LastRun(job[j])
      BY <1>5, <3>1 DEF CheckCleanup
    <3>2. CASE ~LastRun(job[j])
      BY <1>5, <3>2 DEF CheckCleanup
    <3> QED
      BY <3>1, <3>2
  <2>2. pc \in Pcs
    BY PcSet
  <2>3. Goto(job[j], pc).pc = pc
    BY <1>1, <2>2, GotoEffect
  <2>4. Quiet(job[j], Goto(job[j], pc))
    BY <1>1, <1>5, <2>3 DEF Quiet
  <2> QED
    BY <1>2, <2>1, <2>2, <2>4, GotoShape
<1> QED
  BY <1>3, <1>4, <1>5

LEMMA AverageAndSaveShape ==
  ASSUME IsolateInv, NEW j \in Jobs, AverageAndSave(j)
  PROVE  \E s \in JobRec : Shape(j, s)
<1>1. job[j] \in JobRec /\ JobInv(job[j]) /\ row \in RowRec /\ job[j].pc = "average"
  BY Before DEF AverageAndSave, At
<1>2. CASE Set(j, Goto(job[j], "rescue")) /\ UNCHANGED <<row, archived, deleting, box, sent>>
  BY <1>1, <1>2, RaisedShape
<1>3. CASE /\ Set(j, Goto(Saved(job[j]), "callback")) /\ row' = Save(job[j])
           /\ UNCHANGED <<archived, deleting, box, sent>>
  <2> DEFINE s == Saved(job[j])
             r == Goto(s, "callback")
  <2>1. s \in JobRec /\ s.status = job[j].status /\ s.saves = job[j].saves
    BY <1>1 DEF Saved, JobRec
  <2>2. Set(j, r)
    BY <1>3
  <2> HIDE DEF s
  <2>3. r \in JobRec /\ r.pc = "callback" /\ r.status = job[j].status /\ r.saves = job[j].saves
    BY <2>1, GotoEffect, PcSet
  <2> HIDE DEF r
  <2>4. row' \in RowRec /\ row'.st = IF row.st = 0 \/ ~r.saves THEN row.st ELSE r.status
    BY <1>1, <1>3, <2>3, SaveEffect
  <2>5. r.status \in FinalIds
    BY <1>1, <2>3 DEF JobInv
  <2>6. Shape(j, r)
    BY <1>1, <1>3, <2>2, <2>3, <2>4, <2>5 DEF Shape, Verdict
  <2> QED
    BY <2>3, <2>6
<1> QED
  BY <1>2, <1>3 DEF AverageAndSave, DbFails

LEMMA RescueShape ==
  ASSUME IsolateInv, NEW j \in Jobs, Rescue(j)
  PROVE  \E s \in JobRec : Shape(j, s)
<1>1. job[j] \in JobRec /\ row \in RowRec /\ job[j].pc = "rescue"
  BY Before DEF Rescue, At
<1>0. PICK v \in {job[j].saves, job[j].saves /\ (job[j].inited \/ ~archived)} :
        LET r == [job[j] EXCEPT !.status = BoxErr, !.fin = TRUE, !.saves = v] IN
        \/ Set(j, Goto(Saved(r), "lastclean")) /\ row' = Save(r)
        \/ Set(j, Goto(r, "callback")) /\ row' = row /\ "db" \in Faults
  BY DEF Rescue
<1>a. v \in BOOLEAN /\ (v => job[j].saves)
  BY <1>0, <1>1 DEF JobRec
<1> DEFINE b == [job[j] EXCEPT !.status = BoxErr, !.fin = TRUE, !.saves = v]
<1>2. BoxErr \in FinalIds /\ {"lastclean", "callback"} \subseteq Pcs
  BY PcSet DEF BoxErr, FinalIds
<1>3. b \in JobRec /\ b.status = BoxErr /\ (b.saves => job[j].saves)
  BY <1>1, <1>2, <1>a DEF JobRec
<1>4. UNCHANGED <<deleting, sent>>
  BY DEF Rescue
<1>5. \/ Set(j, Goto(Saved(b), "lastclean")) /\ row' = Save(b)
      \/ Set(j, Goto(b, "callback")) /\ row' = row /\ "db" \in Faults
  BY <1>0
<1> HIDE DEF b
<1>6. CASE Set(j, Goto(Saved(b), "lastclean")) /\ row' = Save(b)
  <2> DEFINE s == Saved(b)
             r == Goto(s, "lastclean")
  <2>1. s \in JobRec /\ s.status = BoxErr /\ s.saves = b.saves
    BY <1>3 DEF Saved, JobRec
  <2>2. Set(j, r)
    BY <1>6
  <2> HIDE DEF s
  <2>3. r \in JobRec /\ r.pc = "lastclean" /\ r.status = BoxErr /\ r.saves = b.saves
    BY <1>2, <2>1, GotoEffect
  <2> HIDE DEF r
  <2>4. row' \in RowRec /\ row'.st = IF row.st = 0 \/ ~r.saves THEN row.st ELSE r.status
    BY <1>1, <1>3, <1>6, <2>3, SaveEffect
  <2>5. Shape(j, r)
    BY <1>1, <1>2, <1>3, <1>4, <2>2, <2>3, <2>4 DEF Shape, Verdict
  <2> QED
    BY <2>3, <2>5
<1>7. CASE Set(j, Goto(b, "callback")) /\ row' = row /\ "db" \in Faults
  <2> DEFINE r == Goto(b, "callback")
  <2>1. r \in JobRec /\ r.pc = "callback" /\ r.status = BoxErr /\ (r.saves => job[j].saves)
    BY <1>2, <1>3, GotoEffect
  <2>2. Set(j, r)
    BY <1>7
  <2> HIDE DEF r
  <2>3. Shape(j, r)
    BY <1>1, <1>4, <1>7, <2>1, <2>2 DEF Shape, Quiet
  <2> QED
    BY <2>1, <2>3
<1> QED
  BY <1>5, <1>6, <1>7

LEMMA LastCleanupShape ==
  ASSUME IsolateInv, NEW j \in Jobs, LastCleanup(j)
  PROVE  \E s \in JobRec : Shape(j, s)
<1>1. job[j] \in JobRec /\ job[j].pc = "lastclean" /\ "callback" \in Pcs
  BY Before, PcSet DEF LastCleanup, At
<1>2. /\ Goto(job[j], "callback").pc = "callback"
      /\ Goto(job[j], "callback").status = job[j].status
  BY <1>1, GotoEffect
<1>3. Quiet(job[j], Goto(job[j], "callback"))
  BY <1>1, <1>2 DEF Quiet
<1>4. Set(j, Goto(job[j], "callback")) /\ UNCHANGED <<row, deleting, sent>>
  BY DEF LastCleanup
<1> QED
  BY <1>1, <1>3, <1>4, GotoShape

LEMMA CallCallbackShape ==
  ASSUME IsolateInv, NEW j \in Jobs, CallCallback(j)
  PROVE  \E s \in JobRec : Shape(j, s)
<1>1. job[j] \in JobRec /\ row \in RowRec /\ job[j].pc = "callback" /\ "done" \in Pcs
  BY Before, PcSet DEF CallCallback, At
<1> DEFINE r == Goto(job[j], "done")
<1>2. r \in JobRec /\ r.pc = "done" /\ r.status = job[j].status /\ r.saves = job[j].saves
  BY <1>1, GotoEffect
<1>3. Set(j, r) /\ UNCHANGED <<row, deleting>> /\ sent' = [sent EXCEPT ![j] = job[j].status]
  BY DEF CallCallback
<1> HIDE DEF r
<1>4. Shape(j, r)
  BY <1>1, <1>2, <1>3 DEF Shape
<1> QED
  BY <1>2, <1>4

\* Whatever moves a job has one of the shapes.
LEMMA JobShape ==
  ASSUME IsolateInv, NEW j \in Jobs, JobStep(j) \/ Kill(j) \/ RunInQueue(j)
  PROVE  \E s \in JobRec : Shape(j, s)
<1>1. CASE JobStep(j)
  BY <1>1, FindShape, MarkProcessShape, InitializeWorkdirShape, CompileShape, RunShape,
     VerifyShape, CleanupShape, CheckCleanupShape, AverageAndSaveShape, RescueShape,
     LastCleanupShape, CallCallbackShape DEF JobStep
<1>2. ASSUME NEW pc \in {"killed", "queued"},
             Set(j, Goto(job[j], pc)), UNCHANGED <<row, deleting, sent>>,
             pc = "killed" => job[j].pc \in Running,
             pc = "queued" => job[j].pc = "none" /\ "rake" \in Faults
      PROVE  \E s \in JobRec : Shape(j, s)
  <2>1. job[j] \in JobRec /\ pc \in Pcs
    BY Before, PcSet
  <2>2. Goto(job[j], pc).pc = pc
    BY <2>1, GotoEffect
  <2>3. Quiet(job[j], Goto(job[j], pc))
    BY <1>2, <2>2 DEF Quiet
  <2> QED
    BY <1>2, <2>1, <2>3, GotoShape
<1>3. CASE Kill(j)
  BY <1>2, <1>3 DEF Kill
<1>4. CASE RunInQueue(j)
  BY <1>2, <1>4 DEF RunInQueue, At
<1> QED
  BY <1>1, <1>3, <1>4

\* The invariants in the initial state.
LEMMA TellInit == Init => TellInv /\ OnceInv
<1> SUFFICES ASSUME Init PROVE TellInv /\ OnceInv
  OBVIOUS
<1>1. First \in Jobs /\ row.st = Queue /\ ~deleting
  BY JobAssumption DEF Init
<1>2. \A j \in Jobs : job[j].pc = IF j = First THEN "queued" ELSE "none"
  BY DEF Init, NoJob
<1>3. Tells(job[First]) /\ Alone
  BY <1>1, <1>2 DEF Tells, Unfinished, Alone
<1>4. row.st \notin FinalIds
  BY <1>1 DEF Queue, FinalIds
<1> QED
  BY <1>1, <1>2, <1>3, <1>4 DEF TellInv, OnceInv

\* The jobs after one of them moved.
LEMMA ShapeJobs ==
  ASSUME IsolateInv, NEW j \in Jobs, NEW s \in JobRec, Shape(j, s)
  PROVE  /\ \A i \in Jobs : job'[i] = IF i = j THEN s ELSE job[i]
         /\ s.pc # "none" /\ job[j].pc # "done"
         /\ job[j].pc = "none" => "rake" \in Faults
<1>1. job' = [job EXCEPT ![j] = s] /\ job \in [Jobs -> JobRec]
  BY DEF Shape, Set, IsolateInv, TypeOK
<1>2. s.pc # "none" /\ job[j].pc # "done" /\ (job[j].pc = "none" => "rake" \in Faults)
  BY DEF Shape, Quiet, Verdict, Running
<1> QED
  BY <1>1, <1>2

\* A callback that was made was made with the status of its job.
LEMMA SentStep ==
  ASSUME IsolateInv, TellInv, NEW j \in Jobs, NEW s \in JobRec, Shape(j, s)
  PROVE  \A i \in Jobs : job'[i].pc = "done" => sent'[i] = job'[i].status
<1>1. \A i \in Jobs : job'[i] = IF i = j THEN s ELSE job[i]
  BY ShapeJobs
<1>2. CASE sent' = sent /\ s.pc # "done"
  BY <1>1, <1>2 DEF TellInv
<1>3. CASE sent' = [sent EXCEPT ![j] = s.status]
  <2>1. sent \in [Jobs -> {0} \cup FinalIds]
    BY DEF IsolateInv, TypeOK
  <2> QED
    BY <1>1, <1>3, <2>1 DEF TellInv
<1>4. \/ sent' = sent /\ s.pc # "done"
      \/ sent' = [sent EXCEPT ![j] = s.status]
  BY DEF Shape, Quiet, Verdict
<1> QED
  BY <1>2, <1>3, <1>4

\* If all is fine after a step, it was before, or the job has just begun.
LEMMA FineStep ==
  ASSUME IsolateInv, NEW j \in Jobs, NEW s \in JobRec, Shape(j, s), Fine'
  PROVE  Fine \/ s.pc = "init"
<1>1. \A i \in Jobs : job'[i] = IF i = j THEN s ELSE job[i]
  BY ShapeJobs
<1>2. \A i \in Jobs : job'[i].saves /\ job'[i].pc \notin {"killed", "failed"}
  BY DEF Fine
<1>3. job[j].pc \notin {"killed", "failed"} /\ ((s.saves => job[j].saves) \/ s.pc = "init")
  BY DEF Shape, Quiet, Verdict, Running
<1> QED
  BY <1>1, <1>2, <1>3 DEF Fine

\* Some job still stands for the row after a step.
LEMMA TellStep ==
  ASSUME IsolateInv, TellInv, NEW j \in Jobs, NEW s \in JobRec, Shape(j, s)
  PROVE  TellInv'
<1>1. \A i \in Jobs : job'[i] = IF i = j THEN s ELSE job[i]
  BY ShapeJobs
<1>2. ASSUME Fine', row'.st # 0 PROVE \E i \in Jobs : Tells(job[i])'
  <2>1. \A r : r = s => (Tells(r)' => \E i \in Jobs : Tells(job[i])')
    BY <1>1 DEF Tells, Unfinished
  <2>2. CASE s.pc = "init"
    BY <1>1, <2>2 DEF Tells, Unfinished
  <2>3. CASE row' = row /\ s.pc # "init"
    <3>1. PICK i \in Jobs : Tells(job[i])
      BY <1>2, <2>3, FineStep DEF TellInv
    <3>2. CASE i # j
      BY <1>1, <2>3, <3>1, <3>2 DEF Tells, Unfinished
    <3>3. CASE i = j
      <4>1. s.pc \notin {"killed", "failed"}
        BY <1>1, <1>2 DEF Fine
      <4>2. \/ Unfinished(s)
            \/ s.pc \in {"clean", "check", "lastclean", "callback", "done"} /\ row.st = s.status
            \/ s.pc \in {"callback", "done"} /\ s.status = BoxErr /\ "db" \in Faults
        <5>1. CASE Quiet(job[j], s)
          BY <3>1, <3>3, <4>1, <5>1 DEF Quiet, Tells, Unfinished
        <5>2. CASE job[j].pc = "callback" /\ s.pc = "done" /\ s.status = job[j].status
          BY <3>1, <3>3, <5>2 DEF Tells, Unfinished
        <5>3. CASE job[j].pc = "mark" /\ s.pc = "init"
          BY <2>3, <5>3
        <5>4. CASE Verdict(job[j], s) /\ row'.st = IF row.st = 0 \/ ~s.saves THEN row.st
                                                   ELSE s.status
          <6>1. s.saves
            BY <1>1, <1>2 DEF Fine
          <6> QED
            BY <1>2, <2>3, <5>4, <6>1 DEF Verdict
        <5> QED
          BY <5>1, <5>2, <5>3, <5>4 DEF Shape
      <4> QED
        BY <1>1, <2>3, <4>2 DEF Tells, Unfinished
    <3> QED
      BY <3>2, <3>3
  <2>4. CASE Verdict(job[j], s) /\ row'.st = IF row.st = 0 \/ ~s.saves THEN row.st
                                             ELSE s.status
    <3>1. s.saves
      BY <1>1, <1>2 DEF Fine
    <3>2. row'.st = s.status /\ s.pc \in {"clean", "callback", "lastclean"}
      BY <1>2, <2>4, <3>1 DEF Verdict
    <3> QED
      BY <1>1, <3>2 DEF Tells
  <2> QED
    BY <2>2, <2>3, <2>4 DEF Shape
<1> QED
  BY <1>2, SentStep DEF TellInv

\* The only job of a submission writes one verdict.
LEMMA OnceStep ==
  ASSUME IsolateInv, OnceInv, NEW j \in Jobs, NEW s \in JobRec, Shape(j, s)
  PROVE  OnceInv'
<1>1. /\ \A i \in Jobs : job'[i] = IF i = j THEN s ELSE job[i]
      /\ s.pc # "none" /\ (job[j].pc = "none" => "rake" \in Faults)
  BY ShapeJobs
<1>2. \A v \in FinalIds : v # 0 /\ v # Process
  BY DEF FinalIds, Process
<1>3. Alone' => Alone /\ j = First
  BY <1>1 DEF Alone
<1>4. ~Alone' => "rake" \in Faults
  BY <1>1 DEF Alone, OnceInv
<1>5. ASSUME Alone', row'.st \in FinalIds PROVE Through(job[First])'
  <2>1. job'[First] = s /\ j = First /\ Alone
    BY <1>1, <1>3, <1>5
  <2>2. CASE row' = row
    <3>1. Through(job[j])
      BY <1>5, <2>1, <2>2 DEF OnceInv
    <3>2. \/ s.pc \in {"lastclean", "callback", "done", "killed"}
          \/ row.st = Ce /\ (s.pc = "rescue" \/ (s.pc \in {"clean", "check"} /\ s.status = Ce))
      BY <1>5, <2>2, <3>1 DEF Shape, Quiet, Verdict, Through, Running
    <3> QED
      BY <2>1, <2>2, <3>2 DEF Through
  <2>3. CASE job[j].pc = "mark" /\ (row'.st = row.st \/ row'.st = Process)
    <3>1. row.st \in FinalIds
      BY <1>2, <1>5, <2>3
    <3> QED
      BY <2>1, <2>3, <3>1 DEF OnceInv, Through
  <2>4. CASE Verdict(job[j], s) /\ row'.st = IF row.st = 0 \/ ~s.saves THEN row.st
                                             ELSE s.status
    <3>1. CASE s.pc \in {"callback", "lastclean"}
      BY <2>1, <3>1 DEF Through
    <3>2. CASE job[j].pc = "compile" /\ s.pc = "clean" /\ s.status = Ce
      <4>1. row'.st # row.st
        BY <1>5, <2>1, <3>2 DEF OnceInv, Through
      <4>2. row'.st = Ce
        BY <2>4, <3>2, <4>1
      <4> QED
        BY <2>1, <3>2, <4>2 DEF Through
    <3> QED
      BY <2>4, <3>1, <3>2 DEF Verdict
  <2> QED
    BY <2>2, <2>3, <2>4 DEF Shape
<1>6. ASSUME deleting'
      PROVE  row'.st \in FinalIds \/ (row'.st = Process /\ "rake" \in Faults)
  <2>1. deleting
    BY <1>6 DEF Shape
  <2>2. CASE row'.st = row.st
    BY <2>1, <2>2 DEF OnceInv
  <2>3. CASE row'.st \in FinalIds
    BY <2>3
  <2>4. CASE job[j].pc = "mark" /\ row'.st = Process
    <3>1. CASE ~Alone
      BY <2>4, <3>1 DEF OnceInv
    <3>2. CASE Alone /\ j = First
      BY <2>1, <2>4, <3>2 DEF OnceInv, Through
    <3>3. Alone => j = First
      BY <2>4 DEF Alone
    <3> QED
      BY <3>1, <3>2, <3>3
  <2> QED
    BY <2>2, <2>3, <2>4 DEF Shape
<1> QED
  BY <1>4, <1>5, <1>6 DEF OnceInv

\* What happens around the jobs.
LEMMA SurroundingsTell ==
  ASSUME IsolateInv, TellInv, OnceInv, Archive \/ DestroyCheck \/ Destroy
  PROVE  TellInv' /\ OnceInv'
<1>1. CASE Archive
  BY <1>1 DEF Archive, TellInv, OnceInv, Fine, Tells, Unfinished, Alone, Through
<1>2. CASE DestroyCheck
  BY <1>2 DEF DestroyCheck, TellInv, OnceInv, Fine, Tells, Unfinished, Alone, Through
<1>3. CASE Destroy
  <2>1. row'.st = 0 /\ row'.st \notin FinalIds /\ UNCHANGED <<job, sent>> /\ ~deleting'
    BY <1>3 DEF Destroy, FinalIds
  <2> QED
    BY <2>1 DEF TellInv, OnceInv, Alone, Fine
<1> QED
  BY <1>1, <1>2, <1>3

TellingInv == IsolateInv /\ TellInv /\ OnceInv

LEMMA TellingStep == TellingInv /\ [Next]_vars => TellingInv'
<1> SUFFICES ASSUME TellingInv, [Next]_vars PROVE TellingInv'
  OBVIOUS
<1>1. IsolateInv'
  BY IsolateStep DEF TellingInv
<1>2. ASSUME NEW j \in Jobs, JobStep(j) \/ Kill(j) \/ RunInQueue(j)
      PROVE  TellInv' /\ OnceInv'
  BY <1>2, JobShape, TellStep, OnceStep DEF TellingInv
<1>3. ASSUME UNCHANGED vars PROVE TellInv' /\ OnceInv'
  BY <1>3 DEF vars, TellingInv, TellInv, OnceInv, Fine, Tells, Unfinished, Alone, Through
<1> QED
  BY <1>1, <1>2, <1>3, SurroundingsTell DEF Next, TellingInv

\* The invariant about verdicts holds in every reachable state.
THEOREM Telling == Spec => []TellingInv
<1>1. Init => TellingInv
  BY IsolateInit, TellInit DEF TellingInv
<1> QED
  BY <1>1, TellingStep, PTL DEF Spec

\* Once all jobs are through, the row shows what one of the callbacks said,
\* unless it is the internal error that the database refused to store.
THEOREM RowTold == Spec => []CallbackTellsRow
<1>1. TellingInv => CallbackTellsRow
  <2> SUFFICES ASSUME TellingInv, \A j \in Jobs : job[j].pc \in {"none", "done"} /\ job[j].saves
               PROVE  \/ row.st \in {0} \cup {sent[j] : j \in Jobs}
                      \/ "db" \in Faults /\ \E j \in Jobs : sent[j] = BoxErr
    BY DEF CallbackTellsRow
  <2>1. Fine
    BY DEF Fine
  <2>2. CASE row.st = 0
    BY <2>2
  <2>3. CASE \E j \in Jobs : Tells(job[j])
    <3>1. PICK j \in Jobs : Tells(job[j])
      BY <2>3
    <3>2. job[j].pc = "done" /\ sent[j] = job[j].status
      BY <3>1 DEF Tells, Unfinished, TellingInv, TellInv
    <3> QED
      BY <3>1, <3>2 DEF Tells, Unfinished
  <2> QED
    BY <2>1, <2>2, <2>3 DEF TellingInv, TellInv
<1> QED
  BY <1>1, Telling, PTL

\* A verdict that the only job of a submission wrote stays, unless the row is
\* deleted or a compile error becomes an internal error.
THEOREM VerdictStays == Spec => PublishedOnce
<1> DEFINE A == row.st \in FinalIds /\ row'.st # row.st =>
                  \/ row'.st = 0 \/ (row.st = Ce /\ row'.st = BoxErr)
                  \/ \E j \in Jobs \ {First} : job[j].pc # "none"
<1>1. TellingInv /\ [Next]_vars => A
  <2> SUFFICES ASSUME TellingInv, [Next]_vars, row.st \in FinalIds, row'.st # row.st, Alone
               PROVE  row'.st = 0 \/ (row.st = Ce /\ row'.st = BoxErr)
    BY DEF Alone
  <2>1. ASSUME NEW j \in Jobs, JobStep(j) \/ Kill(j) \/ RunInQueue(j)
        PROVE  row.st = Ce /\ row'.st = BoxErr
    <3>1. PICK s \in JobRec : Shape(j, s)
      BY <2>1, JobShape DEF TellingInv
    <3>2. job[j].pc \in {"mark", "compile", "average", "rescue"}
      BY <3>1 DEF Shape, Verdict
    <3>3. j = First /\ Through(job[First])
      BY <3>2 DEF Alone, TellingInv, OnceInv
    <3>4. job[j].pc = "rescue" /\ row.st = Ce
      BY <3>2, <3>3 DEF Through
    <3>5. row'.st = BoxErr
      BY <3>1, <3>4 DEF Shape, Verdict
    <3> QED
      BY <3>4, <3>5
  <2>2. CASE Archive \/ DestroyCheck \/ UNCHANGED vars
    BY <2>2 DEF Archive, DestroyCheck, vars
  <2>3. CASE Destroy
    BY <2>3 DEF Destroy
  <2> QED
    BY <2>1, <2>2, <2>3 DEF Next
<1>2. TellingInv /\ [Next]_vars => [A]_vars
  BY <1>1
<1> QED
  BY <1>2, Telling, PTL DEF Spec, PublishedOnce

\* The job implements the life cycle a client may see.
THEOREM JobLifecycle == Spec => LifecycleKept
<1> DEFINE seen == [s \in {First} |-> SeenAs]
<1>1. Init => Lifecycle!Init
  <2> SUFFICES ASSUME Init PROVE seen \in [{First} -> {"none", "queue"}]
    BY DEF Lifecycle!Init
  <2>1. row.st = Queue
    BY DEF Init
  <2>2. SeenAs = "queue"
    BY <2>1 DEF SeenAs, Queue, Process
  <2> QED
    BY <2>2
<1>2. TellingInv /\ [Next]_vars => [Lifecycle!Next]_seen
  <2> SUFFICES ASSUME TellingInv, [Next]_vars PROVE Lifecycle!Next \/ seen' = seen
    OBVIOUS
  <2>1. row.st \in {0, Queue, Process} \cup FinalIds
    BY DEF TellingInv, IsolateInv, TypeOK
  <2>2. ASSUME row'.st = row.st PROVE seen' = seen
    BY <2>2 DEF SeenAs
  <2>3. ASSUME row.st \in FinalIds, row'.st \in FinalIds PROVE seen' = seen
    BY <2>3 DEF SeenAs, FinalIds, Queue, Process
  <2>4. ASSUME row.st = Queue, row'.st = Process PROVE Lifecycle!Next
    <3>1. SeenAs = "queue" /\ SeenAs' = "process"
      BY <2>4 DEF SeenAs, Queue, Process
    <3> QED
      BY <3>1 DEF Lifecycle!Next, Lifecycle!Start, Lifecycle!Moves
  <2>5. ASSUME row.st \in {Queue, Process}, row'.st \in FinalIds PROVE Lifecycle!Next
    <3>1. SeenAs \in {"queue", "process"} /\ SeenAs' = "final"
      BY <2>5 DEF SeenAs, Queue, Process, FinalIds
    <3> QED
      BY <3>1 DEF Lifecycle!Next, Lifecycle!End, Lifecycle!Moves
  <2>6. ASSUME row.st \in FinalIds, row'.st = Process, "rake" \in Faults PROVE Lifecycle!Next
    <3>1. SeenAs = "final" /\ SeenAs' = "process"
      BY <2>6 DEF SeenAs, Queue, Process, FinalIds
    <3> QED
      BY <2>6, <3>1 DEF Lifecycle!Next, Lifecycle!Rerun, Lifecycle!Moves
  <2>7. ASSUME row'.st = 0, row.st \in FinalIds \/ (row.st = Process /\ "rake" \in Faults)
        PROVE  Lifecycle!Next
    <3>1. /\ SeenAs' = "deleted"
          /\ SeenAs = "final" \/ (SeenAs = "process" /\ "rake" \in Faults)
      BY <2>7 DEF SeenAs, Queue, Process, FinalIds
    <3> QED
      BY <3>1 DEF Lifecycle!Next, Lifecycle!Delete, Lifecycle!Moves
  <2>8. ASSUME NEW j \in Jobs, JobStep(j) \/ Kill(j) \/ RunInQueue(j)
        PROVE  Lifecycle!Next \/ seen' = seen
    <3>1. PICK s \in JobRec : Shape(j, s)
      BY <2>8, JobShape DEF TellingInv
    <3>2. CASE row'.st = row.st
      BY <2>2, <3>2
    <3>3. CASE row.st # 0 /\ row'.st \in FinalIds
      BY <2>1, <2>3, <2>5, <3>3
    <3>4. CASE row.st # 0 /\ row'.st = Process /\ job[j].pc = "mark"
      <4>1. row.st \in FinalIds => "rake" \in Faults
        <5>1. CASE ~Alone
          BY <5>1 DEF TellingInv, OnceInv
        <5>2. CASE Alone /\ row.st \in FinalIds
          <6>1. j = First /\ Through(job[First])
            BY <3>4, <5>2 DEF Alone, TellingInv, OnceInv
          <6> QED
            BY <3>4, <6>1 DEF Through
        <5> QED
          BY <5>1, <5>2
      <4> QED
        BY <2>1, <2>2, <2>4, <2>6, <3>4, <4>1
    <3> QED
      BY <3>1, <3>2, <3>3, <3>4 DEF Shape
  <2>9. CASE Archive \/ DestroyCheck \/ UNCHANGED vars
    BY <2>2, <2>9 DEF Archive, DestroyCheck, vars
  <2>10. CASE Destroy
    <3>1. row'.st = 0 /\ deleting
      BY <2>10 DEF Destroy
    <3> QED
      BY <2>7, <3>1 DEF TellingInv, OnceInv
  <2> QED
    BY <2>8, <2>9, <2>10 DEF Next
<1> QED
  BY <1>1, <1>2, Telling, PTL DEF Spec, LifecycleKept, Lifecycle!Spec
================================================================================
