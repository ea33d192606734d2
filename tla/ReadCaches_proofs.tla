--------------------------- MODULE ReadCaches_proofs ---------------------------
(***************************************************************************)
(* Proofs about ReadCaches: what an answer may go back to, for any number  *)
(* of requests and versions and any durations.                             *)
(***************************************************************************)
EXTENDS ReadCaches, TLAPS

\* The constants as the leaves need them.
LEMMA Bounds == /\ Gone \in Nat /\ Gone = MaxVer + 1 /\ None = -1 /\ Slow \in Nat /\ MaxVer \in Nat
                /\ Duration \in [Kinds -> Nat \ {0}] /\ MaxKept \in Nat
  BY CacheAssumption DEF CacheAssumption, Gone, None

LEMMA Spans == /\ 0 \in 0..Slow /\ Slow \in 0..Slow
               /\ 0 \in 0..MaxVer /\ 0 \in 0..Gone /\ Gone \in 0..Gone
               /\ \A v \in 0..MaxVer : v \in 0..Gone
  BY Bounds

\* Times are numbers.
LEMMA Times == TypeOK => RaceTtl \in Int /\ Duration[kind] \in Int
  BY CacheAssumption DEF CacheAssumption, RaceTtl, TypeOK

LEMMA EmptyEntry == Empty \in Entry
  BY DEF Entry

LEMMA EntryShape ==
  /\ \A v \in 0..MaxVer, t \in Int : [v |-> v, ttl |-> t, kept |-> 0] \in Entry
  /\ \A e \in Entry : e # Empty => e.v \in 0..MaxVer /\ e.ttl \in Int
  /\ \A e \in Entry : e.v \in 0..MaxVer \cup {None} /\ e.ttl \in Int /\ e.kept \in 0..MaxKept
  BY Bounds DEF Entry, Empty

\* Setting the rest of the time of an entry that is there leaves an entry, and so
\* does putting it back.
LEMMA EntryTtl ==
  ASSUME NEW e \in Entry, e # Empty, NEW t \in Int
  PROVE  /\ [e EXCEPT !.ttl = t] \in Entry /\ [e EXCEPT !.ttl = t].v = e.v
         /\ [e EXCEPT !.ttl = t].kept = e.kept
  BY Bounds DEF Entry, Empty

LEMMA EntryBack ==
  ASSUME NEW e \in Entry, e # Empty, NEW t \in Int, e.kept < MaxKept
  PROVE  LET b == [e EXCEPT !.ttl = t, !.kept = @ + 1] IN
         b \in Entry /\ b.v = e.v /\ b.ttl = t /\ b.kept = e.kept + 1
<1>1. e.kept + 1 \in 0..MaxKept
  BY EntryShape, Bounds
<1> QED
  BY <1>1, Bounds DEF Entry, Empty

LEMMA LaterShape ==
  ASSUME TypeOK, NEW e \in Entry
  PROVE  Later(e) \in Entry /\ Later(e).v = e.v /\ Later(e).kept = e.kept
<1>1. CASE e # Empty /\ e.ttl >= -RaceTtl
  BY <1>1, EntryTtl, EntryShape, e.ttl - 1 \in Int DEF Later
<1>2. CASE ~(e # Empty /\ e.ttl >= -RaceTtl)
  BY <1>2 DEF Later
<1> QED BY <1>1, <1>2

LEMMA RequestShape == \A x \in Request :
  /\ x.pc \in {"none", "drop", "look", "expired", "read", "write", "done", "error"}
  /\ x.left \in 0..Slow /\ x.inv \in BOOLEAN /\ x.from \in 0..MaxVer /\ x.floor \in 0..Gone
  /\ x.saw \in Entry /\ x.v \in 0..Gone \cup {None} /\ x.raced \in BOOLEAN
  BY DEF Request

LEMMA NewRequest ==
  /\ NoReq \in Request
  /\ \A inv \in BOOLEAN, from \in 0..MaxVer, floor \in 0..Gone, pc \in {"drop", "look", "error"} :
       /\ [NoReq EXCEPT !.pc = pc] \in Request
       /\ [NoReq EXCEPT !.pc = pc, !.inv = inv, !.left = Slow, !.from = from, !.floor = floor]
            \in Request
<1>1. NoReq \in Request
  BY Spans, EmptyEntry DEF NoReq, Request
<1>2. ASSUME NEW pc \in {"drop", "look", "error"} PROVE [NoReq EXCEPT !.pc = pc] \in Request
  BY <1>1 DEF Request
<1>3. ASSUME NEW x \in Request, NEW inv \in BOOLEAN, NEW from \in 0..MaxVer, NEW floor \in 0..Gone
      PROVE  [x EXCEPT !.inv = inv, !.left = Slow, !.from = from, !.floor = floor] \in Request
  BY Spans DEF Request
<1> QED
  BY <1>1, <1>2, <1>3

\* A request that has dropped the entry, one that has read its source, and one
\* that looks at the clock.
LEMMA RequestMoves ==
  ASSUME NEW x \in Request, NEW v \in 0..Gone
  PROVE  /\ [x EXCEPT !.pc = "write", !.v = v, !.saw = Empty] \in Request
         /\ \A b \in BOOLEAN : [x EXCEPT !.pc = "look", !.raced = b] \in Request
         /\ \A n \in 0..Slow, e \in Entry : [x EXCEPT !.left = n, !.saw = e] \in Request
  BY EmptyEntry DEF Request

LEMMA InitTypes == Init => TypeOK
<1> SUFFICES ASSUME Init PROVE TypeOK
  OBVIOUS
<1>1. req \in [Reqs -> Request]
  BY NewRequest DEF Init
<1> QED
  BY <1>1, Spans, EmptyEntry DEF Init, TypeOK

\* An answer keeps the types of req and best.
LEMMA AnswerTypes ==
  ASSUME TypeOK, NEW r \in Reqs, NEW v \in 0..Gone, Answer(r, v)
  PROVE  req' \in [Reqs -> Request] /\ best' \in 0..Gone
<1>1. [req[r] EXCEPT !.pc = "done", !.v = v, !.saw = Empty, !.left = 0] \in Request
  <2>1. req[r] \in Request /\ Empty \in Entry /\ 0 \in 0..Slow
    BY EmptyEntry, Spans DEF TypeOK
  <2> QED
    BY <2>1 DEF Request
<1>2. req' = [req EXCEPT ![r] = [req[r] EXCEPT !.pc = "done", !.v = v, !.saw = Empty, !.left = 0]]
  BY DEF Answer
<1> QED
  BY <1>1, <1>2 DEF Answer, TypeOK

\* What is cached, about to be kept or about to be written is a version there is.
Kept ==
  /\ entry # Empty => entry.v \in 0..ver
  /\ \A r \in Reqs : At(r, "write") => req[r].v \in 0..ver
  /\ \A r \in Reqs : At(r, "expired") => req[r].saw.v \in 0..ver

LEMMA TypeStep == TypeOK /\ Kept /\ [Next]_vars => TypeOK'
<1> SUFFICES ASSUME TypeOK, Kept, [Next]_vars PROVE TypeOK'
  OBVIOUS
<1> USE DEF TypeOK, source
<1>1. ASSUME NEW r \in Reqs, NEW inv \in BOOLEAN, Arrive(r, inv) PROVE TypeOK'
  <2>1. (IF inv THEN ver ELSE 0) \in 0..MaxVer /\ (IF inv THEN "drop" ELSE "look") \in {"drop", "look", "error"}
    BY Bounds
  <2>2. req' \in [Reqs -> Request]
    BY <1>1, <2>1, NewRequest DEF Arrive
  <2> QED
    BY <1>1, <2>2 DEF Arrive
<1>2. ASSUME NEW r \in Reqs, Drop(r) PROVE TypeOK'
  <2>1. [req[r] EXCEPT !.pc = "look", !.raced = \E q \in Reqs : Filling(q)] \in Request
    BY RequestMoves
  <2>2. req' = [req EXCEPT ![r] = [req[r] EXCEPT !.pc = "look", !.raced = \E q \in Reqs : Filling(q)]]
    BY <1>2 DEF Drop
  <2>3. req' \in [Reqs -> Request]
    BY <2>1, <2>2
  <2>4. entry' \in Entry
    BY <1>2, EmptyEntry DEF Drop, Dropped
  <2> QED
    BY <1>2, <2>3, <2>4 DEF Drop
<1>3. ASSUME NEW r \in Reqs, Look(r) PROVE TypeOK'
  <2>1. CASE entry # Empty /\ ~Expired(entry) /\ Answer(r, entry.v) /\ UNCHANGED lapped
    <3>1. entry.v \in 0..Gone
      BY <2>1, EntryShape, Bounds
    <3> QED
      BY <1>3, <2>1, <3>1, AnswerTypes DEF Look
  <2>2. CASE UNCHANGED best /\ lapped' \in BOOLEAN
             /\ req' = [req EXCEPT ![r].saw = entry,
                  ![r].pc = IF entry = Empty \/ kind = "languages" THEN "read" ELSE "expired"]
    <3> DEFINE pc == IF entry = Empty \/ kind = "languages" THEN "read" ELSE "expired"
    <3>1. [req[r] EXCEPT !.saw = entry, !.pc = pc] \in Request
      BY DEF Request
    <3>2. req' = [req EXCEPT ![r] = [req[r] EXCEPT !.saw = entry, !.pc = pc]]
      BY <2>2
    <3> QED
      BY <1>3, <2>2, <3>1, <3>2 DEF Look
  <2> QED
    BY <1>3, <2>1, <2>2 DEF Look
<1>4. ASSUME NEW r \in Reqs, Expire(r) PROVE TypeOK'
  <2> DEFINE saw == req[r].saw
  <2>a. saw \in Entry /\ saw # Empty
    BY <1>4, RequestShape DEF Expire, Kept, Empty, None
  <2>1. entry' \in Entry
    <3>1. CASE saw.kept < MaxKept /\ entry' = [saw EXCEPT !.ttl = RaceTtl, !.kept = @ + 1]
      BY <2>a, <3>1, EntryBack, Times
    <3>2. CASE entry' = Empty
      BY <3>2, EmptyEntry
    <3> QED
      BY <1>4, <3>1, <3>2 DEF Expire
  <2>2. [req[r] EXCEPT !.pc = "read", !.saw = Empty] \in Request
    BY EmptyEntry DEF Request
  <2>3. req' = [req EXCEPT ![r] = [req[r] EXCEPT !.pc = "read", !.saw = Empty]]
    BY <1>4 DEF Expire
  <2> QED
    BY <1>4, <2>1, <2>2, <2>3 DEF Expire
<1>5. ASSUME NEW r \in Reqs, ReadSource(r) PROVE TypeOK'
  <2>1. [req[r] EXCEPT !.pc = "write", !.v = ver, !.saw = Empty] \in Request
    BY Spans, RequestMoves
  <2>2. req' = [req EXCEPT ![r] = [req[r] EXCEPT !.pc = "write", !.v = ver, !.saw = Empty]]
    BY <1>5 DEF ReadSource
  <2> QED
    BY <1>5, <2>1, <2>2 DEF ReadSource
<1>6. ASSUME NEW r \in Reqs, ReadGone(r) PROVE TypeOK'
  BY <1>6, AnswerTypes, Bounds DEF ReadGone, Leaves
<1>14. ASSUME NEW r \in Reqs, FillFails(r) PROVE TypeOK'
  <2>1. [NoReq EXCEPT !.pc = "error"] \in Request
    <3>1. "error" \in {"drop", "look", "error"} /\ 0 \in 0..MaxVer /\ 0 \in 0..Gone /\ TRUE \in BOOLEAN
      BY Spans
    <3> QED
      BY <3>1, NewRequest
  <2>2. req' \in [Reqs -> Request]
    BY <1>14, <2>1 DEF FillFails
  <2> QED
    BY <1>14, <2>2 DEF FillFails, Leaves
<1>7. ASSUME NEW r \in Reqs, Write(r) PROVE TypeOK'
  <2>0. req[r].v \in 0..MaxVer
    BY <1>7, Bounds DEF Write, Kept
  <2>1. entry' \in Entry
    BY <1>7, <2>0, EntryShape, Times DEF Write, Put
  <2>2. req[r].v \in 0..Gone
    BY <2>0, Bounds
  <2> QED
    BY <1>7, <2>1, <2>2, AnswerTypes DEF Write
<1>8. CASE Change
  BY <1>8, Bounds DEF Change
<1>9. CASE Destroy
  BY <1>9 DEF Destroy
<1>10. CASE ClearCache
  BY <1>10, EmptyEntry DEF ClearCache
<1>11. CASE Restart
  <2>1. req' \in [Reqs -> Request]
    BY <1>11, NewRequest DEF Restart
  <2> QED
    BY <1>11, <2>1, EmptyEntry DEF Restart
<1>12. CASE Tick
  <2>1. ASSUME NEW r \in Reqs, Open(r)
        PROVE  [req[r] EXCEPT !.left = @ - 1, !.saw = Later(@)] \in Request
    <3>1. req[r].left > 0 /\ req[r].left \in 0..Slow /\ req[r].saw \in Entry
      BY <1>12, <2>1, RequestShape DEF Tick
    <3>2. req[r].left - 1 \in 0..Slow
      BY <3>1, Bounds
    <3>3. Later(req[r].saw) \in Entry
      BY <3>1, LaterShape
    <3> QED
      BY <3>2, <3>3, RequestMoves
  <2>2. req' \in [Reqs -> Request]
    BY <1>12, <2>1 DEF Tick
  <2>3. old' \in [0..MaxVer -> Nat]
    <3>1. \A v \in 0..MaxVer : old[v] \in Nat /\ old[v] + 1 \in Nat
      OBVIOUS
    <3> QED
      BY <1>12, <3>1 DEF Tick
  <2> QED
    BY <1>12, <2>2, <2>3, LaterShape DEF Tick
<1>13. CASE UNCHANGED vars
  BY <1>13 DEF vars
<1> QED
  BY <1>1, <1>2, <1>3, <1>4, <1>5, <1>6, <1>7, <1>8, <1>9, <1>10, <1>11, <1>12, <1>13, <1>14 DEF Next

-------------------------------------------------------------------------------
\* An answer is the only thing that happens to a request then.
LEMMA AnswerEffect ==
  ASSUME TypeOK, NEW r \in Reqs, NEW v \in Int, Answer(r, v)
  PROVE  /\ req'[r].pc = "done" /\ req'[r].v = v /\ req'[r].floor = req[r].floor
         /\ \A q \in Reqs : q # r => req'[q] = req[q]
         /\ best' = v \/ (best' = best /\ v <= best)
         /\ v <= best'
<1>1. best \in Int /\ req \in [Reqs -> Request] /\ req[r] \in Request
  BY Bounds DEF TypeOK
<1>2. best' = v \/ (best' = best /\ v <= best)
  BY <1>1 DEF Answer
<1>3. v <= best'
  BY <1>1 DEF Answer
<1>4. \A q \in Reqs : q # r => req'[q] = req[q]
  BY <1>1 DEF Answer
<1>5. /\ req'[r].pc = "done" /\ req'[r].v = v /\ req'[r].floor = req[r].floor
  <2>1. req'[r] = [req[r] EXCEPT !.pc = "done", !.v = v, !.saw = Empty, !.left = 0]
    BY <1>1 DEF Answer
  <2> QED
    BY <1>1, <2>1 DEF Request
<1> QED
  BY <1>2, <1>3, <1>4, <1>5

\* Time changes no version and no program counter.
LEMMA TickEffect ==
  ASSUME TypeOK, Tick
  PROVE  /\ entry'.v = entry.v /\ entry'.kept = entry.kept /\ (entry' = Empty <=> entry = Empty)
         /\ \A q \in Reqs : /\ req'[q].pc = req[q].pc /\ req'[q].v = req[q].v
                            /\ req'[q].inv = req[q].inv /\ req'[q].raced = req[q].raced
                            /\ req'[q].from = req[q].from /\ req'[q].floor = req[q].floor
                            /\ req'[q].saw.v = req[q].saw.v /\ req'[q].saw.kept = req[q].saw.kept
         /\ UNCHANGED <<kind, ver, gone, best, lapped, failed, orphan>>
<1>1. entry' = Later(entry)
  BY DEF Tick
<1>2. entry'.v = entry.v /\ entry'.kept = entry.kept
  BY <1>1, LaterShape DEF TypeOK
<1>3. ASSUME entry # Empty PROVE entry' # Empty
  BY <1>2, <1>3, EntryShape, Bounds DEF TypeOK, Empty
<1>4. ASSUME entry = Empty PROVE entry' = Empty
  BY <1>1, <1>4 DEF Later
<1>5. ASSUME NEW q \in Reqs
      PROVE  /\ req'[q].pc = req[q].pc /\ req'[q].v = req[q].v
             /\ req'[q].inv = req[q].inv /\ req'[q].raced = req[q].raced
             /\ req'[q].from = req[q].from /\ req'[q].floor = req[q].floor
             /\ req'[q].saw.v = req[q].saw.v /\ req'[q].saw.kept = req[q].saw.kept
  <2>1. req[q] \in Request /\ req[q].saw \in Entry
    BY RequestShape DEF TypeOK
  <2>2. Later(req[q].saw).v = req[q].saw.v /\ Later(req[q].saw).kept = req[q].saw.kept
    BY <2>1, LaterShape
  <2>3. req'[q] = req[q] \/ req'[q] = [req[q] EXCEPT !.left = @ - 1, !.saw = Later(@)]
    BY DEF Tick
  <2> QED
    BY <2>1, <2>2, <2>3 DEF Request
<1> QED
  BY <1>2, <1>3, <1>4, <1>5 DEF Tick

\* A request that looks is answered from the entry, or takes what it saw on.
LEMMA LookEffect ==
  ASSUME TypeOK, NEW r \in Reqs, Look(r)
  PROVE  /\ \A q \in Reqs : q # r => req'[q] = req[q]
         /\ \/ /\ entry # Empty /\ ~Expired(entry) /\ UNCHANGED lapped
               /\ Answer(r, entry.v) /\ entry.v \in 0..MaxVer
            \/ /\ req'[r].pc \in {"read", "expired"} /\ req'[r].saw = entry
               /\ req'[r].pc = "expired" => entry # Empty /\ Expired(entry)
               /\ req'[r].inv = req[r].inv /\ req'[r].raced = req[r].raced
               /\ req'[r].from = req[r].from /\ req'[r].floor = req[r].floor
               /\ lapped' = (lapped \/ \E q \in Reqs : Filling(q))
               /\ UNCHANGED best
         /\ req[r].pc = "look" /\ UNCHANGED <<source, entry, failed, orphan>>
<1>1. \A q \in Reqs : q # r => req'[q] = req[q]
  BY DEF Look, Answer, TypeOK
<1>2. CASE /\ entry # Empty /\ ~Expired(entry)
           /\ Answer(r, entry.v) /\ UNCHANGED lapped
  BY <1>1, <1>2, EntryShape DEF Look, At, TypeOK
<1>3. CASE /\ entry = Empty \/ Expired(entry)
           /\ req' = [req EXCEPT ![r].saw = entry,
                ![r].pc = IF entry = Empty \/ kind = "languages" THEN "read" ELSE "expired"]
           /\ lapped' = (lapped \/ \E q \in Reqs : Filling(q))
           /\ UNCHANGED best
  <2>1. /\ req'[r].pc = IF entry = Empty \/ kind = "languages" THEN "read" ELSE "expired"
        /\ req'[r].saw = entry
        /\ req'[r].inv = req[r].inv /\ req'[r].raced = req[r].raced
        /\ req'[r].from = req[r].from /\ req'[r].floor = req[r].floor
    BY <1>3 DEF TypeOK, Request
  <2>2. /\ req'[r].pc \in {"read", "expired"}
        /\ req'[r].pc = "expired" => entry # Empty /\ Expired(entry)
    BY <1>3, <2>1
  <2>3. req[r].pc = "look" /\ UNCHANGED <<source, entry, failed, orphan>>
    BY DEF Look, At
  <2> QED
    BY <1>1, <1>3, <2>1, <2>2, <2>3
<1> QED
  BY <1>2, <1>3 DEF Look

\* A fill that fails ends that request alone.
LEMMA FailEffect ==
  ASSUME TypeOK, NEW r \in Reqs, FillFails(r)
  PROVE  /\ req'[r].pc = "error" /\ \A q \in Reqs : q # r => req'[q] = req[q]
         /\ req[r].pc \in {"expired", "read", "write"}
  BY DEF TypeOK, FillFails, Filling, NoReq

\* Rails puts what the request saw back, or deletes the entry.
LEMMA ExpireEffect ==
  ASSUME TypeOK, Kept, NEW r \in Reqs, Expire(r)
  PROVE  LET saw == req[r].saw IN
         /\ req[r].pc = "expired" /\ saw \in Entry /\ saw # Empty
         /\ \/ entry' = Empty
            \/ /\ PutsBack(saw)
               /\ entry'.v = saw.v /\ entry'.ttl = RaceTtl /\ entry'.kept = saw.kept + 1
<1> PICK saw : saw = req[r].saw
  OBVIOUS
<1>1. req[r].pc = "expired" /\ saw \in Entry /\ saw # Empty
  BY RequestShape DEF Expire, At, Kept, TypeOK, Empty, None
<1>2. RaceTtl \in Int
  BY Times
<1>3. CASE PutsBack(saw) /\ saw.kept < MaxKept /\ entry' = [saw EXCEPT !.ttl = RaceTtl, !.kept = @ + 1]
  <2>1. PICK t \in Int : t = RaceTtl
    BY <1>2
  <2>2. entry' = [saw EXCEPT !.ttl = t, !.kept = @ + 1] /\ saw.kept < MaxKept
    BY <1>3, <2>1
  <2>3. entry'.v = saw.v /\ entry'.ttl = t /\ entry'.kept = saw.kept + 1
    BY <1>1, <2>2, EntryBack
  <2> QED
    BY <1>1, <1>3, <2>1, <2>3
<1> QED
  BY <1>1, <1>3 DEF Expire

LEMMA KeptStep == TypeOK /\ Kept /\ [Next]_vars => Kept'
<1> SUFFICES ASSUME TypeOK, Kept, [Next]_vars PROVE Kept'
  OBVIOUS
<1> USE DEF Kept, At, source
<1>0. ver \in Int /\ req \in [Reqs -> Request] /\ MaxVer \in Nat
  BY Bounds DEF TypeOK
<1>1. ASSUME NEW r \in Reqs, NEW inv \in BOOLEAN, Arrive(r, inv) PROVE Kept'
  BY <1>0, <1>1 DEF Arrive, NoReq
<1>2. ASSUME NEW r \in Reqs, Drop(r) PROVE Kept'
  BY <1>0, <1>2 DEF Drop, Dropped
<1>3. ASSUME NEW r \in Reqs, Look(r) PROVE Kept'
  <2>1. req'[r].pc = "expired" => req'[r].saw = entry /\ entry # Empty
    BY <1>3, LookEffect, Bounds, AnswerEffect
  <2>2. req'[r].pc # "write"
    BY <1>3, LookEffect, Bounds, AnswerEffect
  <2> QED
    BY <1>3, <2>1, <2>2, LookEffect
<1>4. ASSUME NEW r \in Reqs, Expire(r) PROVE Kept'
  <2>1. req'[r].pc = "read" /\ \A q \in Reqs : q # r => req'[q] = req[q]
    BY <1>0, <1>4 DEF Expire, Request
  <2>2. entry' = Empty \/ entry'.v = req[r].saw.v
    BY <1>4, ExpireEffect
  <2>3. req[r].pc = "expired" /\ ver' = ver
    BY <1>4 DEF Expire
  <2> QED
    BY <2>1, <2>2, <2>3
<1>5. ASSUME NEW r \in Reqs, ReadSource(r) PROVE Kept'
  BY <1>0, <1>5, Bounds DEF ReadSource, TypeOK
<1>6. ASSUME NEW r \in Reqs, ReadGone(r) PROVE Kept'
  <2>1. req'[r].pc = "done" /\ \A q \in Reqs : q # r => req'[q] = req[q]
    BY <1>6, AnswerEffect, Bounds DEF ReadGone
  <2> QED
    BY <1>6, <2>1 DEF ReadGone
<1>14. ASSUME NEW r \in Reqs, FillFails(r) PROVE Kept'
  <2>1. req'[r].pc = "error" /\ \A q \in Reqs : q # r => req'[q] = req[q]
    BY <1>14, FailEffect
  <2> QED
    BY <1>14, <2>1 DEF FillFails
<1>7. ASSUME NEW r \in Reqs, Write(r) PROVE Kept'
  BY <1>0, <1>7 DEF Write, Answer, Put
<1>8. CASE Change
  BY <1>0, <1>8 DEF Change
<1>9. CASE Destroy
  BY <1>0, <1>9 DEF Destroy
<1>10. CASE ClearCache
  BY <1>0, <1>10 DEF ClearCache
<1>11. CASE Restart
  BY <1>0, <1>11 DEF Restart, NoReq
<1>12. CASE Tick
  BY <1>0, <1>12, TickEffect
<1>13. CASE UNCHANGED vars
  BY <1>13 DEF vars
<1> QED
  BY <1>1, <1>2, <1>3, <1>4, <1>5, <1>6, <1>7, <1>8, <1>9, <1>10, <1>11, <1>12, <1>13, <1>14 DEF Next

-------------------------------------------------------------------------------
(* An invalidation that nobody raced: from its delete on, all that is      *)
(* cached or about to be is as new as the request.                         *)

Dropping(r) == req[r].inv /\ ~req[r].raced /\ req[r].pc \in {"look", "expired", "read", "write"}

FreshInv == \A r \in Reqs :
  /\ req[r].inv /\ Open(r) => req[r].from <= ver
  /\ Dropping(r) =>
       /\ entry # Empty => req[r].from <= entry.v
       /\ \A q \in Reqs : At(q, "write") => req[r].from <= req[q].v
       /\ \A q \in Reqs : At(q, "expired") => req[r].from <= req[q].saw.v

\* Versions are numbers.
LEMMA Numbers == TypeOK =>
  /\ ver \in Int /\ best \in Int /\ entry.v \in Int
  /\ \A q \in Reqs : /\ req[q].v \in Int /\ req[q].saw.v \in Int /\ req[q].from \in Int
                     /\ req[q].floor \in Int /\ req[q].inv \in BOOLEAN /\ req[q].raced \in BOOLEAN
  BY Bounds, RequestShape, EntryShape DEF TypeOK

LEMMA FreshStep == TypeOK /\ Kept /\ FreshInv /\ [Next]_vars => FreshInv'
<1> SUFFICES ASSUME TypeOK, Kept, FreshInv, [Next]_vars PROVE FreshInv'
  OBVIOUS
<1> USE Numbers DEF FreshInv, Dropping, Open, At, source
<1>0. req \in [Reqs -> Request]
  BY DEF TypeOK
<1>1. ASSUME NEW r \in Reqs, NEW inv \in BOOLEAN, Arrive(r, inv) PROVE FreshInv'
  <2>1. /\ req'[r].pc = (IF inv THEN "drop" ELSE "look") /\ req'[r].inv = inv
        /\ req'[r].from = (IF inv THEN ver ELSE 0)
        /\ \A q \in Reqs : q # r => req'[q] = req[q]
    BY <1>0, <1>1 DEF Arrive, NoReq
  <2> QED
    BY <1>1, <2>1 DEF Arrive
<1>2. ASSUME NEW r \in Reqs, Drop(r) PROVE FreshInv'
  <2>1. /\ req'[r].pc = "look" /\ req'[r].inv = req[r].inv /\ req'[r].from = req[r].from
        /\ req'[r].raced = (\E q \in Reqs : Filling(q))
        /\ \A q \in Reqs : q # r => req'[q] = req[q]
    BY <1>0, <1>2 DEF Drop, Request
  <2>2. entry' = Empty /\ ver' = ver /\ req[r].pc = "drop"
    BY <1>2 DEF Drop, Dropped
  <2>3. ASSUME NEW q \in Reqs, Dropping(q)', NEW x \in Reqs, req'[x].pc \in {"write", "expired"}
        PROVE  q # r /\ x # r /\ Dropping(q) /\ req'[x] = req[x] /\ req'[q] = req[q]
    <3>1. x # r /\ req'[x] = req[x]
      BY <2>1, <2>3
    <3>2. Filling(x)
      BY <2>3, <3>1 DEF Filling
    <3> QED
      BY <2>1, <2>3, <3>1, <3>2
  <2>4. ASSUME NEW q \in Reqs, req'[q].inv, Open(q)' PROVE req'[q].from <= ver'
    BY <2>1, <2>2, <2>4
  <2> QED
    BY <2>2, <2>3, <2>4
<1>3. ASSUME NEW r \in Reqs, Look(r) PROVE FreshInv'
  <2>1. CASE Answer(r, entry.v)
    BY <1>3, <2>1, LookEffect, AnswerEffect
  <2>2. CASE /\ req'[r].pc \in {"read", "expired"} /\ req'[r].saw = entry
             /\ req'[r].pc = "expired" => entry # Empty /\ Expired(entry)
             /\ req'[r].inv = req[r].inv /\ req'[r].raced = req[r].raced
             /\ req'[r].from = req[r].from
    BY <1>3, <2>2, LookEffect
  <2> QED
    BY <1>3, <2>1, <2>2, LookEffect
<1>4. ASSUME NEW r \in Reqs, Expire(r) PROVE FreshInv'
  <2>1. /\ req'[r].pc = "read" /\ req'[r].inv = req[r].inv /\ req'[r].raced = req[r].raced
        /\ req'[r].from = req[r].from /\ \A q \in Reqs : q # r => req'[q] = req[q]
    BY <1>0, <1>4 DEF Expire, Request
  <2>2. entry' = Empty \/ entry'.v = req[r].saw.v
    BY <1>4, RequestShape, EntryShape DEF Expire, TypeOK, Entry, Empty
  <2>3. req[r].pc = "expired" /\ ver' = ver
    BY <1>4 DEF Expire
  <2>4. ASSUME NEW q \in Reqs PROVE Dropping(q)' = Dropping(q) /\ Open(q)' = Open(q)
    BY <2>1, <2>3
  <2> QED
    BY <2>1, <2>2, <2>3, <2>4
<1>5. ASSUME NEW r \in Reqs, ReadSource(r) PROVE FreshInv'
  <2>1. /\ req'[r].pc = "write" /\ req'[r].inv = req[r].inv /\ req'[r].raced = req[r].raced
        /\ req'[r].from = req[r].from /\ req'[r].v = ver
        /\ \A q \in Reqs : q # r => req'[q] = req[q]
    BY <1>0, <1>5 DEF ReadSource, Request
  <2>2. req[r].pc = "read" /\ UNCHANGED <<ver, entry>>
    BY <1>5 DEF ReadSource
  <2>3. ASSUME NEW q \in Reqs PROVE Dropping(q)' = Dropping(q) /\ Open(q)' = Open(q)
    BY <2>1, <2>2
  <2>4. ASSUME NEW q \in Reqs, Dropping(q) PROVE req[q].from <= ver
    BY <2>4
  <2> QED
    BY <2>1, <2>2, <2>3, <2>4
<1>6. ASSUME NEW r \in Reqs, ReadGone(r) PROVE FreshInv'
  <2>1. req'[r].pc = "done" /\ \A q \in Reqs : q # r => req'[q] = req[q]
    BY <1>6, AnswerEffect, Bounds DEF ReadGone
  <2> QED
    BY <1>6, <2>1 DEF ReadGone
<1>14. ASSUME NEW r \in Reqs, FillFails(r) PROVE FreshInv'
  <2>1. req'[r].pc = "error" /\ \A q \in Reqs : q # r => req'[q] = req[q]
    BY <1>14, FailEffect
  <2> QED
    BY <1>14, <2>1 DEF FillFails
<1>7. ASSUME NEW r \in Reqs, Write(r) PROVE FreshInv'
  <2>1. req'[r].pc = "done" /\ \A q \in Reqs : q # r => req'[q] = req[q]
    BY <1>0, <1>7 DEF Write, Answer, Request
  <2>2. entry'.v = req[r].v
    BY <1>7 DEF Write, Put
  <2> QED
    BY <1>7, <2>1, <2>2 DEF Write
<1>8. CASE Change
  BY <1>8 DEF Change
<1>9. CASE Destroy
  BY <1>9 DEF Destroy
<1>10. CASE ClearCache
  BY <1>10 DEF ClearCache
<1>11. CASE Restart
  <2>1. \A q \in Reqs : req'[q].pc = "error" \/ req'[q] = req[q]
    BY <1>0, <1>11 DEF Restart, NoReq
  <2> QED
    BY <1>11, <2>1 DEF Restart
<1>12. CASE Tick
  BY <1>12, TickEffect
<1>13. CASE UNCHANGED vars
  BY <1>13 DEF vars
<1> QED
  BY <1>1, <1>2, <1>3, <1>4, <1>5, <1>6, <1>7, <1>8, <1>9, <1>10, <1>11, <1>12, <1>13, <1>14 DEF Next

-------------------------------------------------------------------------------
(* As long as no two fills overlapped and no entry outlived a row, what is *)
(* cached, kept or about to be written is as new as every answer so far.   *)

Quiet == ~lapped /\ ~orphan

BackInv ==
  /\ \A r \in Reqs : Open(r) => req[r].floor <= best
  /\ Quiet =>
       /\ \A q, r \in Reqs : Filling(q) /\ Filling(r) => q = r
       /\ \/ best <= ver
          \/ gone /\ entry = Empty /\ \A q \in Reqs : req[q].pc \notin {"write", "expired"}
       /\ entry # Empty => best <= entry.v
       /\ \A q \in Reqs : At(q, "write") => best <= req[q].v /\ (entry # Empty => entry.v <= req[q].v)
       /\ \A q \in Reqs : At(q, "expired") =>
            best <= req[q].saw.v /\ (entry # Empty => entry.v = req[q].saw.v)

LEMMA BackStep == TypeOK /\ Kept /\ BackInv /\ [Next]_vars => BackInv'
<1> SUFFICES ASSUME TypeOK, Kept, BackInv, [Next]_vars PROVE BackInv'
  OBVIOUS
<1> USE Numbers DEF BackInv, Quiet, Filling, Open, At, source
<1>0. req \in [Reqs -> Request]
  BY DEF TypeOK
<1>1. ASSUME NEW r \in Reqs, NEW inv \in BOOLEAN, Arrive(r, inv) PROVE BackInv'
  <2>1. /\ req'[r].pc \in {"drop", "look"} /\ req'[r].floor = best
        /\ \A q \in Reqs : q # r => req'[q] = req[q]
    BY <1>0, <1>1 DEF Arrive, NoReq
  <2>2. UNCHANGED <<ver, gone, entry, best, lapped, orphan>>
    BY <1>1 DEF Arrive
  <2> QED
    BY <2>1, <2>2
<1>2. ASSUME NEW r \in Reqs, Drop(r) PROVE BackInv'
  <2>1. /\ req'[r].pc = "look" /\ req'[r].floor = req[r].floor
        /\ \A q \in Reqs : q # r => req'[q] = req[q]
    BY <1>0, <1>2 DEF Drop, Request
  <2>2. entry' = Empty /\ req[r].pc = "drop" /\ UNCHANGED <<ver, gone, best, lapped, orphan>>
    BY <1>2 DEF Drop, Dropped
  <2> QED
    BY <2>1, <2>2
<1>3. ASSUME NEW r \in Reqs, Look(r) PROVE BackInv'
  <2>0. UNCHANGED <<ver, gone, entry, orphan>>
    BY <1>3 DEF Look
  <2>1. CASE entry # Empty /\ Answer(r, entry.v) /\ UNCHANGED lapped
    <3>1. /\ req'[r].pc = "done" /\ \A q \in Reqs : q # r => req'[q] = req[q]
          /\ best' = entry.v \/ (best' = best /\ entry.v <= best)
      BY <2>1, AnswerEffect
    <3>2. best <= best'
      BY <2>1 DEF Answer
    <3> QED
      BY <2>0, <2>1, <3>1, <3>2 DEF Kept
  <2>2. CASE /\ req'[r].pc \in {"read", "expired"} /\ req'[r].saw = entry
             /\ req'[r].pc = "expired" => entry # Empty
             /\ req'[r].floor = req[r].floor
             /\ lapped' = (lapped \/ \E q \in Reqs : Filling(q)) /\ UNCHANGED best
    <3>1. \A q \in Reqs : q # r => req'[q] = req[q]
      BY <1>3, LookEffect
    <3>2. req[r].pc = "look"
      BY <1>3, LookEffect
    <3> QED
      BY <2>0, <2>2, <3>1, <3>2
  <2> QED
    BY <1>3, <2>1, <2>2, LookEffect
<1>4. ASSUME NEW r \in Reqs, Expire(r) PROVE BackInv'
  <2>1. /\ req'[r].pc = "read" /\ req'[r].floor = req[r].floor
        /\ \A q \in Reqs : q # r => req'[q] = req[q]
    BY <1>0, <1>4 DEF Expire, Request
  <2>2. entry' = Empty \/ entry'.v = req[r].saw.v
    BY <1>4, RequestShape, EntryShape DEF Expire, TypeOK, Entry, Empty
  <2>3. req[r].pc = "expired" /\ UNCHANGED <<ver, gone, best, lapped, orphan>>
    BY <1>4 DEF Expire
  <2> QED
    BY <2>1, <2>2, <2>3
<1>5. ASSUME NEW r \in Reqs, ReadSource(r) PROVE BackInv'
  <2>1. /\ req'[r].pc = "write" /\ req'[r].floor = req[r].floor /\ req'[r].v = ver
        /\ \A q \in Reqs : q # r => req'[q] = req[q]
    BY <1>0, <1>5 DEF ReadSource, Request
  <2>2. req[r].pc = "read" /\ ~gone /\ UNCHANGED <<ver, gone, entry, best, lapped, orphan>>
    BY <1>5 DEF ReadSource
  <2> QED
    BY <2>1, <2>2 DEF Kept
<1>6. ASSUME NEW r \in Reqs, ReadGone(r) PROVE BackInv'
  <2>0. /\ req[r].pc = "read" /\ UNCHANGED <<ver, gone, entry, lapped>>
        /\ orphan' = (orphan \/ entry # Empty) /\ gone /\ Answer(r, Gone)
    BY <1>6 DEF ReadGone, Leaves
  <2>1. req'[r].pc = "done" /\ \A q \in Reqs : q # r => req'[q] = req[q]
    BY <2>0, AnswerEffect, Bounds
  <2>2. best' \in Int /\ best <= best'
    BY <2>0, Bounds DEF Answer
  <2>3. \A q \in Reqs : Open(q)' => req'[q].floor <= best'
    BY <2>1, <2>2
  <2>4. Quiet' => \A q \in Reqs : ~Filling(q)'
    BY <2>0, <2>1
  <2>5. Quiet' => gone' /\ entry' = Empty
    BY <2>0
  <2> QED
    BY <2>3, <2>4, <2>5
<1>14. ASSUME NEW r \in Reqs, FillFails(r) PROVE BackInv'
  <2>1. req'[r].pc = "error" /\ \A q \in Reqs : q # r => req'[q] = req[q]
    BY <1>14, FailEffect
  <2>2. UNCHANGED <<ver, gone, entry, best, lapped, orphan>>
    BY <1>14 DEF FillFails
  <2> QED
    BY <2>1, <2>2
<1>7. ASSUME NEW r \in Reqs, Write(r) PROVE BackInv'
  <2>1. entry' = Put(req[r].v) /\ Answer(r, req[r].v) /\ req[r].pc = "write"
        /\ UNCHANGED <<ver, gone, lapped, orphan>>
    BY <1>7 DEF Write
  <2>2. /\ req'[r].pc = "done" /\ \A q \in Reqs : q # r => req'[q] = req[q]
        /\ best' = req[r].v \/ (best' = best /\ req[r].v <= best)
    BY <2>1, AnswerEffect
  <2>3. best <= best' /\ entry'.v = req[r].v
    BY <2>1 DEF Answer, Put
  <2> QED
    BY <2>1, <2>2, <2>3 DEF Kept
<1>8. CASE Change
  BY <1>8 DEF Change
<1>9. CASE Destroy
  BY <1>9 DEF Destroy
<1>10. CASE ClearCache
  BY <1>10 DEF ClearCache
<1>11. CASE Restart
  <2>1. \A q \in Reqs : req'[q].pc = "error" \/ req'[q] = req[q]
    BY <1>0, <1>11 DEF Restart, NoReq
  <2>2. entry' = Empty /\ UNCHANGED <<ver, gone, best, lapped, orphan>>
    BY <1>11 DEF Restart
  <2> QED
    BY <2>1, <2>2
<1>12. CASE Tick
  BY <1>12, TickEffect
<1>13. CASE UNCHANGED vars
  BY <1>13 DEF vars
<1> QED
  BY <1>1, <1>2, <1>3, <1>4, <1>5, <1>6, <1>7, <1>8, <1>9, <1>10, <1>11, <1>12, <1>13, <1>14 DEF Next

-------------------------------------------------------------------------------
(* How old what is cached may be.  Its time left and the time for which it *)
(* has been out of date add up to no more than its duration and the time a *)
(* fill takes, and twice RaceTtl for every time that Rails put it back.    *)

FillAge == Duration[kind] + Slow
Aged(e) == e # Empty /\ e.ttl >= -RaceTtl => old[e.v] + e.ttl <= MaxAge(e.kept)

RecentInv ==
  /\ \A v \in 0..MaxVer : v > ver \/ (v = ver /\ ~gone) => old[v] = 0
  /\ \A r \in Reqs : At(r, "write") => old[req[r].v] + req[r].left <= Slow
  /\ Aged(entry)
  /\ \A r \in Reqs : At(r, "expired") => Aged(req[r].saw)

\* Ages are numbers, and MaxAge leaves room for putting an entry back.
LEMMA Ages ==
  ASSUME TypeOK
  PROVE  /\ RaceTtl \in Nat /\ Duration[kind] \in Nat /\ Slow \in Nat /\ FillAge \in Nat
         /\ FillAge = Duration[kind] + Slow
         /\ \A v \in 0..MaxVer : old[v] \in Nat
<1>1. Duration[kind] \in Nat /\ Slow \in Nat
  BY Bounds DEF TypeOK
<1>2. RaceTtl \in Nat
  BY <1>1 DEF RaceTtl
<1> QED
  BY <1>1, <1>2 DEF FillAge, TypeOK

LEMMA Room ==
  ASSUME TypeOK, NEW k \in Nat
  PROVE  /\ MaxAge(k) \in Nat /\ FillAge <= MaxAge(k) /\ MaxAge(0) = FillAge
         /\ MaxAge(k + 1) = MaxAge(k) + 2 * RaceTtl
<1>1. PICK n \in Nat : n = RaceTtl
  BY Ages
<1>2. n * k \in Nat /\ n * 0 = 0 /\ 2 * n * 0 = 0
  OBVIOUS
<1>3. 2 * n * (k + 1) = 2 * n * k + 2 * n /\ 2 * n * k \in Nat
  BY <1>2
<1>4. FillAge \in Nat /\ FillAge = Duration[kind] + Slow /\ Duration[kind] \in Nat /\ Slow \in Nat
  BY Ages
<1> QED
  BY <1>1, <1>2, <1>3, <1>4 DEF MaxAge

\* What a unit of time does to ages, entries and requests.
LEMMA Ageing ==
  ASSUME TypeOK, Tick
  PROVE  /\ entry' = Later(entry)
         /\ \A v \in 0..MaxVer : /\ old'[v] \in {old[v], old[v] + 1}
                                 /\ v > ver \/ (v = ver /\ ~gone) => old'[v] = old[v]
         /\ \A q \in Reqs : Open(q) =>
              /\ req'[q].left = req[q].left - 1 /\ req'[q].saw = Later(req[q].saw)
              /\ req[q].left \in 0..Slow /\ req[q].saw \in Entry
<1>1. entry' = Later(entry)
  BY DEF Tick
<1>2. old' = [v \in 0..MaxVer |-> IF (v < ver \/ (v = ver /\ gone)) /\ old[v] <= MaxAge(MaxKept)
                                 THEN old[v] + 1 ELSE old[v]]
  BY DEF Tick
<1>3. ver \in 0..MaxVer /\ MaxVer \in Nat /\ req \in [Reqs -> Request]
  BY Bounds DEF TypeOK
<1>4. ASSUME NEW v \in 0..MaxVer
      PROVE  /\ old'[v] \in {old[v], old[v] + 1}
             /\ v > ver \/ (v = ver /\ ~gone) => old'[v] = old[v]
  BY <1>2, <1>3
<1>5. ASSUME NEW q \in Reqs, Open(q)
      PROVE  /\ req'[q].left = req[q].left - 1 /\ req'[q].saw = Later(req[q].saw)
             /\ req[q].left \in 0..Slow /\ req[q].saw \in Entry
  <2>1. req[q] \in Request /\ req[q].left \in 0..Slow /\ req[q].saw \in Entry
    BY <1>3, RequestShape
  <2>2. req'[q] = [req[q] EXCEPT !.left = @ - 1, !.saw = Later(@)]
    BY <1>5 DEF Tick
  <2> QED
    BY <2>1, <2>2 DEF Request
<1> QED
  BY <1>1, <1>4, <1>5

\* One more unit of time makes an entry one unit older, and last one less.
LEMMA AgedLater ==
  ASSUME TypeOK, Tick, NEW e \in Entry, Aged(e)
  PROVE  Later(e) # Empty /\ Later(e).ttl >= -RaceTtl =>
           old'[Later(e).v] + Later(e).ttl <= MaxAge(Later(e).kept)
<1>1. CASE e # Empty /\ e.ttl >= -RaceTtl
  <2>1. e.v \in 0..MaxVer /\ e.ttl \in Int /\ old[e.v] \in Nat /\ e.kept \in Nat
    BY <1>1, EntryShape, Ages
  <2>2. Later(e).ttl = e.ttl - 1 /\ Later(e).v = e.v /\ Later(e).kept = e.kept
    BY <1>1, <2>1 DEF Later, Entry, Empty
  <2>3. old'[e.v] \in {old[e.v], old[e.v] + 1}
    BY <2>1, Ageing
  <2>4. old[e.v] + e.ttl <= MaxAge(e.kept) /\ MaxAge(e.kept) \in Nat
    BY <1>1, <2>1, Room DEF Aged
  <2> QED
    BY <2>1, <2>2, <2>3, <2>4
<1>2. CASE ~(e # Empty /\ e.ttl >= -RaceTtl)
  BY <1>2 DEF Later
<1> QED
  BY <1>1, <1>2

LEMMA RecentStep == TypeOK /\ Kept /\ RecentInv /\ [Next]_vars => RecentInv'
<1> SUFFICES ASSUME TypeOK, Kept, RecentInv, [Next]_vars PROVE RecentInv'
  OBVIOUS
<1> USE DEF Filling, At, source
<1>0. req \in [Reqs -> Request] /\ entry \in Entry /\ ver \in 0..MaxVer /\ MaxVer \in Nat
  BY Bounds DEF TypeOK
<1>a. /\ RaceTtl \in Nat /\ Duration[kind] \in Nat /\ Slow \in Nat /\ FillAge \in Nat
      /\ FillAge = Duration[kind] + Slow
      /\ \A v \in 0..MaxVer : old[v] \in Nat
  BY Ages
<1>b. kind' = kind => RaceTtl' = RaceTtl /\ \A k : MaxAge(k)' = MaxAge(k)
  BY DEF RaceTtl, MaxAge
<1>1. ASSUME NEW r \in Reqs, NEW inv \in BOOLEAN, Arrive(r, inv) PROVE RecentInv'
  <2>1. /\ req'[r].pc \in {"drop", "look"} /\ ~Filling(r)
        /\ \A q \in Reqs : q # r => req'[q] = req[q]
    BY <1>0, <1>1 DEF Arrive, NoReq, Open
  <2>2. UNCHANGED <<source, entry>>
    BY <1>1 DEF Arrive
  <2> QED
    BY <1>b, <2>1, <2>2 DEF RecentInv, Aged
<1>2. ASSUME NEW r \in Reqs, Drop(r) PROVE RecentInv'
  <2>1. req'[r].pc = "look" /\ \A q \in Reqs : q # r => req'[q] = req[q]
    BY <1>0, <1>2 DEF Drop, Request
  <2>2. entry' = Empty /\ UNCHANGED <<source>>
    BY <1>2 DEF Drop, Dropped
  <2> QED
    BY <1>b, <2>1, <2>2 DEF RecentInv, Aged
<1>3. ASSUME NEW r \in Reqs, Look(r) PROVE RecentInv'
  <2>0. UNCHANGED <<source, entry>> /\ \A q \in Reqs : q # r => req'[q] = req[q]
    BY <1>3, LookEffect
  <2>1. CASE req'[r].pc = "done"
    BY <1>b, <2>0, <2>1 DEF RecentInv, Aged
  <2>2. CASE req'[r].pc \in {"read", "expired"} /\ req'[r].saw = entry
    BY <1>b, <2>0, <2>2 DEF RecentInv, Aged
  <2> QED
    BY <1>3, <2>1, <2>2, LookEffect, AnswerEffect, Bounds
<1>4. ASSUME NEW r \in Reqs, Expire(r) PROVE RecentInv'
  <2>1. req'[r].pc = "read" /\ \A q \in Reqs : q # r => req'[q] = req[q]
    BY <1>0, <1>4 DEF Expire, Request
  <2>2. UNCHANGED <<source>> /\ At(r, "expired")
    BY <1>4 DEF Expire
  <2>3. Aged(entry')
    <3> PICK saw : saw = req[r].saw
      OBVIOUS
    <3>1. CASE entry' = Empty
      BY <3>1 DEF Aged
    <3>2. CASE /\ PutsBack(saw)
               /\ entry'.v = saw.v /\ entry'.ttl = RaceTtl /\ entry'.kept = saw.kept + 1
      <4>1. saw \in Entry /\ saw # Empty /\ -saw.ttl <= RaceTtl
        BY <1>4, <3>2, ExpireEffect DEF PutsBack
      <4>2. saw.v \in 0..MaxVer /\ saw.ttl \in Int /\ saw.kept \in Nat
        BY <4>1, EntryShape
      <4>4. old[saw.v] + saw.ttl <= MaxAge(saw.kept)
        BY <1>a, <2>2, <4>1, <4>2 DEF RecentInv, Aged
      <4>5. /\ MaxAge(saw.kept) \in Nat
            /\ MaxAge(saw.kept + 1) = MaxAge(saw.kept) + 2 * RaceTtl
        BY <4>2, Room
      <4>6. old[saw.v] \in Nat
        BY <1>a, <4>2
      <4>7. old[saw.v] + RaceTtl <= MaxAge(saw.kept + 1)
        BY <1>a, <4>1, <4>2, <4>4, <4>5, <4>6
      <4> QED
        BY <3>2, <4>7 DEF Aged
    <3> QED
      BY <1>4, <3>1, <3>2, ExpireEffect
  <2> QED
    BY <1>b, <2>1, <2>2, <2>3 DEF RecentInv, Aged
<1>5. ASSUME NEW r \in Reqs, ReadSource(r) PROVE RecentInv'
  <2>1. /\ req'[r].pc = "write" /\ req'[r].v = ver /\ req'[r].left = req[r].left
        /\ \A q \in Reqs : q # r => req'[q] = req[q]
    BY <1>0, <1>5 DEF ReadSource, Request
  <2>2. UNCHANGED <<source, entry>> /\ At(r, "read")
    BY <1>5 DEF ReadSource
  <2>3. old[ver] = 0 /\ req[r].left \in 0..Slow
    BY <1>0, <1>5, RequestShape DEF RecentInv, ReadSource
  <2> QED
    BY <1>a, <1>b, <2>1, <2>2, <2>3 DEF RecentInv, Aged
<1>6. ASSUME NEW r \in Reqs, ReadGone(r) PROVE RecentInv'
  <2>1. req'[r].pc = "done" /\ \A q \in Reqs : q # r => req'[q] = req[q]
    BY <1>6, AnswerEffect, Bounds DEF ReadGone
  <2>2. UNCHANGED <<source, entry>>
    BY <1>6 DEF ReadGone
  <2> QED
    BY <1>b, <2>1, <2>2 DEF RecentInv, Aged
<1>14. ASSUME NEW r \in Reqs, FillFails(r) PROVE RecentInv'
  <2>1. req'[r].pc = "error" /\ \A q \in Reqs : q # r => req'[q] = req[q]
    BY <1>14, FailEffect
  <2>2. UNCHANGED <<source, entry>>
    BY <1>14 DEF FillFails
  <2> QED
    BY <1>b, <2>1, <2>2 DEF RecentInv, Aged
<1>7. ASSUME NEW r \in Reqs, Write(r) PROVE RecentInv'
  <2>1. req'[r].pc = "done" /\ \A q \in Reqs : q # r => req'[q] = req[q]
    BY <1>0, <1>7 DEF Write, Answer, Request
  <2>2. UNCHANGED <<source>> /\ At(r, "write")
        /\ entry' = [v |-> req[r].v, ttl |-> Duration[kind], kept |-> 0]
    BY <1>7 DEF Write, Put
  <2>3. req[r].left \in 0..Slow /\ req[r].v \in 0..MaxVer
    BY <1>0, <2>2, RequestShape DEF Kept
  <2>4. old[req[r].v] + Duration[kind] <= MaxAge(0)
    <3>1. MaxAge(0) = FillAge
      BY Room
    <3> QED
      BY <1>a, <2>2, <2>3, <3>1 DEF RecentInv
  <2>5. Aged(entry')
    BY <2>2, <2>4 DEF Aged
  <2> QED
    BY <1>b, <2>1, <2>2, <2>5 DEF RecentInv, Aged
<1>8. CASE Change
  <2>1. ver' = ver + 1 /\ UNCHANGED <<kind, gone, old, entry, req>>
    BY <1>8 DEF Change
  <2> QED
    BY <1>0, <1>b, <2>1 DEF RecentInv, Aged
<1>9. CASE Destroy
  <2>1. gone' = TRUE /\ UNCHANGED <<kind, ver, old, entry, req>>
    BY <1>9 DEF Destroy
  <2> QED
    BY <1>0, <1>b, <2>1 DEF RecentInv, Aged
<1>10. CASE ClearCache
  <2>1. entry' = Empty /\ UNCHANGED <<source, req>>
    BY <1>10 DEF ClearCache
  <2> QED
    BY <1>b, <2>1 DEF RecentInv, Aged
<1>11. CASE Restart
  <2>1. \A q \in Reqs : req'[q].pc = "error" \/ req'[q] = req[q]
    BY <1>0, <1>11 DEF Restart, NoReq
  <2>2. entry' = Empty /\ UNCHANGED <<source>>
    BY <1>11 DEF Restart
  <2> QED
    BY <1>b, <2>1, <2>2 DEF RecentInv, Aged
<1>12. CASE Tick
  <2>0. /\ UNCHANGED <<kind, ver, gone>>
        /\ \A q \in Reqs : req'[q].pc = req[q].pc /\ req'[q].v = req[q].v
    BY <1>12, TickEffect
  <2>1. \A v \in 0..MaxVer : /\ old'[v] \in {old[v], old[v] + 1}
                             /\ v > ver \/ (v = ver /\ ~gone) => old'[v] = old[v]
    BY <1>12, Ageing
  <2>2. \A q \in Reqs : Open(q) =>
          /\ req'[q].left = req[q].left - 1 /\ req'[q].saw = Later(req[q].saw)
          /\ req[q].left \in 0..Slow /\ req[q].saw \in Entry
    BY <1>12, Ageing
  <2>3. entry' = Later(entry)
    BY <1>12, Ageing
  <2>4. \A v \in 0..MaxVer : v > ver' \/ (v = ver' /\ ~gone') => old'[v] = 0
    BY <2>0, <2>1 DEF RecentInv
  <2>5. ASSUME NEW q \in Reqs, At(q, "write") PROVE old'[req'[q].v] + req'[q].left <= Slow
    <3>1. req[q].v \in 0..MaxVer /\ old[req[q].v] + req[q].left <= Slow
      BY <1>0, <2>5 DEF Kept, RecentInv
    <3> QED
      BY <1>a, <2>0, <2>1, <2>2, <2>5, <3>1 DEF Open
  <2>6. Aged(entry)'
    <3>1. Aged(entry)
      BY DEF RecentInv
    <3>2. Later(entry) # Empty /\ Later(entry).ttl >= -RaceTtl =>
            old'[Later(entry).v] + Later(entry).ttl <= MaxAge(Later(entry).kept)
      BY <1>0, <1>12, <3>1, AgedLater
    <3> QED
      BY <1>b, <2>0, <2>3, <3>2 DEF Aged
  <2>7. ASSUME NEW q \in Reqs, At(q, "expired") PROVE Aged(req[q].saw)'
    <3>1. Aged(req[q].saw) /\ req[q].saw \in Entry /\ req'[q].saw = Later(req[q].saw)
      BY <2>2, <2>7 DEF RecentInv, Open
    <3>2. LET e == Later(req[q].saw) IN
          e # Empty /\ e.ttl >= -RaceTtl => old'[e.v] + e.ttl <= MaxAge(e.kept)
      BY <1>12, <3>1, AgedLater
    <3> QED
      BY <1>b, <2>0, <3>1, <3>2 DEF Aged
  <2> QED
    BY <2>0, <2>4, <2>5, <2>6, <2>7 DEF RecentInv
<1>13. CASE UNCHANGED vars
  BY <1>13, <1>b DEF vars, RecentInv, Aged
<1> QED
  BY <1>1, <1>2, <1>3, <1>4, <1>5, <1>6, <1>7, <1>8, <1>9, <1>10, <1>11, <1>12, <1>13, <1>14 DEF Next

-------------------------------------------------------------------------------
(* How often it was put back: not at all before a fill that neither met    *)
(* another nor failed, and once during that fill.                          *)

BackInTime(q) == req[q].pc \in {"read", "write"}

OnceInv == ~lapped /\ ~failed =>
  /\ \A q, r \in Reqs : Filling(q) /\ Filling(r) => q = r
  /\ entry.kept <= 1
  /\ (\A q \in Reqs : ~BackInTime(q)) => entry.kept = 0
  /\ \A q \in Reqs : At(q, "expired") => req[q].saw.kept = 0

LEMMA OnceStep == TypeOK /\ Kept /\ OnceInv /\ [Next]_vars => OnceInv'
<1> SUFFICES ASSUME TypeOK, Kept, OnceInv, [Next]_vars PROVE OnceInv'
  OBVIOUS
<1> USE DEF OnceInv, BackInTime, Filling, At
<1>0. req \in [Reqs -> Request] /\ entry.kept \in Nat /\ Empty.kept = 0
  BY EntryShape DEF TypeOK, Empty
<1>1. ASSUME NEW r \in Reqs, NEW inv \in BOOLEAN, Arrive(r, inv) PROVE OnceInv'
  <2>1. /\ req'[r].pc \in {"drop", "look"} /\ ~Filling(r)
        /\ \A q \in Reqs : q # r => req'[q] = req[q]
    BY <1>0, <1>1 DEF Arrive, NoReq, Open
  <2>2. UNCHANGED <<entry, lapped, failed>>
    BY <1>1 DEF Arrive
  <2> QED
    BY <2>1, <2>2
<1>2. ASSUME NEW r \in Reqs, Drop(r) PROVE OnceInv'
  <2>1. req'[r].pc = "look" /\ \A q \in Reqs : q # r => req'[q] = req[q]
    BY <1>0, <1>2 DEF Drop, Request
  <2>2. entry' = Empty /\ UNCHANGED <<lapped, failed>>
    BY <1>2 DEF Drop, Dropped
  <2> QED
    BY <1>0, <2>1, <2>2
<1>3. ASSUME NEW r \in Reqs, Look(r) PROVE OnceInv'
  <2>0. /\ UNCHANGED <<entry, failed>> /\ req[r].pc = "look"
        /\ \A q \in Reqs : q # r => req'[q] = req[q]
    BY <1>3, LookEffect
  <2>1. CASE req'[r].pc = "done" /\ UNCHANGED lapped
    BY <2>0, <2>1
  <2>2. CASE /\ req'[r].pc \in {"read", "expired"} /\ req'[r].saw = entry
             /\ lapped' = (lapped \/ \E q \in Reqs : Filling(q))
    <3>1. ~lapped' /\ ~failed' => entry.kept = 0 /\ \A q \in Reqs : ~Filling(q)
      BY <2>0, <2>2
    <3> QED
      BY <2>0, <2>2, <3>1
  <2> QED
    BY <1>3, <2>1, <2>2, LookEffect, AnswerEffect, Bounds
<1>4. ASSUME NEW r \in Reqs, Expire(r) PROVE OnceInv'
  <2>1. req'[r].pc = "read" /\ \A q \in Reqs : q # r => req'[q] = req[q]
    BY <1>0, <1>4 DEF Expire, Request
  <2>2. UNCHANGED <<lapped, failed>> /\ req[r].pc = "expired"
    BY <1>4 DEF Expire
  <2>3. entry' = Empty \/ entry'.kept = req[r].saw.kept + 1
    BY <1>4, ExpireEffect
  <2> QED
    BY <1>0, <2>1, <2>2, <2>3
<1>5. ASSUME NEW r \in Reqs, ReadSource(r) PROVE OnceInv'
  <2>1. req'[r].pc = "write" /\ \A q \in Reqs : q # r => req'[q] = req[q]
    BY <1>0, <1>5 DEF ReadSource, Request
  <2>2. UNCHANGED <<entry, lapped, failed>> /\ req[r].pc = "read"
    BY <1>5 DEF ReadSource
  <2> QED
    BY <2>1, <2>2
<1>6. ASSUME NEW r \in Reqs, ReadGone(r) PROVE OnceInv'
  <2>1. req'[r].pc = "done" /\ \A q \in Reqs : q # r => req'[q] = req[q]
    BY <1>6, AnswerEffect, Bounds DEF ReadGone
  <2>2. /\ UNCHANGED <<entry, lapped>> /\ req[r].pc = "read"
        /\ failed' = (failed \/ entry # Empty)
    BY <1>6 DEF ReadGone, Leaves
  <2> QED
    BY <1>0, <2>1, <2>2
<1>7. ASSUME NEW r \in Reqs, FillFails(r) PROVE OnceInv'
  <2>1. /\ req'[r].pc = "error" /\ \A q \in Reqs : q # r => req'[q] = req[q]
        /\ req[r].pc \in {"expired", "read", "write"}
    BY <1>7, FailEffect
  <2>2. /\ UNCHANGED <<entry, lapped>>
        /\ failed' = (failed \/ (entry # Empty /\ req[r].pc # "expired"))
    BY <1>7 DEF FillFails, Leaves
  <2> QED
    BY <1>0, <2>1, <2>2
<1>8. ASSUME NEW r \in Reqs, Write(r) PROVE OnceInv'
  <2>1. req'[r].pc = "done" /\ \A q \in Reqs : q # r => req'[q] = req[q]
    BY <1>0, <1>8 DEF Write, Answer, Request
  <2>2. UNCHANGED <<lapped, failed>> /\ req[r].pc = "write" /\ entry'.kept = 0
    BY <1>8 DEF Write, Put
  <2> QED
    BY <2>1, <2>2
<1>9. CASE Change \/ Destroy
  BY <1>9 DEF Change, Destroy
<1>10. CASE ClearCache
  BY <1>0, <1>10 DEF ClearCache
<1>11. CASE Restart
  <2>1. \A q \in Reqs : req'[q].pc = "error" \/ req'[q] = req[q]
    BY <1>0, <1>11 DEF Restart, NoReq
  <2>2. entry' = Empty /\ UNCHANGED <<lapped, failed>>
    BY <1>11 DEF Restart
  <2> QED
    BY <1>0, <2>1, <2>2
<1>12. CASE Tick
  BY <1>12, TickEffect
<1>13. CASE UNCHANGED vars
  BY <1>13 DEF vars
<1> QED
  BY <1>1, <1>2, <1>3, <1>4, <1>5, <1>6, <1>7, <1>8, <1>9, <1>10, <1>11, <1>12, <1>13 DEF Next

-------------------------------------------------------------------------------
CacheInv == TypeOK /\ Kept /\ FreshInv /\ BackInv /\ RecentInv /\ OnceInv

\* The three steps that answer a request.
LEMMA AnswerSteps ==
  ASSUME TypeOK, Next, NEW r \in Reqs, Answers(r)
  PROVE  \/ entry # Empty /\ ~Expired(entry) /\ Answer(r, entry.v) /\ req[r].pc = "look"
         \/ Answer(r, Gone)
         \/ Answer(r, req[r].v) /\ req[r].pc = "write"
<1> USE DEF Answers, Open, source
<1>0. req \in [Reqs -> Request]
  BY DEF TypeOK
<1>1. ASSUME NEW q \in Reqs, NEW inv \in BOOLEAN, Arrive(q, inv) PROVE FALSE
  BY <1>0, <1>1 DEF Arrive, NoReq
<1>2. ASSUME NEW q \in Reqs, Drop(q) PROVE FALSE
  BY <1>0, <1>2 DEF Drop, Request
<1>3. ASSUME NEW q \in Reqs, Look(q)
      PROVE  entry # Empty /\ ~Expired(entry) /\ Answer(r, entry.v) /\ req[r].pc = "look"
  BY <1>3, LookEffect
<1>4. ASSUME NEW q \in Reqs, Expire(q) PROVE FALSE
  BY <1>0, <1>4 DEF Expire, Request
<1>5. ASSUME NEW q \in Reqs, ReadSource(q) PROVE FALSE
  BY <1>0, <1>5 DEF ReadSource, Request
<1>6. ASSUME NEW q \in Reqs, ReadGone(q) PROVE Answer(r, Gone)
  BY <1>6, AnswerEffect, Bounds DEF ReadGone
<1>11. ASSUME NEW q \in Reqs, FillFails(q) PROVE FALSE
  BY <1>11, FailEffect
<1>7. ASSUME NEW q \in Reqs, Write(q) PROVE Answer(r, req[r].v) /\ req[r].pc = "write"
  <2>1. Answer(q, req[q].v) /\ req[q].pc = "write"
    BY <1>7 DEF Write, At
  <2> QED
    BY <2>1, AnswerEffect, Numbers
<1>8. ASSUME Change \/ Destroy \/ ClearCache PROVE FALSE
  BY <1>8 DEF Change, Destroy, ClearCache
<1>9. ASSUME Restart PROVE FALSE
  BY <1>0, <1>9 DEF Restart, NoReq
<1>10. ASSUME Tick PROVE FALSE
  BY <1>10, TickEffect
<1> QED
  BY <1>1, <1>2, <1>3, <1>4, <1>5, <1>6, <1>7, <1>8, <1>9, <1>10, <1>11 DEF Next

LEMMA Invariance == Spec => []CacheInv
<1>1. Init => CacheInv
  <2> SUFFICES ASSUME Init PROVE CacheInv
    OBVIOUS
  <2>1. TypeOK
    BY InitTypes
  <2>2. \A r \in Reqs : req[r].pc = "none"
    BY DEF Init, NoReq
  <2>3. ver = 0 /\ best = 0 /\ entry = Empty /\ \A v \in 0..MaxVer : old[v] = 0
    BY DEF Init
  <2>4. Kept /\ FreshInv /\ BackInv
    BY <2>1, <2>2, <2>3 DEF Kept, FreshInv, Dropping, BackInv, Filling, Open, At
  <2>5. RecentInv
    BY <2>2, <2>3 DEF RecentInv, Aged, At
  <2>6. OnceInv
    BY <2>2, <2>3 DEF OnceInv, Filling, At, Empty
  <2> QED
    BY <2>1, <2>4, <2>5, <2>6 DEF CacheInv
<1>2. CacheInv /\ [Next]_vars => CacheInv'
  BY TypeStep, KeptStep, FreshStep, BackStep, RecentStep, OnceStep DEF CacheInv
<1> QED
  BY <1>1, <1>2, PTL DEF Spec

\* The caches keep their types: what is cached or answered is a version there
\* was, or that there is none any more.
THEOREM CacheTyping == Spec => []TypeOK
<1>1. CacheInv => TypeOK
  BY DEF CacheInv
<1> QED
  BY <1>1, Invariance, PTL

\* GET /statistics?invalidate_cache=true answers with statistics no older than
\* the request, however many others read, drop and fill the cache, unless one
\* was filling it when the entry was deleted (info_controller.rb).
THEOREM Refreshing == Spec => InvalidateIsFresh
<1>1. CacheInv /\ [Next]_vars =>
        [\A r \in Reqs : Answers(r) /\ req[r].inv /\ ~req[r].raced => req'[r].v >= req[r].from]_vars
  <2> SUFFICES ASSUME CacheInv, Next, NEW r \in Reqs, Answers(r), req[r].inv, ~req[r].raced
               PROVE  req'[r].v >= req[r].from
    OBVIOUS
  <2> USE Numbers DEF CacheInv
  <2>1. CASE entry # Empty /\ Answer(r, entry.v) /\ req[r].pc = "look"
    BY <2>1, AnswerEffect DEF FreshInv, Dropping
  <2>2. CASE Answer(r, Gone)
    <3>1. req'[r].v = Gone /\ req[r].from \in 0..MaxVer
      BY <2>2, AnswerEffect, RequestShape, Bounds DEF TypeOK
    <3> QED
      BY <3>1, Bounds
  <2>3. CASE Answer(r, req[r].v) /\ req[r].pc = "write"
    BY <2>3, AnswerEffect DEF FreshInv, Dropping, At
  <2> QED
    BY <2>1, <2>2, <2>3, AnswerSteps
<1> QED
  BY <1>1, Invariance, PTL DEF Spec, InvalidateIsFresh

\* Who asks one of the caches again after an answer gets nothing older, as long
\* as no two fills overlapped and no kept entry outlived its submission
\* (submissions_controller.rb, info_controller.rb, languages.ts).
THEOREM GoingForward == Spec => NoStepBack
<1>1. CacheInv /\ [Next]_vars =>
        [\A r \in Reqs : Answers(r) /\ ~lapped /\ ~orphan => req'[r].v >= req[r].floor]_vars
  <2> SUFFICES ASSUME CacheInv, Next, NEW r \in Reqs, Answers(r), ~lapped, ~orphan
               PROVE  req'[r].v >= req[r].floor
    OBVIOUS
  <2> USE Numbers DEF CacheInv
  <2>0. req[r].floor <= best
    BY DEF BackInv, Answers
  <2>1. CASE entry # Empty /\ Answer(r, entry.v) /\ req[r].pc = "look"
    BY <2>0, <2>1, AnswerEffect DEF BackInv, Quiet
  <2>2. CASE Answer(r, Gone)
    <3>1. req'[r].v = Gone /\ req[r].floor \in 0..Gone
      BY <2>2, AnswerEffect, RequestShape, Bounds DEF TypeOK
    <3> QED
      BY <3>1, Bounds
  <2>3. CASE Answer(r, req[r].v) /\ req[r].pc = "write"
    BY <2>0, <2>3, AnswerEffect DEF BackInv, Quiet, At
  <2> QED
    BY <2>1, <2>2, <2>3, AnswerSteps
<1> QED
  BY <1>1, Invariance, PTL DEF Spec, NoStepBack

\* No answer is older than an entry lasts, its fill took and, twice, the time
\* for which Rails puts an expired entry back, as often as it did: never below
\* ten seconds, where that time is zero, and once at most unless fills overlap or
\* fail (submissions_controller.rb, info_controller.rb, languages.ts).
THEOREM StayingRecent == Spec => AnswersAreRecent
<1>1. CacheInv /\ [Next]_vars =>
        [\A r \in Reqs : Answers(r) /\ req'[r].v # Gone =>
           LET k == IF At(r, "look") THEN entry.kept ELSE 0 IN
           old[req'[r].v] <= MaxAge(k) /\ (~lapped /\ ~failed => k <= 1)]_vars
  <2> SUFFICES ASSUME CacheInv, Next, NEW r \in Reqs, Answers(r), req'[r].v # Gone,
                      NEW k, k = IF At(r, "look") THEN entry.kept ELSE 0
               PROVE  old[req'[r].v] <= MaxAge(k) /\ (~lapped /\ ~failed => k <= 1)
    OBVIOUS
  <2> USE DEF CacheInv
  <2>0. /\ RaceTtl \in Nat /\ Slow \in Nat /\ Duration[kind] \in Nat
        /\ FillAge = Duration[kind] + Slow
        /\ \A v \in 0..MaxVer : old[v] \in Nat
    BY Ages
  <2>1. CASE entry # Empty /\ ~Expired(entry) /\ Answer(r, entry.v) /\ req[r].pc = "look"
    <3>1. entry.v \in 0..MaxVer /\ entry.ttl \in Int /\ entry.kept \in Nat
      BY <2>1, EntryShape DEF TypeOK
    <3>2. req'[r].v = entry.v /\ k = entry.kept
      BY <2>1, <3>1, AnswerEffect DEF At
    <3>3. entry.ttl >= 0
      BY <2>1, <3>1 DEF Expired
    <3>4. Aged(entry) /\ MaxAge(entry.kept) \in Nat
      BY <3>1, Room DEF RecentInv
    <3>5. old[entry.v] <= MaxAge(entry.kept)
      BY <2>0, <2>1, <3>1, <3>3, <3>4 DEF Aged
    <3> QED
      BY <3>2, <3>5 DEF OnceInv
  <2>2. CASE Answer(r, Gone)
    BY <2>2, AnswerEffect, Bounds
  <2>3. CASE Answer(r, req[r].v) /\ req[r].pc = "write"
    <3>1. req[r].v \in 0..MaxVer /\ req[r].left \in 0..Slow
      BY <2>3, RequestShape, Bounds DEF Kept, At, TypeOK
    <3>2. req'[r].v = req[r].v /\ k = 0
      BY <2>3, <3>1, AnswerEffect DEF At
    <3>3. old[req[r].v] + req[r].left <= Slow
      BY <2>3 DEF RecentInv, At
    <3>4. MaxAge(0) = FillAge
      BY Room
    <3> QED
      BY <2>0, <3>1, <3>2, <3>3, <3>4
  <2> QED
    BY <2>1, <2>2, <2>3, AnswerSteps
<1> QED
  BY <1>1, Invariance, PTL DEF Spec, AnswersAreRecent
================================================================================
