------------------------------ MODULE ReadCaches ------------------------------
(***************************************************************************)
(* The three caches that answer reads, each as one entry on one server:    *)
(*   show        GET /submissions/:token of Judge0, a file of Rails.cache; *)
(*   statistics  GET /statistics of Judge0, likewise;                      *)
(*   languages   GET /languages of the platform, a variable of its process.*)
(* What is cached is known by its version: 0, 1, 2... in the order the     *)
(* database (or Judge0's list) went through them.  A behaviour is about    *)
(* one of the caches.                                                      *)
(***************************************************************************)
EXTENDS Integers, FiniteSets

CONSTANTS
  Duration,          \* [Kinds -> Nat], how long an entry lasts
  Slow,              \* assumed: a request takes no longer
  MaxVer, MaxReqs,   \* bounds: versions; requests at a time;
  MaxKept            \* how often an entry is put back

Kinds == {"show", "statistics", "languages"}
Reqs  == 1..MaxReqs
Gone  == MaxVer + 1  \* the answer 404
None  == -1

ASSUME CacheAssumption == /\ Duration \in [Kinds -> Nat \ {0}] /\ Slow \in Nat
                          /\ MaxVer \in Nat /\ MaxReqs \in Nat /\ MaxKept \in Nat

VARIABLES
  kind,
  ver, gone,       \* the version there is; the submission has been deleted
  old,             \* for how long each version has been out of date
  entry,           \* the cache: a version, how long it still lasts, and how often
                   \* it was put back since it was written
  req,
  best,            \* history: the newest answer so far
  lapped,          \* history: two fills overlapped;
  failed, orphan   \* a fill ended without writing and left the entry that was kept
                   \* meanwhile; it did because the row was not found any more
vars == <<kind, ver, gone, old, entry, req, best, lapped, failed, orphan>>
source == <<kind, ver, gone, old>>

Empty == [v |-> None, ttl |-> 0, kept |-> 0]
NoReq == [pc |-> "none", left |-> 0, inv |-> FALSE, from |-> 0, floor |-> 0, saw |-> Empty,
          v |-> None, raced |-> FALSE]

Init ==
  /\ kind \in Kinds
  /\ ver = 0 /\ gone = FALSE /\ old = [v \in 0..MaxVer |-> 0]
  /\ entry = Empty /\ req = [r \in Reqs |-> NoReq]
  /\ best = 0 /\ lapped = FALSE /\ failed = FALSE /\ orphan = FALSE

At(r, pc)  == req[r].pc = pc
Open(r)    == ~(req[r].pc \in {"none", "done", "error"})
Filling(r) == req[r].pc \in {"expired", "read", "write"}
Step(r, pc) == req' = [req EXCEPT ![r].pc = pc]

\* handle_expired_entry of Rails takes the integer part of race_condition_ttl.
RaceTtl == IF kind = "show" THEN Duration[kind] \div 10 ELSE 0
ExpiredNever(e) == FALSE
Expired(e) == IF kind = "languages" THEN e.ttl < 0 ELSE e.ttl <= 0
\* How old what an entry holds may get that was put back k times.
MaxAge(k) == Duration[kind] + Slow + 2 * RaceTtl * k

Answer(r, v) ==
  /\ req' = [req EXCEPT ![r].pc = "done", ![r].v = v, ![r].saw = Empty, ![r].left = 0]
  /\ best' = IF v > best THEN v ELSE best

-------------------------------------------------------------------------------
Arrive(r, inv) ==
  /\ ~Open(r) /\ (inv => kind = "statistics")
  /\ req' = [req EXCEPT ![r] = [NoReq EXCEPT !.pc = IF inv THEN "drop" ELSE "look", !.inv = inv,
                                  !.left = Slow, !.from = IF inv THEN ver ELSE 0, !.floor = best]]
  /\ UNCHANGED <<source, entry, best, lapped, failed, orphan>>

\* invalidate_cache=true deletes the entry before it is fetched.
DropNothing == entry
Dropped == Empty
Drop(r) ==
  /\ At(r, "drop")
  /\ entry' = Dropped
  /\ req' = [req EXCEPT ![r].pc = "look", ![r].raced = \E q \in Reqs : Filling(q)]
  /\ UNCHANGED <<source, best, lapped, failed, orphan>>

\* fetch reads the entry: a hit, nothing, or one that has expired.
Look(r) ==
  /\ At(r, "look")
  /\ \/ /\ entry # Empty /\ ~Expired(entry)
        /\ Answer(r, entry.v) /\ UNCHANGED lapped
     \/ /\ entry = Empty \/ Expired(entry)
        /\ req' = [req EXCEPT ![r].saw = entry,
             ![r].pc = IF entry = Empty \/ kind = "languages" THEN "read" ELSE "expired"]
        /\ lapped' = (lapped \/ \E q \in Reqs : Filling(q))
        /\ UNCHANGED best
  /\ UNCHANGED <<source, entry, failed, orphan>>

\* Rails puts an entry that expired just now back for the others, and deletes
\* an older one.
PutsBack(e) == RaceTtl > 0 /\ -e.ttl <= RaceTtl
Expire(r) ==
  /\ At(r, "expired")
  /\ IF PutsBack(req[r].saw)
     THEN /\ req[r].saw.kept < MaxKept                                 \* bound
          /\ entry' = [req[r].saw EXCEPT !.ttl = RaceTtl, !.kept = @ + 1]
     ELSE entry' = Empty
  /\ req' = [req EXCEPT ![r].pc = "read", ![r].saw = Empty]
  /\ UNCHANGED <<source, best, lapped, failed, orphan>>

\* The block of fetch, or the await of listLanguages, gives what there is; find_by!
\* of a deleted row ends in a 404.
ReadSource(r) ==
  /\ At(r, "read") /\ ~gone
  /\ req' = [req EXCEPT ![r].pc = "write", ![r].v = ver, ![r].saw = Empty]
  /\ UNCHANGED <<source, entry, best, lapped, failed, orphan>>

Leaves(r) == entry # Empty /\ ~At(r, "expired")
ReadGone(r) ==
  /\ At(r, "read") /\ gone /\ Answer(r, Gone)
  /\ failed' = (failed \/ Leaves(r)) /\ orphan' = (orphan \/ Leaves(r))
  /\ UNCHANGED <<source, entry, lapped>>

\* A fill raises (the database fails in the block; Judge0 does not answer the
\* platform) or dies with its server: the entry stays as it is.
FillFails(r) ==
  /\ Filling(r) /\ (kind = "languages" => At(r, "read"))
  /\ req' = [req EXCEPT ![r] = [NoReq EXCEPT !.pc = "error"]]
  /\ failed' = (failed \/ Leaves(r))
  /\ UNCHANGED <<source, entry, best, lapped, orphan>>

\* The entry is stamped when it is written, and the request answers its own.
PutUnlessThere(v) == IF entry # Empty THEN entry ELSE [v |-> v, ttl |-> Duration[kind], kept |-> 0]
Put(v) == [v |-> v, ttl |-> Duration[kind], kept |-> 0]

Write(r) ==
  /\ At(r, "write")
  /\ entry' = Put(req[r].v) /\ Answer(r, req[r].v)
  /\ UNCHANGED <<source, lapped, failed, orphan>>

-------------------------------------------------------------------------------
\* A save of the submission, a new submission, an upgrade of the languages.
Change ==
  /\ ver < MaxVer /\ ~gone
  /\ ver' = ver + 1
  /\ UNCHANGED <<kind, gone, old, entry, req, best, lapped, failed, orphan>>

\* DELETE /submissions/:token leaves the cache alone.
Destroy ==
  /\ kind = "show" /\ ~gone
  /\ gone' = TRUE
  /\ UNCHANGED <<kind, ver, old, entry, req, best, lapped, failed, orphan>>

\* judge0:clear_cache, which cron runs at midnight.
ClearCache ==
  /\ kind # "languages" /\ entry # Empty
  /\ entry' = Empty
  /\ UNCHANGED <<source, req, best, lapped, failed, orphan>>

\* The platform's process starts anew: its variable and its requests are gone.
Restart ==
  /\ kind = "languages" /\ entry # Empty
  /\ entry' = Empty
  /\ req' = [r \in Reqs |-> IF Open(r) THEN [NoReq EXCEPT !.pc = "error"] ELSE req[r]]
  /\ UNCHANGED <<source, best, lapped, failed, orphan>>

\* A unit of time; what is older than every bound is not told apart.
Later(e) == IF e # Empty /\ e.ttl >= -RaceTtl THEN [e EXCEPT !.ttl = @ - 1] ELSE e
Tick ==
  /\ \A r \in Reqs : Open(r) => req[r].left > 0
  /\ entry' = Later(entry)
  /\ req' = [r \in Reqs |-> IF Open(r) THEN [req[r] EXCEPT !.left = @ - 1, !.saw = Later(@)]
                            ELSE req[r]]
  /\ old' = [v \in 0..MaxVer |-> IF (v < ver \/ (v = ver /\ gone)) /\ old[v] <= MaxAge(MaxKept)
                                 THEN old[v] + 1 ELSE old[v]]
  /\ UNCHANGED <<kind, ver, gone, best, lapped, failed, orphan>>

Next ==
  \/ \E r \in Reqs : \/ \E inv \in BOOLEAN : Arrive(r, inv)
                     \/ Drop(r) \/ Look(r) \/ Expire(r) \/ ReadSource(r) \/ ReadGone(r) \/ FillFails(r)
                     \/ Write(r)
  \/ Change \/ Destroy \/ ClearCache \/ Restart \/ Tick

Spec == Init /\ [][Next]_vars

-------------------------------------------------------------------------------
Entry == [v : 0..MaxVer, ttl : Int, kept : 0..MaxKept] \cup {Empty}
Request == [pc : {"none", "drop", "look", "expired", "read", "write", "done", "error"},
            left : 0..Slow, inv : BOOLEAN, from : 0..MaxVer, floor : 0..Gone, saw : Entry,
            v : 0..Gone \cup {None}, raced : BOOLEAN]

TypeOK ==
  /\ kind \in Kinds /\ ver \in 0..MaxVer /\ gone \in BOOLEAN
  /\ old \in [0..MaxVer -> Nat] /\ best \in 0..Gone
  /\ entry \in Entry /\ req \in [Reqs -> Request]
  /\ lapped \in BOOLEAN /\ failed \in BOOLEAN /\ orphan \in BOOLEAN

Answers(r) == Open(r) /\ req'[r].pc = "done"

\* An answer is no older than an entry lasts and its fill took, and twice the
\* time that Rails keeps an expired entry for the others, for every time that it
\* did.  That time is none below ten seconds, and Rails did it once at most unless
\* two fills overlapped or one failed: each of these hands the old entry on.
AnswersAreRecent == [][\A r \in Reqs :
  Answers(r) /\ req'[r].v # Gone =>
    LET k == IF At(r, "look") THEN entry.kept ELSE 0 IN
    old[req'[r].v] <= MaxAge(k) /\ (~lapped /\ ~failed => k <= 1)]_vars

\* Who asks after an answer gets nothing older than it, 404 being the last of
\* all, unless two fills overlapped (the slower may write the older version) or
\* a kept entry outlived its fill.
NoStepBack == [][\A r \in Reqs :
  Answers(r) /\ ~lapped /\ ~orphan => req'[r].v >= req[r].floor]_vars

\* invalidate_cache=true gives statistics that are not older than the request,
\* unless another request was filling the cache when the entry was deleted.
InvalidateIsFresh == [][\A r \in Reqs :
  Answers(r) /\ req[r].inv /\ ~req[r].raced => req'[r].v >= req[r].from]_vars
===============================================================================
