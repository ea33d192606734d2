----------------------------- MODULE PlatformSite -----------------------------
(***************************************************************************)
(* The requests of the site beside grading: registration (routes/auth.ts), *)
(* the daily problem (daily.ts), discussions (discussions.ts), the         *)
(* leaderboard (leaderboard.ts), profiles (users.ts) and the problem list  *)
(* with the page that filters it (problems.ts, app/problems/page.tsx).  A  *)
(* handler is cut at its awaits; the statements it awaits are atomic.      *)
(* Around them submissions are sent and graded, also more than once, and   *)
(* problems deleted.                                                       *)
(***************************************************************************)
EXTENDS Integers, FiniteSets

CONSTANTS
  Users, Problems, Threads,
  Emails, Names,           \* what a visitor may register with
  Accounts,                \* the accounts there at the start, subset of Account
  InitSubs, InitAcc,       \* the submissions at the start, and the accepted ones
  Filters, FirstFilter,    \* of the problem list
  TOP,                     \* the leaderboard's slice
  None,                    \* no row, no value
  MaxReqs, MaxDays, MaxSubmits, MaxUngraded      \* bounds

Reqs == 1..MaxReqs
Days == 1..MaxDays
Account == [email : Emails, name : Names]
Submission == [user : Users, problem : Problems, n : Int]     \* n tells them apart

ASSUME SiteAssumption ==
  /\ IsFiniteSet(Users) /\ IsFiniteSet(Problems) /\ None \notin Problems
  /\ Accounts \subseteq Account /\ IsFiniteSet(InitSubs) /\ InitAcc \subseteq InitSubs
  /\ InitSubs \subseteq {s \in Submission : s.n <= 0}
  /\ \A a, b \in Accounts : a.email = b.email \/ a.name = b.name => a = b
  /\ FirstFilter \in Filters /\ None \notin Filters /\ TOP \in Nat \ {0}
  /\ MaxReqs \in Nat /\ MaxDays \in Nat \ {0} /\ MaxSubmits \in Nat /\ MaxUngraded \in Nat

VARIABLES
  accounts,     \* rows of User, as far as their unique indexes go
  live,         \* rows of Problem
  daily,        \* rows of DailyProblem, by date
  thread,       \* rows of Discussion: the problem of each
  subs, acc,    \* rows of Submission, those with status AC
  filter, shown,   \* the problem page: its filter (None: not open), the one its list answers
                   \* (None: an empty list)
  submits,
  req           \* the requests

db   == <<accounts, live, daily, thread, subs, acc>>
page == <<filter, shown>>
vars == <<db, page, submits, req>>

Of(u, rows)  == {s \in rows : s.user = u}
Solved(u)    == {s.problem : s \in Of(u, acc)}
Accepted(u)  == Cardinality(Of(u, acc))
SolvedEach(u) == Accepted(u)
SolvedCount(u) == Cardinality(Solved(u))

\* seen: what a handler keeps between two awaits; code and got: its answer;
\* raced, cut: history, rows changed under it, or rows it has read went (of a
\* list: another one was asked for already).
NoReq == [kind |-> "none", pc |-> "none", arg |-> None, seen |-> None, code |-> 0, got |-> None,
          raced |-> FALSE, cut |-> FALSE]
NoCounts == [u \in Users |-> -1]

Init ==
  /\ accounts = Accounts /\ live = Problems
  /\ daily = [d \in Days |-> None] /\ thread = [t \in Threads |-> None]
  /\ subs = InitSubs /\ acc = InitAcc
  /\ filter = None /\ shown = None
  /\ submits = 0
  /\ req = [r \in Reqs |-> NoReq]

Open(r) == req[r].kind # "none" /\ req[r].code = 0
Fresh(r) == \A q \in Reqs : req[q].kind # "none" <=> q < r      \* the next request
At(r, kind, pc) == req[r].kind = kind /\ req[r].pc = pc /\ req[r].code = 0

\* Request r goes on, is answered, or is answered after it changed the database
\* under the others.
Go(r, pc, seen) == req' = [req EXCEPT ![r].pc = pc, ![r].seen = seen]
Reply(r, code)  == req' = [req EXCEPT ![r].code = code]
Send(r, v)      == req' = [req EXCEPT ![r].code = 200, ![r].got = v]
Wrote(r, code, v) == req' = [q \in Reqs |-> IF q = r THEN [req[q] EXCEPT !.code = code, !.got = v]
                                            ELSE [req[q] EXCEPT !.raced = @ \/ Open(q)]]

-------------------------------------------------------------------------------
\* A request reaches its handler (past authOptional and authRequired).
ArgsOf(kind) == CASE kind = "register" -> Account [] kind = "daily" -> Days
                  [] kind = "thread" -> Problems   [] kind \in {"reply", "upvote"} -> Threads
                  [] kind = "profile" -> Users [] kind = "board" -> {None}

Room == Cardinality({q \in Reqs : Open(q) /\ req[q].kind = "thread"})
          < Cardinality({t \in Threads : thread[t] = None})

Arrive(r, kind) ==
  /\ Fresh(r)
  /\ kind = "thread" => Room                     \* bound: a thread is left for it
  /\ \E arg \in ArgsOf(kind) :
       req' = [req EXCEPT ![r] = [NoReq EXCEPT !.kind = kind, !.pc = "start", !.arg = arg]]
  /\ UNCHANGED <<db, page, submits>>

\* POST /register looks for the email or the name, hashes, and creates.
TakenBoth(a) == \E u \in accounts : u.email = a.email /\ u.name = a.name
Conflicts(a) == \E u \in accounts : u.email = a.email \/ u.name = a.name
Taken(a) == \E u \in accounts : u.email = a.email \/ u.name = a.name

RegisterFind(r) ==
  /\ At(r, "register", "start")
  /\ IF Taken(req[r].arg) THEN Reply(r, 409) ELSE Go(r, "hash", None)
  /\ UNCHANGED <<db, page, submits>>

RegisterCreate(r) ==
  /\ At(r, "register", "hash")
  /\ IF Conflicts(req[r].arg)
     THEN Reply(r, 500) /\ UNCHANGED accounts                 \* the unique index
     ELSE Wrote(r, 201, None) /\ accounts' = accounts \cup {req[r].arg}
  /\ UNCHANGED <<live, daily, thread, subs, acc, page, submits>>

\* GET /daily (arg: the day of its clock) finds the problem of the day, or picks one and creates the row.
\* Which one depends on the order of a findMany without orderBy.
DailyFind(r) ==
  /\ At(r, "daily", "start")
  /\ LET entry == daily[req[r].arg] IN IF entry # None THEN Send(r, entry) ELSE Go(r, "list", None)
  /\ UNCHANGED <<db, page, submits>>

DailyList(r) ==
  /\ At(r, "daily", "list")
  /\ \/ live = {} /\ Send(r, None)
     \/ \E p \in live : Go(r, "create", p)
  /\ UNCHANGED <<db, page, submits>>

DailyOverwritten(t) == FALSE
DailyTaken(t) == daily[t] # None

DailyCreate(r) ==
  LET t == req[r].arg  p == req[r].seen IN
  /\ At(r, "daily", "create")
  /\ IF DailyTaken(t) \/ p \notin live
     THEN Reply(r, 500) /\ UNCHANGED daily     \* unique date, foreign key
     ELSE Wrote(r, 200, p) /\ daily' = [daily EXCEPT ![t] = p]
  /\ UNCHANGED <<accounts, live, thread, subs, acc, page, submits>>

\* POST /discussions, POST /:id/replies and POST /:id/upvote.
FindParent(r) ==
  /\ At(r, "thread", "start") \/ At(r, "reply", "start")
  /\ IF (IF req[r].kind = "thread" THEN req[r].arg \in live ELSE thread[req[r].arg] # None)
     THEN Go(r, "create", None) ELSE Reply(r, 404)
  /\ UNCHANGED <<db, page, submits>>

ThreadCreate(r) ==
  /\ At(r, "thread", "create")
  /\ \/ /\ req[r].arg \in live
        /\ \E t \in Threads : thread[t] = None /\ thread' = [thread EXCEPT ![t] = req[r].arg]
        /\ Wrote(r, 201, None)
     \/ req[r].arg \notin live /\ Reply(r, 500) /\ UNCHANGED thread
  /\ UNCHANGED <<accounts, live, daily, subs, acc, page, submits>>

ReplyCreate(r) ==
  /\ At(r, "reply", "create")
  /\ IF thread[req[r].arg] # None THEN Wrote(r, 201, None) ELSE Reply(r, 500)
  /\ UNCHANGED <<db, page, submits>>

Upvote(r) ==
  /\ At(r, "upvote", "start")
  /\ IF thread[req[r].arg] # None THEN Wrote(r, 200, None) ELSE Reply(r, 500)
  /\ UNCHANGED <<db, page, submits>>

-------------------------------------------------------------------------------
(* Answers put together from several reads.                                *)

\* GET /leaderboard: the TOP users with most accepted submissions ...
BoardGroup(r) ==
  /\ At(r, "board", "start")
  /\ LET some == {u \in Users : Accepted(u) > 0} IN
     \E top \in SUBSET some :
       /\ Cardinality(top) = (IF Cardinality(some) < TOP THEN Cardinality(some) ELSE TOP)
       /\ \A u \in top, v \in some \ top : Accepted(u) >= Accepted(v)
       /\ IF top = {} THEN Send(r, NoCounts)
          ELSE Go(r, "count", [top |-> top, totals |-> [u \in Users |-> Accepted(u)],
                               before |-> [u \in Users |-> Cardinality(Solved(u))], n |-> NoCounts])
  /\ UNCHANGED <<db, page, submits>>

\* ... then, for each of them on its own, how many problems they solved.
BoardCount(r, u) ==
  LET s == req[r].seen  n == [s.n EXCEPT ![u] = SolvedCount(u)] IN
  /\ At(r, "board", "count") /\ u \in s.top /\ s.n[u] = -1
  /\ IF \A v \in s.top : n[v] # -1 THEN Send(r, n) ELSE Go(r, "count", [s EXCEPT !.n = n])
  /\ UNCHANGED <<db, page, submits>>

\* GET /users/:username reads the solved problems, then counts submissions.
ProfileOrder == <<"solved", "total">>
Read(what, u) == Cardinality(IF what = "solved" THEN Solved(u) ELSE Of(u, subs))

Profile(r) ==
  LET u == req[r].arg IN
  /\ \/ At(r, "profile", "start") /\ Go(r, "more", Read(ProfileOrder[1], u))
     \/ At(r, "profile", "more") /\
          Send(r, [what \in {"solved", "total"} |->
                      IF what = ProfileOrder[1] THEN req[r].seen ELSE Read(what, u)])
  /\ UNCHANGED <<db, page, submits>>

-------------------------------------------------------------------------------
(* The problem page asks for the list when it opens and at every change of *)
(* a filter; whichever answer comes is shown.                              *)

Asking == {r \in Reqs : Open(r) /\ req[r].kind = "list"}
Asks(f) == TRUE

AskList(r, f) ==
  /\ filter' = f
  /\ req' = IF Asks(f)
            THEN [req EXCEPT ![r] = [NoReq EXCEPT !.kind = "list", !.pc = "start", !.arg = f,
                                                  !.cut = Asking # {}]]
            ELSE req
  /\ UNCHANGED <<db, shown, submits>>

OpenPage(r)        == Fresh(r) /\ filter = None /\ AskList(r, FirstFilter)
ChangeFilter(r, f) == Fresh(r) /\ filter \notin {None, f} /\ AskList(r, f)

\* The problems of the filter, then which of them the user has solved.
List(r) ==
  /\ \/ At(r, "list", "start") /\ Go(r, "solved", None) /\ UNCHANGED shown
     \/ At(r, "list", "solved") /\ Reply(r, 200) /\ shown' = req[r].arg
  /\ UNCHANGED <<db, filter, submits>>

\* No answer, or an error: the page catches it and empties its list.
ListFails(r) ==
  /\ r \in Asking /\ Reply(r, 503) /\ shown' = None
  /\ UNCHANGED <<db, filter, submits>>

-------------------------------------------------------------------------------
(* What happens around the requests.                                       *)

\* Rows change under the requests; what those of kinds have read may go.
Others(kinds) == req' = [r \in Reqs |-> [req[r] EXCEPT !.raced = @ \/ Open(r),
                                                      !.cut = @ \/ req[r].kind \in kinds]]

Kinds == {"register", "daily", "thread", "reply", "upvote", "profile", "board"}

\* DELETE /admin/problems/:id, with its cascades.
DeleteProblem(p) ==
  /\ p \in live /\ live' = live \ {p}
  /\ daily' = [d \in Days |-> IF daily[d] = p THEN None ELSE daily[d]]
  /\ thread' = [t \in Threads |-> IF thread[t] = p THEN None ELSE thread[t]]
  /\ subs' = {s \in subs : s.problem # p} /\ acc' = {s \in acc : s.problem # p}
  /\ Others(Kinds)
  /\ UNCHANGED <<accounts, page, submits>>

\* A submission is sent; one is graded AC.
Submit(u, p) ==
  /\ p \in live /\ submits < MaxSubmits /\ submits' = submits + 1
  /\ subs' = subs \cup {[user |-> u, problem |-> p, n |-> submits']}
  /\ Others({})
  /\ UNCHANGED <<accounts, live, daily, thread, acc, page>>

Accept(s) ==
  /\ s \in subs \ acc /\ acc' = acc \cup {s}
  /\ Others({})
  /\ UNCHANGED <<accounts, live, daily, thread, subs, page, submits>>

\* A handler that had stored its case rereads none after an edit of the tests
\* took them all, and writes PENDING over an AC.
Retract(s) ==
  /\ s \in acc /\ acc' = acc \ {s}
  /\ Cardinality(subs \ acc) < MaxUngraded           \* bound
  /\ Others({"board"})
  /\ UNCHANGED <<accounts, live, daily, thread, subs, page, submits>>

Serve(r) == \/ RegisterFind(r) \/ RegisterCreate(r) \/ DailyFind(r) \/ DailyList(r) \/ DailyCreate(r)
            \/ FindParent(r) \/ ThreadCreate(r) \/ ReplyCreate(r) \/ Upvote(r)
            \/ BoardGroup(r) \/ (\E u \in Users : BoardCount(r, u))
            \/ Profile(r) \/ List(r) \/ ListFails(r)

Next == \/ \E r \in Reqs : \/ \E kind \in Kinds : Arrive(r, kind)
                           \/ OpenPage(r)
                           \/ \E f \in Filters : ChangeFilter(r, f)
                           \/ Serve(r)
        \/ \E p \in Problems : DeleteProblem(p) \/ \E u \in Users : Submit(u, p)
        \/ \E s \in subs : Accept(s) \/ Retract(s)

Spec == Init /\ [][Next]_vars

-------------------------------------------------------------------------------
TypeOK ==
  /\ accounts \subseteq Account /\ live \subseteq Problems
  /\ daily \in [Days -> live \cup {None}] /\ thread \in [Threads -> live \cup {None}]
  /\ subs \subseteq Submission /\ acc \subseteq subs /\ \A s \in subs : s.problem \in live
  /\ filter \in Filters \cup {None} /\ shown \in Filters \cup {None}
  /\ \A r \in Reqs : req[r].kind \in Kinds \cup {"list", "none"} /\ req[r].raced \in BOOLEAN
  /\ \A a, b \in accounts : a.email = b.email \/ a.name = b.name => a = b

\* An internal error is never the answer to a request that ran undisturbed: the
\* checks a handler makes first leave only what changed under it.  (An upvote
\* checks nothing: that of a thread that is gone is always a 500.)
OnlyRacesFail == \A r \in Reqs :
  req[r].code = 500 => req[r].raced \/ req[r].kind = "upvote"

\* Everybody who asked for the problem of one day was shown the same one, or a
\* problem that has been deleted since.
DailyAgrees == \A r, q \in Reqs :
  /\ req[r].kind = "daily" /\ req[q].kind = "daily" /\ req[r].arg = req[q].arg
  /\ req[r].got \in live /\ req[q].got \in live
  => req[r].got = req[q].got

\* The leaderboard leaves out only users who had solved no more problems than a
\* listed one had accepted submissions; it gives every listed user a number of
\* solved problems they had between the grouping and the answer, unless a
\* problem or an AC was taken back since.
BoardIsHonest == \A r \in Reqs :
  LET s == req[r].seen  n == req[r].got IN
  req[r].kind = "board" /\ n # None /\ s # None =>
    /\ \A u \in s.top, v \in Users \ s.top : s.before[v] <= s.totals[u]
    /\ ~req[r].cut => \A u \in s.top : s.before[u] <= n[u] /\ n[u] <= Cardinality(Solved(u))

\* A profile never claims more solved problems than submissions, whatever is
\* accepted between its two reads.
ProfileAgrees == \A r \in Reqs :
  req[r].kind = "profile" /\ req[r].got # None /\ ~req[r].cut
    => req[r].got["solved"] <= req[r].got["total"]

\* With no request open the problem page shows the list of its filter, or none
\* when the last request failed, unless the filter was changed while an earlier
\* list was still asked for.
IsLast(r) == req[r].kind = "list" /\ \A q \in Reqs : req[q].kind = "list" => q <= r

ListMatches ==
  Asking = {} /\ (\A r \in Reqs : req[r].kind = "list" => ~req[r].cut) =>
    /\ \A r \in Reqs : IsLast(r) => shown = IF req[r].code = 200 THEN filter ELSE None
    /\ filter # None => \E r \in Reqs : IsLast(r)

\* The rows keep their types and unique indexes, and only races fail.
SiteInv == TypeOK /\ OnlyRacesFail

\* What is put together from several reads, or shown from several answers.
ReadsAgree == BoardIsHonest /\ ProfileAgrees /\ ListMatches

===============================================================================
