-------------------------- MODULE PlatformSite_proofs --------------------------
(***************************************************************************)
(* Theorems about PlatformSite, for every value of its constants.          *)
(***************************************************************************)
EXTENDS PlatformSite, FiniteSetTheorems, TLAPS

Pcs == {"none", "start", "hash", "list", "create", "count", "more", "solved"}

Counters == [Users -> Int]

\* What a leaderboard request keeps between its awaits.
BoardRec == [top : SUBSET Users, totals : [Users -> Nat], before : [Users -> Nat],
             n : Counters]

Value == Account \cup Days \cup Problems \cup Threads \cup Users \cup Filters \cup {None}
           \cup Nat \cup BoardRec \cup Counters \cup [{"solved", "total"} -> Nat]

Request == [kind : Kinds \cup {"list", "none"}, pc : Pcs, arg : Value, seen : Value,
            code : Nat, got : Value, raced : BOOLEAN, cut : BOOLEAN]

-------------------------------------------------------------------------------
(* The invariant.                                                          *)

SiteTypes ==
  /\ accounts \subseteq Account /\ live \subseteq Problems
  /\ daily \in [Days -> live \cup {None}] /\ thread \in [Threads -> live \cup {None}]
  /\ subs \subseteq Submission /\ IsFiniteSet(subs) /\ acc \subseteq subs
  /\ \A s \in subs : s.problem \in live
  /\ filter \in Filters \cup {None} /\ shown \in Filters \cup {None}
  /\ req \in [Reqs -> Request]
  /\ \A a, b \in accounts : a.email = b.email \/ a.name = b.name => a = b

\* What a check has found still holds at the next statement, unless rows have
\* changed meanwhile.
RegisterFits(q) == q.kind = "register" =>
  /\ q.arg \in Account
  /\ q.pc = "hash" /\ q.code = 0 => q.raced \/ ~Conflicts(q.arg)

DiscussFits(q) ==
  /\ q.kind = "thread" =>
       /\ q.arg \in Problems
       /\ q.pc = "create" /\ q.code = 0 => q.raced \/ q.arg \in live
  /\ q.kind \in {"reply", "upvote"} => q.arg \in Threads
  /\ q.kind = "reply" /\ q.pc = "create" /\ q.code = 0 => q.raced \/ thread[q.arg] # None

\* ... and who was shown a problem of the day that is still there was shown the
\* one in its row.
DailyFits(q) == q.kind = "daily" =>
  /\ q.arg \in Days
  /\ q.pc = "list" /\ q.code = 0 => q.raced \/ daily[q.arg] = None
  /\ q.pc = "create" /\ q.code = 0 => /\ q.seen \in Problems
                                      /\ q.raced \/ (daily[q.arg] = None /\ q.seen \in live)
  /\ q.got \in live => daily[q.arg] = q.got

Backed(answer) == answer["solved"] <= answer["total"]

\* What the first reads of an answer found only grows, unless a problem or an AC
\* goes.
ProfileFits(q) == q.kind = "profile" =>
  /\ q.arg \in Users
  /\ q.pc = "more" /\ q.code = 0 =>
       q.seen \in Nat /\ (q.cut \/ q.seen <= Cardinality(Of(q.arg, subs)))
  /\ q.got # None => q.cut \/ Backed(q.got)

Counted(s, u, k) == s.before[u] <= k /\ k <= SolvedCount(u)
Ranked(s) == \A u \in s.top, v \in Users \ s.top : s.before[v] <= s.totals[u]

BoardFits(q) == q.kind = "board" =>
  /\ q.pc \in {"start", "count"} /\ (q.pc = "start" => q.seen = None)
  /\ q.pc = "count" => q.seen \in BoardRec /\ Ranked(q.seen)
  /\ q.got # None => q.got \in Counters
  /\ q.pc = "count" /\ ~q.cut =>
       \A u \in q.seen.top :
         /\ Counted(q.seen, u, SolvedCount(u))
         /\ q.seen.n[u] = -1 \/ Counted(q.seen, u, q.seen.n[u])
  /\ q.pc = "count" /\ ~q.cut /\ q.got # None =>
       \A u \in q.seen.top : Counted(q.seen, u, q.got[u])

Fits(q) ==
  /\ RegisterFits(q) /\ DiscussFits(q) /\ DailyFits(q) /\ ProfileFits(q) /\ BoardFits(q)
  /\ q.kind = "list" => q.arg \in Filters
  /\ q.code = 0 => q.got = None
  /\ q.code = 500 => q.raced \/ q.kind = "upvote"

\* The last request is the one for the filter, and what the page shows is its
\* answer.
Shows(r) == shown = IF req[r].code = 200 THEN filter ELSE None

ListInv ==
  (\A r \in Reqs : req[r].kind = "list" => ~req[r].cut) =>
    /\ \A r \in Asking : req[r].arg = filter /\ IsLast(r)
    /\ Asking = {} => \A r \in Reqs : IsLast(r) => Shows(r)
    /\ filter # None => \E r \in Reqs : IsLast(r)

Inv == SiteTypes /\ ListInv /\ \A r \in Reqs : Fits(req[r])

-------------------------------------------------------------------------------
(* Counting.                                                               *)

\* The rows of a user, and the problems they are about, can be counted, and
\* there are no more problems than rows.
LEMMA Counts ==
  ASSUME NEW rows, IsFiniteSet(rows), NEW u
  PROVE  /\ IsFiniteSet(Of(u, rows)) /\ IsFiniteSet({s.problem : s \in Of(u, rows)})
         /\ Cardinality(Of(u, rows)) \in Nat /\ Cardinality({s.problem : s \in Of(u, rows)}) \in Nat
         /\ Cardinality({s.problem : s \in Of(u, rows)}) <= Cardinality(Of(u, rows))
<1> DEFINE A == Of(u, rows)
           S == {s.problem : s \in A}
           f == [s \in A |-> s.problem]
<1>1. A \subseteq rows
  BY DEF Of
<1>2. f \in Surjection(A, S)
  BY DEF Surjection
<1> HIDE DEF A, S, f
<1>3. IsFiniteSet(A)
  BY <1>1, FS_Subset
<1>4. IsFiniteSet(S) /\ Cardinality(S) <= Cardinality(A)
  BY <1>2, <1>3, FS_Surjection
<1>5. Cardinality(A) \in Nat /\ Cardinality(S) \in Nat
  BY <1>3, <1>4, FS_CardinalityType
<1> QED
  BY <1>3, <1>4, <1>5 DEF A, S

\* Nobody has solved more problems than they have accepted submissions.
LEMMA Accounting ==
  ASSUME IsFiniteSet(subs), acc \subseteq subs, NEW u
  PROVE  /\ Cardinality(Of(u, subs)) \in Nat /\ Accepted(u) \in Nat /\ SolvedCount(u) \in Nat
         /\ SolvedCount(u) <= Accepted(u) /\ Accepted(u) <= Cardinality(Of(u, subs))
<1>1. IsFiniteSet(acc)
  BY FS_Subset
<1>2. /\ Cardinality(Of(u, acc)) \in Nat /\ Cardinality({s.problem : s \in Of(u, acc)}) \in Nat
      /\ Cardinality({s.problem : s \in Of(u, acc)}) <= Cardinality(Of(u, acc))
  BY <1>1, Counts
<1>3. IsFiniteSet(Of(u, subs)) /\ Cardinality(Of(u, subs)) \in Nat
  BY Counts
<1>4. Of(u, acc) \subseteq Of(u, subs)
  BY DEF Of
<1>5. Cardinality(Of(u, acc)) <= Cardinality(Of(u, subs))
  BY <1>3, <1>4, FS_Subset
<1> QED
  BY <1>2, <1>3, <1>5 DEF Accepted, SolvedCount, Solved

\* More rows, more problems.
LEMMA CountsGrow ==
  ASSUME NEW R, IsFiniteSet(R), NEW S \in SUBSET R, NEW u
  PROVE  /\ Cardinality(Of(u, S)) <= Cardinality(Of(u, R))
         /\ Cardinality({s.problem : s \in Of(u, S)}) <= Cardinality({s.problem : s \in Of(u, R)})
<1> DEFINE P(rows) == {s.problem : s \in Of(u, rows)}
           PS == P(S)
           PR == P(R)
<1>1. Of(u, S) \subseteq Of(u, R) /\ PS \subseteq PR
  BY DEF Of
<1>2. IsFiniteSet(Of(u, R)) /\ IsFiniteSet(PR)
  BY Counts
<1>3. Cardinality(Of(u, S)) <= Cardinality(Of(u, R))
  BY <1>1, <1>2, FS_Subset
<1> HIDE DEF PS, PR
<1>4. Cardinality(PS) <= Cardinality(PR)
  BY <1>1, <1>2, FS_Subset
<1> QED
  BY <1>3, <1>4 DEF PS, PR

-------------------------------------------------------------------------------
(* What a step does to the requests that do not take it.                   *)

LEMMA Disturbed ==
  ASSUME Inv, SiteTypes', NEW j \in Reqs,
         req'[j].kind = req[j].kind, req'[j].pc = req[j].pc, req'[j].arg = req[j].arg,
         req'[j].seen = req[j].seen, req'[j].code = req[j].code, req'[j].got = req[j].got,
         req[j].raced => req'[j].raced,
         Open(j) => req'[j].raced \/ UNCHANGED <<accounts, live, daily, thread>>,
         live' \subseteq live,
         \A d \in Days : daily[d] # None /\ daily[d] \in live' => daily'[d] = daily[d],
         req[j].cut => req'[j].cut,
         req[j].kind = "profile" /\ ~req'[j].cut => subs \subseteq subs',
         req[j].kind = "board" /\ ~req'[j].cut => acc \subseteq acc'
  PROVE  Fits(req[j])'
<1>1. Fits(req[j]) /\ acc \subseteq subs /\ IsFiniteSet(subs) /\ IsFiniteSet(subs') /\ acc' \subseteq subs'
  BY DEF Inv, SiteTypes
<1>2. None \notin Problems /\ live \subseteq Problems /\ live' \subseteq Problems
  BY SiteAssumption DEF Inv, SiteTypes
<1>3. RegisterFits(req[j])'
  BY <1>1 DEF Fits, RegisterFits, Conflicts, Open
<1>4. DiscussFits(req[j])'
  BY <1>1 DEF Fits, DiscussFits, Open
<1>5. DailyFits(req[j])'
  <2>1. req[j].kind = "daily" /\ req[j].got \in live' => daily'[req[j].arg] = req[j].got
    BY <1>1, <1>2 DEF Fits, DailyFits
  <2> QED
    BY <1>1, <2>1 DEF Fits, DailyFits, Open
<1>6. ASSUME req[j].kind = "profile", ~req'[j].cut, NEW u
      PROVE  /\ Cardinality(Of(u, subs)) <= Cardinality(Of(u, subs'))
             /\ Cardinality(Of(u, subs)) \in Nat /\ Cardinality(Of(u, subs')) \in Nat
  <2>1. Cardinality(Of(u, subs)) \in Nat /\ Cardinality(Of(u, subs')) \in Nat
    BY <1>1, Counts
  <2>2. subs \subseteq subs'
    BY <1>6
  <2> QED
    BY <1>1, <2>1, <2>2, CountsGrow
<1>7. ProfileFits(req[j])'
  BY <1>1, <1>6 DEF Fits, ProfileFits
<1>9. ASSUME req[j].kind = "board", ~req'[j].cut, NEW u
      PROVE  /\ SolvedCount(u) <= SolvedCount(u)'
             /\ SolvedCount(u) \in Nat /\ SolvedCount(u)' \in Nat
  <2>1. IsFiniteSet(acc) /\ IsFiniteSet(acc')
    BY <1>1, FS_Subset
  <2>2. /\ Cardinality({s.problem : s \in Of(u, acc)}) \in Nat
        /\ Cardinality({s.problem : s \in Of(u, acc')}) \in Nat
    BY <2>1, Counts
  <2>3. acc \subseteq acc'
    BY <1>9
  <2>4. Cardinality({s.problem : s \in Of(u, acc)}) <= Cardinality({s.problem : s \in Of(u, acc')})
    BY <2>1, <2>3, CountsGrow
  <2> QED
    BY <2>2, <2>4 DEF SolvedCount, Solved
<1>8. BoardFits(req[j])'
  <2> DEFINE s == req[j].seen
  <2>1. ASSUME req[j].kind = "board", req[j].pc = "count", ~req'[j].cut, NEW u \in s.top
        PROVE  /\ s.before[u] <= SolvedCount(u)' /\ SolvedCount(u)' <= SolvedCount(u)'
               /\ s.n[u] = -1 \/ (s.before[u] <= s.n[u] /\ s.n[u] <= SolvedCount(u)')
               /\ req[j].got # None => s.before[u] <= req[j].got[u] /\ req[j].got[u] <= SolvedCount(u)'
    <3>1. s \in BoardRec /\ u \in Users /\ s.before[u] \in Int /\ s.n[u] \in Int
      BY <1>1, <2>1 DEF Fits, BoardFits, BoardRec, Counters
    <3>2. SolvedCount(u) <= SolvedCount(u)' /\ SolvedCount(u) \in Nat /\ SolvedCount(u)' \in Nat
      BY <1>9, <2>1
    <3>3. req[j].got # None => req[j].got[u] \in Int
      BY <1>1, <2>1, <3>1 DEF Fits, BoardFits, Counters
    <3>4. ~req[j].cut
      BY <2>1
    <3>5. /\ s.before[u] <= SolvedCount(u)
          /\ s.n[u] = -1 \/ (s.before[u] <= s.n[u] /\ s.n[u] <= SolvedCount(u))
          /\ req[j].got # None => s.before[u] <= req[j].got[u] /\ req[j].got[u] <= SolvedCount(u)
      BY <1>1, <2>1, <3>4 DEF Fits, BoardFits, Counted
    <3> HIDE DEF s
    <3> QED
      BY <3>1, <3>2, <3>3, <3>5
  <2>2. BoardFits(req[j])
    BY <1>1 DEF Fits
  <2> QED
    BY <2>1, <2>2 DEF BoardFits, Counted, Ranked
<1> QED
  BY <1>1, <1>3, <1>4, <1>5, <1>7, <1>8 DEF Fits

\* The page knows of the requests for its list alone.
LEMMA PageKept ==
  ASSUME Inv, UNCHANGED page,
         \A j \in Reqs : /\ req'[j].kind = "list" <=> req[j].kind = "list"
                         /\ req[j].kind = "list" =>
                              /\ req'[j].code = req[j].code /\ req'[j].arg = req[j].arg
                              /\ req'[j].cut = req[j].cut
  PROVE  ListInv'
<1>1. Asking' = Asking
  BY DEF Asking, Open
<1>2. \A j \in Reqs : IsLast(j)' <=> IsLast(j)
  BY DEF IsLast
<1>3. \A j \in Reqs : IsLast(j) => (Shows(j)' <=> Shows(j))
  BY DEF IsLast, Shows, page
<1>4. filter' = filter /\ \A j \in Asking : req'[j].arg = req[j].arg
  BY DEF Asking, page
<1>5. Asking \subseteq Reqs
  BY DEF Asking
<1> QED
  BY <1>1, <1>2, <1>3, <1>4, <1>5 DEF Inv, ListInv

\* Request r goes on to q, and nothing else changes.
LEMMA OwnStep ==
  ASSUME Inv, NEW r \in Reqs, NEW q \in Request, req' = [req EXCEPT ![r] = q],
         UNCHANGED <<db, page>>, req[r].kind # "list", q.kind # "list", Fits(q)
  PROVE  Inv'
<1>1. /\ req \in [Reqs -> Request] /\ req' \in [Reqs -> Request] /\ req'[r] = q
      /\ \A j \in Reqs : j # r => req'[j] = req[j]
  BY DEF Inv, SiteTypes
<1>2. UNCHANGED <<accounts, live, daily, thread, subs, acc, filter, shown>>
  BY DEF db, page
<1>3. SiteTypes'
  BY <1>1, <1>2 DEF Inv, SiteTypes
<1>4. ListInv'
  BY <1>1, PageKept
<1>5. ASSUME NEW j \in Reqs PROVE Fits(req[j])'
  <2>1. Fits(req'[j])
    BY <1>1 DEF Inv
  <2>2. /\ RegisterFits(req[j])' /\ DiscussFits(req[j])' /\ DailyFits(req[j])'
    BY <1>2, <2>1 DEF Fits, RegisterFits, DiscussFits, DailyFits, Conflicts
  <2>3. ProfileFits(req[j])'
    BY <1>2, <2>1 DEF Fits, ProfileFits, Of
  <2>4. \A u : SolvedCount(u)' = SolvedCount(u)
    BY <1>2 DEF SolvedCount, Solved, Of
  <2>5. BoardFits(req[j])'
    BY <1>2, <2>1, <2>4 DEF Fits, BoardFits, Counted
  <2> QED
    BY <2>1, <2>2, <2>3, <2>5 DEF Fits
<1> QED
  BY <1>3, <1>4, <1>5 DEF Inv

\* Request r is answered after it has written, to the rows of the others.
LEMMA Writes ==
  ASSUME Inv, NEW r \in Reqs, NEW code \in Nat, NEW v \in Value, Wrote(r, code, v),
         Open(r), req[r].kind # "list", UNCHANGED <<live, subs, acc, page>>,
         accounts' \subseteq Account,
         \A a, b \in accounts' : a.email = b.email \/ a.name = b.name => a = b,
         daily' \in [Days -> live \cup {None}], thread' \in [Threads -> live \cup {None}],
         \A d \in Days : daily[d] # None => daily'[d] = daily[d],
         Fits(req[r])'
  PROVE  Inv'
<1> DEFINE q == [req[r] EXCEPT !.code = code, !.got = v]
<1>1. req \in [Reqs -> Request] /\ q \in Request /\ q.kind = req[r].kind
  <2>1. req[r] \in Request /\ req \in [Reqs -> Request]
    BY DEF Inv, SiteTypes
  <2> QED
    BY <2>1 DEF Request
<1>2. req' = [j \in Reqs |-> IF j = r THEN q ELSE [req[j] EXCEPT !.raced = @ \/ Open(j)]]
  BY DEF Wrote
<1> HIDE DEF q
<1>3. ASSUME NEW j \in Reqs, j # r
      PROVE  /\ req'[j] \in Request
             /\ req'[j].kind = req[j].kind /\ req'[j].pc = req[j].pc /\ req'[j].arg = req[j].arg
             /\ req'[j].seen = req[j].seen /\ req'[j].code = req[j].code /\ req'[j].got = req[j].got
             /\ req'[j].cut = req[j].cut
             /\ req[j].raced \/ Open(j) => req'[j].raced
  <2> DEFINE raced == req[j].raced \/ Open(j)
  <2>1. req'[j] = [req[j] EXCEPT !.raced = raced] /\ req[j] \in Request /\ raced \in BOOLEAN
    BY <1>1, <1>2, <1>3
  <2>2. raced <=> req[j].raced \/ Open(j)
    OBVIOUS
  <2> HIDE DEF raced
  <2> QED
    BY <2>1, <2>2 DEF Request
<1>4. req'[r] = q
  BY <1>2
<1>5. SiteTypes'
  <2>1. \A j \in Reqs : req'[j] \in Request
    BY <1>1, <1>3, <1>4
  <2>2. req' \in [Reqs -> Request]
    BY <1>2, <2>1
  <2> QED
    BY <2>2 DEF Inv, SiteTypes, page
<1>6. ListInv'
  BY <1>1, <1>3, <1>4, PageKept
<1>7. ASSUME NEW j \in Reqs PROVE Fits(req[j])'
  <2>1. CASE j = r
    BY <2>1
  <2>2. CASE j # r
    BY <1>3, <1>5, <2>2, Disturbed
  <2> QED
    BY <2>1, <2>2
<1> QED
  BY <1>5, <1>6, <1>7 DEF Inv

\* The database changes under every request.
LEMMA OthersStep ==
  ASSUME Inv, NEW kinds \in SUBSET Kinds, Others(kinds), UNCHANGED page,
         accounts' = accounts, live' \subseteq live,
         daily' \in [Days -> live' \cup {None}], thread' \in [Threads -> live' \cup {None}],
         \A d \in Days : daily[d] \in live' => daily'[d] = daily[d],
         subs' \subseteq Submission, IsFiniteSet(subs'), acc' \subseteq subs',
         \A s \in subs' : s.problem \in live',
         "profile" \notin kinds => subs \subseteq subs', "board" \notin kinds => acc \subseteq acc'
  PROVE  Inv'
<1>1. req \in [Reqs -> Request]
  BY DEF Inv, SiteTypes
<1>2. req' = [j \in Reqs |-> [req[j] EXCEPT !.raced = @ \/ Open(j),
                                            !.cut = @ \/ req[j].kind \in kinds]]
  BY DEF Others
<1>3. ASSUME NEW j \in Reqs
      PROVE  /\ req'[j] \in Request
             /\ req'[j].kind = req[j].kind /\ req'[j].pc = req[j].pc /\ req'[j].arg = req[j].arg
             /\ req'[j].seen = req[j].seen /\ req'[j].code = req[j].code /\ req'[j].got = req[j].got
             /\ req[j].raced \/ Open(j) => req'[j].raced
             /\ req'[j].cut = (req[j].cut \/ req[j].kind \in kinds)
  <2> DEFINE raced == req[j].raced \/ Open(j)
             gone == req[j].cut \/ req[j].kind \in kinds
  <2>1. /\ req'[j] = [req[j] EXCEPT !.raced = raced, !.cut = gone] /\ req[j] \in Request
        /\ raced \in BOOLEAN /\ gone \in BOOLEAN
    BY <1>1, <1>2
  <2>2. raced <=> req[j].raced \/ Open(j)
    OBVIOUS
  <2>3. gone = (req[j].cut \/ req[j].kind \in kinds)
    OBVIOUS
  <2> HIDE DEF raced, gone
  <2> QED
    BY <2>1, <2>2, <2>3 DEF Request
<1>4. SiteTypes'
  <2>1. req' \in [Reqs -> Request]
    BY <1>2, <1>3
  <2> QED
    BY <2>1 DEF Inv, SiteTypes, page
<1>5. \A j \in Reqs : req[j].kind = "list" => req'[j].cut = req[j].cut
  BY <1>1, <1>3 DEF Request, Kinds
<1>6. ListInv'
  BY <1>3, <1>5, PageKept
<1>7. ASSUME NEW j \in Reqs PROVE Fits(req[j])'
  <2>1. /\ req[j].cut => req'[j].cut
        /\ req[j].kind = "profile" /\ ~req'[j].cut => subs \subseteq subs'
        /\ req[j].kind = "board" /\ ~req'[j].cut => acc \subseteq acc'
    BY <1>3
  <2> QED
    BY <1>3, <1>4, <2>1, Disturbed
<1> QED
  BY <1>4, <1>6, <1>7 DEF Inv

-------------------------------------------------------------------------------
(* The steps of the requests.                                              *)

LEMMA NoReqType ==
  /\ NoReq \in Request /\ NoReq.code = 0 /\ NoReq.got = None /\ NoReq.seen = None
  /\ NoReq.kind = "none" /\ NoReq.cut = FALSE
  BY DEF NoReq, Request, Value, Pcs

\* A request under way has been given no answer yet.
LEMMA OpenFacts ==
  ASSUME Inv, NEW r \in Reqs
  PROVE  /\ req[r] \in Request /\ Fits(req[r]) /\ req \in [Reqs -> Request]
         /\ req[r].code = 0 => req[r].got = None
         /\ None \notin live /\ live \subseteq Problems /\ None \in Value
  BY SiteAssumption DEF Inv, SiteTypes, Fits, Value

LEMMA Replies ==
  ASSUME Inv, NEW r \in Reqs, NEW code \in Nat, code # 0, Reply(r, code), UNCHANGED <<db, page>>,
         req[r].kind \notin {"none", "list"}, req[r].code = 0,
         code = 500 => req[r].raced \/ req[r].kind = "upvote"
  PROVE  Inv'
<1> DEFINE q == [req[r] EXCEPT !.code = code]
<1>1. req[r] \in Request /\ Fits(req[r]) /\ req[r].got = None /\ None \notin live
  BY OpenFacts
<1>2. /\ q \in Request /\ q.code = code /\ q.kind = req[r].kind /\ q.pc = req[r].pc
      /\ q.arg = req[r].arg /\ q.seen = req[r].seen /\ q.got = None /\ q.raced = req[r].raced
      /\ q.cut = req[r].cut
  BY <1>1 DEF Request
<1>3. req' = [req EXCEPT ![r] = q]
  BY DEF Reply
<1> HIDE DEF q
<1>4. Fits(q)
  <2>1. RegisterFits(q) /\ DiscussFits(q) /\ DailyFits(q)
    BY <1>1, <1>2 DEF Fits, RegisterFits, DiscussFits, DailyFits
  <2>2. ProfileFits(q) /\ BoardFits(q)
    BY <1>1, <1>2 DEF Fits, ProfileFits, BoardFits
  <2> QED
    BY <1>2, <2>1, <2>2 DEF Fits
<1>5. q \in Request /\ q.kind # "list" /\ req[r].kind # "list"
  BY <1>2
<1> QED
  BY <1>3, <1>4, <1>5, OwnStep

\* A request goes on to pc, with what it has seen.
LEMMA Goes ==
  ASSUME Inv, NEW r \in Reqs, NEW pc \in Pcs, NEW seen \in Value, Go(r, pc, seen),
         UNCHANGED <<db, page>>, req[r].kind \notin {"none", "list"}, req[r].code = 0,
         req[r].kind = "register" /\ pc = "hash" => ~Conflicts(req[r].arg),
         req[r].kind = "thread" /\ pc = "create" => req[r].arg \in live,
         req[r].kind = "reply" /\ pc = "create" => thread[req[r].arg] # None,
         req[r].kind = "daily" /\ pc = "list" => daily[req[r].arg] = None,
         req[r].kind = "daily" /\ pc = "create" =>
           seen \in live /\ (req[r].raced \/ daily[req[r].arg] = None),
         req[r].kind = "profile" /\ pc = "more" =>
           seen \in Nat /\ seen <= Cardinality(Of(req[r].arg, subs)),
         req[r].kind = "board" => pc = "count" /\ seen \in BoardRec /\ Ranked(seen),
         req[r].kind = "board" /\ ~req[r].cut =>
           \A u \in seen.top : /\ Counted(seen, u, SolvedCount(u))
                               /\ seen.n[u] = -1 \/ Counted(seen, u, seen.n[u])
  PROVE  Inv'
<1> DEFINE q == [req[r] EXCEPT !.pc = pc, !.seen = seen]
<1>1. /\ req[r] \in Request /\ Fits(req[r]) /\ req[r].got = None /\ None \notin live
      /\ live \subseteq Problems
  BY OpenFacts
<1>2. /\ q \in Request /\ q.code = 0 /\ q.kind = req[r].kind /\ q.pc = pc
      /\ q.arg = req[r].arg /\ q.seen = seen /\ q.got = None /\ q.raced = req[r].raced
      /\ q.cut = req[r].cut
  BY <1>1 DEF Request
<1>3. req' = [req EXCEPT ![r] = q]
  BY DEF Go
<1> HIDE DEF q
<1>4. Fits(q)
  <2>1. RegisterFits(q) /\ DiscussFits(q) /\ DailyFits(q)
    BY <1>1, <1>2 DEF Fits, RegisterFits, DiscussFits, DailyFits
  <2>2. ProfileFits(q)
    BY <1>1, <1>2 DEF Fits, ProfileFits
  <2>3. BoardFits(q)
    BY <1>1, <1>2 DEF BoardFits
  <2> QED
    BY <1>2, <2>1, <2>2, <2>3 DEF Fits
<1>5. q \in Request /\ q.kind # "list" /\ req[r].kind # "list"
  BY <1>2
<1> QED
  BY <1>3, <1>4, <1>5, OwnStep

\* What request q may be answered.
Suits(q, v) ==
  /\ q.kind = "daily" => v \notin live \/ daily[q.arg] = v
  /\ q.kind = "profile" => q.cut \/ Backed(v)
  /\ q.kind = "board" => v \in Counters
  /\ q.kind = "board" /\ q.pc = "count" /\ ~q.cut =>
       \A u \in q.seen.top : Counted(q.seen, u, v[u])

\* A request is answered with v.
LEMMA Answers ==
  ASSUME Inv, NEW r \in Reqs, NEW code \in Nat, NEW v \in Value, code \notin {0, 500},
         req' = [req EXCEPT ![r].code = code, ![r].got = v], UNCHANGED <<db, page>>,
         req[r].kind \notin {"none", "list"}, Suits(req[r], v)
  PROVE  Inv'
<1> DEFINE q == [req[r] EXCEPT !.code = code, !.got = v]
<1>1. req[r] \in Request /\ Fits(req[r])
  BY OpenFacts
<1>2. /\ q \in Request /\ q.code = code /\ q.kind = req[r].kind /\ q.pc = req[r].pc
      /\ q.arg = req[r].arg /\ q.seen = req[r].seen /\ q.got = v /\ q.raced = req[r].raced
      /\ q.cut = req[r].cut
  BY <1>1 DEF Request
<1>3. req' = [req EXCEPT ![r] = q]
  OBVIOUS
<1> HIDE DEF q
<1>4. Fits(q)
  <2>1. RegisterFits(q) /\ DiscussFits(q) /\ DailyFits(q)
    BY <1>1, <1>2 DEF Fits, RegisterFits, DiscussFits, DailyFits, Suits
  <2>2. ProfileFits(q)
    BY <1>1, <1>2 DEF Fits, ProfileFits, Suits
  <2>3. BoardFits(q)
    BY <1>1, <1>2 DEF Fits, BoardFits, Suits
  <2> QED
    BY <1>2, <2>1, <2>2, <2>3 DEF Fits
<1>5. q \in Request /\ q.kind # "list" /\ req[r].kind # "list"
  BY <1>2
<1> QED
  BY <1>3, <1>4, <1>5, OwnStep

LEMMA Sends ==
  ASSUME Inv, NEW r \in Reqs, NEW v \in Value, Send(r, v), UNCHANGED <<db, page>>,
         req[r].kind \notin {"none", "list"}, Suits(req[r], v)
  PROVE  Inv'
<1>1. PICK code \in Nat : code = 200
  OBVIOUS
<1>2. req' = [req EXCEPT ![r].code = code, ![r].got = v]
  <2>1. req' = [req EXCEPT ![r].code = 200, ![r].got = v]
    BY DEF Send
  <2> QED
    BY <1>1, <2>1, Zenon
<1>3. code \notin {0, 500}
  BY <1>1
<1> QED
  BY <1>2, <1>3, Answers

\* The requests that read one table after another, up to their answers.
LEMMA ArriveStep ==
  ASSUME Inv, NEW r \in Reqs, NEW kind \in Kinds, Arrive(r, kind)
  PROVE  Inv'
<1>1. PICK arg \in ArgsOf(kind) :
        req' = [req EXCEPT ![r] = [NoReq EXCEPT !.kind = kind, !.pc = "start", !.arg = arg]]
  BY DEF Arrive
<1>2. UNCHANGED <<db, page>> /\ req[r].kind # "list"
  BY DEF Arrive, Fresh, Reqs
<1> DEFINE q == [NoReq EXCEPT !.kind = kind, !.pc = "start", !.arg = arg]
<1>3. /\ kind = "register" => arg \in Account
      /\ kind = "daily" => arg \in Days
      /\ kind = "thread" => arg \in Problems
      /\ kind \in {"reply", "upvote"} => arg \in Threads
      /\ kind = "profile" => arg \in Users
      /\ kind = "board" => arg \in {None}
      /\ kind \in {"register", "daily", "thread", "reply", "upvote", "profile", "board"}
  BY <1>1 DEF ArgsOf, Kinds
<1>4. arg \in Value
  BY <1>3 DEF Value
<1>5. NoReq \in Request /\ NoReq.code = 0 /\ NoReq.got = None /\ NoReq.seen = None
  BY NoReqType
<1>6. /\ q \in Request /\ q.kind = kind /\ q.pc = "start" /\ q.arg = arg /\ q.code = 0
      /\ q.got = None /\ q.seen = None
  <2>1. "start" \in Pcs /\ kind \in Kinds \cup {"list", "none"}
    BY DEF Pcs
  <2> QED
    BY <1>4, <1>5, <2>1 DEF Request
<1>7. None \notin live
  BY OpenFacts
<1> HIDE DEF q
<1>8. Fits(q) /\ q.kind # "list"
  <2>1. RegisterFits(q) /\ DiscussFits(q) /\ DailyFits(q)
    BY <1>3, <1>6, <1>7 DEF RegisterFits, DiscussFits, DailyFits
  <2>2. ProfileFits(q) /\ BoardFits(q)
    BY <1>3, <1>6 DEF ProfileFits, BoardFits
  <2>3. kind # "list"
    BY DEF Kinds
  <2> QED
    BY <1>6, <2>1, <2>2, <2>3 DEF Fits
<1>9. req' = [req EXCEPT ![r] = q]
  BY <1>1 DEF q
<1> QED
  BY <1>2, <1>6, <1>8, <1>9, OwnStep

LEMMA RegisterFindStep ==
  ASSUME Inv, NEW r \in Reqs, RegisterFind(r)
  PROVE  Inv'
<1>1. UNCHANGED <<db, page>> /\ req[r].kind = "register" /\ req[r].code = 0
  BY DEF RegisterFind, At
<1>2. CASE Taken(req[r].arg)
  <2>1. Reply(r, 409)
    BY <1>2 DEF RegisterFind
  <2> QED
    BY <1>1, <2>1, Replies
<1>3. CASE ~Taken(req[r].arg)
  <2>1. Go(r, "hash", None)
    BY <1>3 DEF RegisterFind
  <2>2. ~Conflicts(req[r].arg) /\ "hash" \in Pcs /\ None \in Value
    BY <1>3 DEF Taken, Conflicts, Pcs, Value
  <2> QED
    BY <1>1, <2>1, <2>2, Goes
<1> QED
  BY <1>2, <1>3

LEMMA DailyFindStep ==
  ASSUME Inv, NEW r \in Reqs, DailyFind(r)
  PROVE  Inv'
<1>1. UNCHANGED <<db, page>> /\ req[r].kind = "daily" /\ req[r].code = 0
  BY DEF DailyFind, At
<1>2. req[r].arg \in Days /\ daily[req[r].arg] \in live \cup {None} /\ live \subseteq Problems
  <2>1. Fits(req[r]) /\ live \subseteq Problems
    BY OpenFacts
  <2> QED
    BY <1>1, <2>1 DEF Fits, DailyFits, Inv, SiteTypes
<1>3. CASE daily[req[r].arg] # None
  <2>1. PICK v : v = daily[req[r].arg]
    OBVIOUS
  <2>2. v \in Value /\ Send(r, v)
    BY <1>2, <1>3, <2>1 DEF DailyFind, Value
  <2>3. Suits(req[r], v)
    BY <1>1, <2>1 DEF Suits
  <2> QED
    BY <1>1, <2>2, <2>3, Sends
<1>4. CASE daily[req[r].arg] = None
  <2>1. Go(r, "list", None) /\ "list" \in Pcs /\ None \in Value
    BY <1>4 DEF DailyFind, Pcs, Value
  <2> QED
    BY <1>1, <1>4, <2>1, Goes
<1> QED
  BY <1>3, <1>4

LEMMA DailyListStep ==
  ASSUME Inv, NEW r \in Reqs, DailyList(r)
  PROVE  Inv'
<1>1. UNCHANGED <<db, page>> /\ req[r].kind = "daily" /\ req[r].code = 0 /\ req[r].pc = "list"
  BY DEF DailyList, At
<1>2. Fits(req[r]) /\ None \notin live /\ live \subseteq Problems /\ None \in Value
  BY OpenFacts
<1>3. CASE live = {} /\ Send(r, None)
  <2>1. Suits(req[r], None)
    BY <1>1, <1>2 DEF Suits
  <2> QED
    BY <1>1, <1>2, <1>3, <2>1, Sends
<1>4. ASSUME NEW p \in live, Go(r, "create", p) PROVE Inv'
  <2>1. "create" \in Pcs /\ p \in Value
    BY <1>2, <1>4 DEF Pcs, Value
  <2>2. req[r].raced \/ daily[req[r].arg] = None
    BY <1>1, <1>2 DEF Fits, DailyFits
  <2> QED
    BY <1>1, <1>4, <2>1, <2>2, Goes
<1> QED
  BY <1>3, <1>4 DEF DailyList

LEMMA FindParentStep ==
  ASSUME Inv, NEW r \in Reqs, FindParent(r)
  PROVE  Inv'
<1>1. UNCHANGED <<db, page>> /\ req[r].kind \in {"thread", "reply"} /\ req[r].code = 0
  BY DEF FindParent, At
<1>2. CASE Reply(r, 404)
  BY <1>1, <1>2, Replies
<1>3. CASE Go(r, "create", None) /\ req[r].kind = "thread" /\ req[r].arg \in live
  <2>1. "create" \in Pcs /\ None \in Value
    BY DEF Pcs, Value
  <2> QED
    BY <1>1, <1>3, <2>1, Goes
<1>4. CASE Go(r, "create", None) /\ req[r].kind = "reply" /\ thread[req[r].arg] # None
  <2>1. "create" \in Pcs /\ None \in Value
    BY DEF Pcs, Value
  <2> QED
    BY <1>1, <1>4, <2>1, Goes
<1> QED
  BY <1>1, <1>2, <1>3, <1>4 DEF FindParent

LEMMA ProfileStep ==
  ASSUME Inv, NEW r \in Reqs, Profile(r)
  PROVE  Inv'
<1>1. UNCHANGED <<db, page>> /\ req[r].kind = "profile" /\ req[r].code = 0
  BY DEF Profile, At
<1>2. Fits(req[r]) /\ req[r].arg \in Users /\ IsFiniteSet(subs) /\ acc \subseteq subs
  <2>1. Fits(req[r])
    BY OpenFacts
  <2> QED
    BY <1>1, <2>1 DEF Fits, ProfileFits, Inv, SiteTypes
<1> PICK u : u = req[r].arg
  OBVIOUS
<1>3. /\ Cardinality(Of(u, subs)) \in Nat /\ Read("solved", u) \in Nat
      /\ Read("solved", u) <= Cardinality(Of(u, subs))
      /\ Read("total", u) = Cardinality(Of(u, subs))
  <2>1. /\ Cardinality(Of(u, subs)) \in Nat /\ Accepted(u) \in Nat /\ SolvedCount(u) \in Nat
        /\ SolvedCount(u) <= Accepted(u) /\ Accepted(u) <= Cardinality(Of(u, subs))
    BY <1>2, Accounting
  <2>2. Read("solved", u) = SolvedCount(u) /\ Read("total", u) = Cardinality(Of(u, subs))
    BY DEF Read, SolvedCount
  <2> QED
    BY <2>1, <2>2
<1>4. CASE req[r].pc = "start" /\ Go(r, "more", Read(ProfileOrder[1], u))
  <2>1. PICK n \in Nat : n = Read("solved", u)
    BY <1>3
  <2>2. Go(r, "more", n) /\ "more" \in Pcs /\ n \in Value
    BY <1>4, <2>1 DEF ProfileOrder, Pcs, Value
  <2>3. n <= Cardinality(Of(req[r].arg, subs))
    BY <1>3, <2>1
  <2> QED
    BY <1>1, <2>2, <2>3, Goes
<1>5. ASSUME req[r].pc = "more",
             Send(r, [what \in {"solved", "total"} |->
                        IF what = ProfileOrder[1] THEN req[r].seen ELSE Read(what, u)])
      PROVE  Inv'
  <2>1. PICK v : v = [what \in {"solved", "total"} |->
                        IF what = ProfileOrder[1] THEN req[r].seen ELSE Read(what, u)]
    OBVIOUS
  <2>2. Send(r, v)
    BY <1>5, <2>1
  <2>3. v["solved"] = req[r].seen /\ v["total"] = Cardinality(Of(req[r].arg, subs))
    BY <1>3, <2>1 DEF ProfileOrder
  <2>4. /\ req[r].seen \in Nat
        /\ req[r].cut \/ req[r].seen <= Cardinality(Of(req[r].arg, subs))
    BY <1>1, <1>2, <1>5 DEF Fits, ProfileFits
  <2>5. v \in [{"solved", "total"} -> Nat]
    BY <1>3, <2>1, <2>4 DEF ProfileOrder
  <2>6. v \in Value
    BY <2>5 DEF Value
  <2>7. Suits(req[r], v)
    BY <1>1, <2>3, <2>4 DEF Suits, Backed
  <2> QED
    BY <1>1, <2>2, <2>6, <2>7, Sends
<1> QED
  BY <1>4, <1>5 DEF Profile, At

\* The page shows the answer to what it asked for last.
LEMMA ListStep ==
  ASSUME Inv, NEW r \in Reqs, List(r) \/ ListFails(r)
  PROVE  Inv'
<1>1. /\ req[r] \in Request /\ Fits(req[r]) /\ req \in [Reqs -> Request]
      /\ req[r].kind = "list" /\ req[r].code = 0 /\ r \in Asking /\ req[r].arg \in Filters
  BY OpenFacts DEF List, ListFails, At, Asking, Open, Fits
<1>2. UNCHANGED <<accounts, live, daily, thread, subs, acc, filter>>
  BY DEF List, ListFails, db
<1>3. \/ UNCHANGED shown /\ req' = [req EXCEPT ![r].pc = "solved", ![r].seen = None]
      \/ shown' = req[r].arg /\ req' = [req EXCEPT ![r].code = 200]
      \/ shown' = None /\ req' = [req EXCEPT ![r].code = 503]
  BY DEF List, ListFails, Go, Reply
<1>4. /\ \A j \in Reqs : j # r => req'[j] = req[j]
      /\ req'[r].kind = "list" /\ req'[r].arg = req[r].arg /\ req'[r].cut = req[r].cut
      /\ req'[r].got = None
      /\ \/ UNCHANGED shown /\ req'[r].code = 0
         \/ shown' = req[r].arg /\ req'[r].code = 200
         \/ shown' = None /\ req'[r].code = 503
      /\ req' \in [Reqs -> Request]
  <2>1. "solved" \in Pcs /\ None \in Value /\ req[r].got = None
    BY <1>1 DEF Pcs, Value, Fits
  <2> QED
    BY <1>1, <1>3, <2>1 DEF Request
<1>5. SiteTypes'
  BY <1>1, <1>2, <1>4 DEF Inv, SiteTypes
<1>6. ListInv'
  <2> SUFFICES ASSUME \A j \in Reqs : req'[j].kind = "list" => ~req'[j].cut
               PROVE  /\ \A j \in Asking' : req'[j].arg = filter' /\ IsLast(j)'
                      /\ Asking' = {} => \A j \in Reqs : IsLast(j)' => Shows(j)'
                      /\ filter' # None => \E j \in Reqs : IsLast(j)'
    BY DEF ListInv
  <2>1. /\ \A j \in Asking : req[j].arg = filter /\ IsLast(j)
        /\ filter # None => \E j \in Reqs : IsLast(j)
    BY <1>1, <1>4 DEF Inv, ListInv
  <2>2. /\ Asking' \subseteq Asking /\ \A j \in Reqs : req'[j].arg = req[j].arg
        /\ \A j \in Reqs : IsLast(j)' <=> IsLast(j)
    BY <1>1, <1>4 DEF Asking, Open, IsLast
  <2>3. \A j \in Asking' : req'[j].arg = filter' /\ IsLast(j)'
    BY <1>2, <2>1, <2>2 DEF Asking
  <2>4. req[r].arg = filter /\ IsLast(r)
    BY <1>1, <2>1
  <2>5. ASSUME Asking' = {}, NEW j \in Reqs, IsLast(j)' PROVE Shows(j)'
    <3>1. j = r
      <4>1. IsLast(j)
        BY <2>2, <2>5
      <4>2. j <= r /\ r <= j
        BY <1>1, <2>4, <4>1 DEF IsLast
      <4> QED
        BY <4>2 DEF Reqs
    <3>2. req'[r].code # 0
      BY <1>4, <2>5 DEF Asking, Open
    <3> QED
      BY <1>2, <1>4, <2>4, <3>1, <3>2 DEF Shows
  <2> QED
    BY <1>2, <2>1, <2>2, <2>3, <2>5
<1>7. ASSUME NEW j \in Reqs PROVE Fits(req[j])'
  <2>1. CASE j = r
    BY <1>1, <1>4, <2>1
       DEF Fits, RegisterFits, DiscussFits, DailyFits, ProfileFits, BoardFits
  <2>2. CASE j # r
    <3>1. Fits(req'[j])
      BY <1>4, <2>2 DEF Inv
    <3>2. RegisterFits(req[j])' /\ DiscussFits(req[j])' /\ DailyFits(req[j])'
      BY <1>2, <3>1 DEF Fits, RegisterFits, DiscussFits, DailyFits, Conflicts
    <3>3. ProfileFits(req[j])'
      BY <1>2, <3>1 DEF Fits, ProfileFits, Of
    <3>4. \A u : SolvedCount(u)' = SolvedCount(u)
      BY <1>2 DEF SolvedCount, Solved, Of
    <3>5. BoardFits(req[j])'
      BY <1>2, <3>1, <3>4 DEF Fits, BoardFits, Counted
    <3> QED
      BY <3>1, <3>2, <3>3, <3>5 DEF Fits
  <2> QED
    BY <2>1, <2>2
<1> QED
  BY <1>5, <1>6, <1>7 DEF Inv

LEMMA BoardGroupStep ==
  ASSUME Inv, NEW r \in Reqs, BoardGroup(r)
  PROVE  Inv'
<1> DEFINE some == {u \in Users : Accepted(u) > 0}
<1>1. /\ UNCHANGED <<db, page>> /\ req[r].kind = "board" /\ req[r].code = 0
      /\ req[r].pc = "start"
  BY DEF BoardGroup, At
<1>2. ASSUME NEW u PROVE Accepted(u) \in Nat /\ SolvedCount(u) \in Nat /\ SolvedCount(u) <= Accepted(u)
  BY Accounting DEF Inv, SiteTypes
<1>3. PICK top \in SUBSET some :
        /\ \A u \in top, v \in some \ top : Accepted(u) >= Accepted(v)
        /\ IF top = {} THEN Send(r, NoCounts)
           ELSE Go(r, "count", [top |-> top, totals |-> [u \in Users |-> Accepted(u)],
                                before |-> [u \in Users |-> Cardinality(Solved(u))], n |-> NoCounts])
  BY DEF BoardGroup
<1>4. NoCounts \in Counters /\ NoCounts \in Value /\ \A u \in Users : NoCounts[u] = -1
  BY DEF NoCounts, Counters, Value
<1>5. CASE top = {}
  <2>1. Suits(req[r], NoCounts)
    BY <1>1, <1>4 DEF Suits
  <2> QED
    BY <1>1, <1>3, <1>4, <1>5, <2>1, Sends
<1>6. CASE top # {}
  <2>1. PICK s : s = [top |-> top, totals |-> [u \in Users |-> Accepted(u)],
                      before |-> [u \in Users |-> Cardinality(Solved(u))], n |-> NoCounts]
    OBVIOUS
  <2>2. /\ s.top = top /\ s.n = NoCounts
        /\ \A u \in Users : s.totals[u] = Accepted(u) /\ s.before[u] = SolvedCount(u)
    BY <2>1 DEF SolvedCount
  <2>3. s \in BoardRec
    <3>1. /\ [u \in Users |-> Accepted(u)] \in [Users -> Nat]
          /\ [u \in Users |-> Cardinality(Solved(u))] \in [Users -> Nat]
      BY <1>2 DEF SolvedCount
    <3>2. top \in SUBSET Users
      OBVIOUS
    <3> QED
      BY <1>4, <2>1, <3>1, <3>2 DEF BoardRec
  <2>4. "count" \in Pcs /\ s \in Value /\ Go(r, "count", s)
    BY <1>3, <1>6, <2>1, <2>3 DEF Pcs, Value
  <2>5. ASSUME NEW u \in s.top
        PROVE  /\ Counted(s, u, SolvedCount(u)) /\ s.n[u] = -1
               /\ \A v \in Users \ s.top : s.before[v] <= s.totals[u]
    <3>1. u \in Users /\ u \in top /\ Accepted(u) > 0
      BY <2>2, <2>5
    <3>2. Counted(s, u, SolvedCount(u)) /\ s.n[u] = -1
      BY <1>2, <1>4, <2>2, <3>1 DEF Counted
    <3>3. ASSUME NEW v \in Users, v \notin top PROVE s.before[v] <= s.totals[u]
      <4>1. Accepted(v) <= Accepted(u)
        BY <1>2, <1>3, <3>1, <3>3
      <4> QED
        BY <1>2, <2>2, <3>1, <4>1
    <3> QED
      BY <2>2, <3>2, <3>3
  <2> QED
    BY <1>1, <2>3, <2>4, <2>5, Goes DEF Ranked
<1> QED
  BY <1>5, <1>6

LEMMA BoardCountStep ==
  ASSUME Inv, NEW r \in Reqs, NEW u \in Users, BoardCount(r, u)
  PROVE  Inv'
<1>1. /\ UNCHANGED <<db, page>> /\ req[r].kind = "board" /\ req[r].code = 0
      /\ req[r].pc = "count" /\ u \in req[r].seen.top
  BY DEF BoardCount, At
<1>2. ASSUME NEW v PROVE SolvedCount(v) \in Nat
  BY Accounting DEF Inv, SiteTypes
<1>3. PICK s : s = req[r].seen
  OBVIOUS
<1>4. PICK n : n = [s.n EXCEPT ![u] = SolvedCount(u)]
  OBVIOUS
<1>5. /\ s \in BoardRec /\ Ranked(s)
      /\ ~req[r].cut => \A v \in s.top :
           /\ Counted(s, v, SolvedCount(v))
           /\ s.n[v] = -1 \/ Counted(s, v, s.n[v])
  <2>1. Fits(req[r])
    BY OpenFacts
  <2> QED
    BY <1>1, <1>3, <2>1 DEF Fits, BoardFits
<1>6. /\ s.n \in Counters /\ s.top \subseteq Users
      /\ n \in Counters /\ n[u] = SolvedCount(u) /\ \A v \in Users : v # u => n[v] = s.n[v]
  BY <1>2, <1>4, <1>5 DEF BoardRec, Counters
<1>7. ~req[r].cut => \A v \in s.top : n[v] = -1 \/ Counted(s, v, n[v])
  BY <1>5, <1>6
<1>8. CASE (\A v \in s.top : n[v] # -1) /\ Send(r, n)
  <2>1. Suits(req[r], n)
    BY <1>1, <1>3, <1>6, <1>7, <1>8 DEF Suits
  <2>2. n \in Value
    BY <1>6 DEF Value
  <2> QED
    BY <1>1, <1>8, <2>1, <2>2, Sends
<1>9. CASE Go(r, "count", [s EXCEPT !.n = n])
  <2>1. PICK t : t = [s EXCEPT !.n = n]
    OBVIOUS
  <2>2. /\ t \in BoardRec /\ t.top = s.top /\ t.totals = s.totals /\ t.before = s.before
        /\ t.n = n
    BY <1>5, <1>6, <2>1 DEF BoardRec
  <2>3. "count" \in Pcs /\ t \in Value /\ Go(r, "count", t)
    BY <1>9, <2>1, <2>2 DEF Pcs, Value
  <2>4. ~req[r].cut => \A v \in t.top :
           /\ Counted(t, v, SolvedCount(v))
           /\ t.n[v] = -1 \/ Counted(t, v, t.n[v])
    BY <1>5, <1>7, <2>2 DEF Counted
  <2>5. Ranked(t)
    BY <1>5, <2>2 DEF Ranked
  <2> QED
    BY <1>1, <2>2, <2>3, <2>4, <2>5, Goes
<1> QED
  BY <1>3, <1>4, <1>8, <1>9 DEF BoardCount

\* The request that writes.
LEMMA WroteOwn ==
  ASSUME Inv, NEW r \in Reqs, NEW code \in Nat, NEW v \in Value, Wrote(r, code, v)
  PROVE  /\ req'[r].kind = req[r].kind /\ req'[r].pc = req[r].pc /\ req'[r].arg = req[r].arg
         /\ req'[r].seen = req[r].seen /\ req'[r].code = code /\ req'[r].got = v
         /\ req'[r].raced = req[r].raced /\ req'[r].cut = req[r].cut
<1>1. req[r] \in Request
  BY OpenFacts
<1>2. req'[r] = [req[r] EXCEPT !.code = code, !.got = v]
  BY DEF Wrote
<1> QED
  BY <1>1, <1>2 DEF Request

LEMMA RegisterCreateStep ==
  ASSUME Inv, NEW r \in Reqs, RegisterCreate(r)
  PROVE  Inv'
<1>1. /\ UNCHANGED <<live, daily, thread, subs, acc, page>> /\ req[r].kind = "register"
      /\ req[r].code = 0 /\ req[r].pc = "hash"
  BY DEF RegisterCreate, At
<1>2. Fits(req[r]) /\ None \in Value /\ None \notin live
  BY OpenFacts
<1>3. req[r].arg \in Account /\ (req[r].raced \/ ~Conflicts(req[r].arg))
  BY <1>1, <1>2 DEF Fits, RegisterFits
<1>4. CASE Conflicts(req[r].arg)
  <2>1. Reply(r, 500) /\ UNCHANGED <<db, page>>
    BY <1>1, <1>4 DEF RegisterCreate, db
  <2> QED
    BY <1>1, <1>3, <1>4, <2>1, Replies
<1>5. CASE ~Conflicts(req[r].arg)
  <2>1. Wrote(r, 201, None) /\ accounts' = accounts \cup {req[r].arg}
    BY <1>5 DEF RegisterCreate
  <2>2. /\ accounts' \subseteq Account
        /\ \A a, b \in accounts' : a.email = b.email \/ a.name = b.name => a = b
    BY <1>3, <1>5, <2>1 DEF Conflicts, Inv, SiteTypes
  <2>3. /\ req'[r].kind = "register" /\ req'[r].arg = req[r].arg /\ req'[r].code = 201
        /\ req'[r].got = None
    BY <1>1, <1>2, <2>1, WroteOwn
  <2>4. Fits(req[r])'
    BY <1>3, <2>3 DEF Fits, RegisterFits, DiscussFits, DailyFits, ProfileFits, BoardFits
  <2>5. daily \in [Days -> live \cup {None}] /\ thread \in [Threads -> live \cup {None}]
    BY DEF Inv, SiteTypes
  <2>6. Open(r) /\ req[r].kind # "list"
    BY <1>1 DEF Open
  <2>7. /\ daily' \in [Days -> live \cup {None}] /\ thread' \in [Threads -> live \cup {None}]
        /\ \A d \in Days : daily[d] # None => daily'[d] = daily[d]
    BY <1>1, <2>5
  <2> QED
    BY <1>1, <1>2, <2>1, <2>2, <2>4, <2>6, <2>7, Writes
<1> QED
  BY <1>4, <1>5

LEMMA DailyCreateStep ==
  ASSUME Inv, NEW r \in Reqs, DailyCreate(r)
  PROVE  Inv'
<1>1. /\ UNCHANGED <<accounts, live, thread, subs, acc, page>> /\ req[r].kind = "daily"
      /\ req[r].code = 0 /\ req[r].pc = "create"
  BY DEF DailyCreate, At
<1>2. Fits(req[r]) /\ live \subseteq Problems
  BY OpenFacts
<1> PICK t : t = req[r].arg
  OBVIOUS
<1> PICK p : p = req[r].seen
  OBVIOUS
<1>3. /\ t \in Days /\ p \in Problems
      /\ req[r].raced \/ (daily[t] = None /\ p \in live)
  BY <1>1, <1>2 DEF Fits, DailyFits
<1>4. CASE DailyTaken(t) \/ p \notin live
  <2>1. Reply(r, 500) /\ UNCHANGED <<db, page>>
    BY <1>1, <1>4 DEF DailyCreate, db
  <2>2. req[r].raced
    BY <1>3, <1>4 DEF DailyTaken
  <2> QED
    BY <1>1, <2>1, <2>2, Replies
<1>5. CASE daily[t] = None /\ p \in live
  <2>1. Wrote(r, 200, p) /\ daily' = [daily EXCEPT ![t] = p]
    BY <1>5 DEF DailyCreate, DailyTaken
  <2>2. daily \in [Days -> live \cup {None}] /\ thread \in [Threads -> live \cup {None}]
    BY DEF Inv, SiteTypes
  <2>3. /\ daily' \in [Days -> live \cup {None}] /\ thread' \in [Threads -> live \cup {None}]
        /\ \A d \in Days : daily[d] # None => daily'[d] = daily[d]
        /\ daily'[t] = p
    BY <1>1, <1>3, <1>5, <2>1, <2>2
  <2>4. p \in Value
    BY <1>3 DEF Value
  <2>5. /\ req'[r].kind = "daily" /\ req'[r].arg = t /\ req'[r].code = 200 /\ req'[r].got = p
    BY <1>1, <2>1, <2>4, WroteOwn
  <2>6. Fits(req[r])'
    BY <1>3, <2>3, <2>5 DEF Fits, RegisterFits, DiscussFits, DailyFits, ProfileFits, BoardFits
  <2>7. Open(r) /\ req[r].kind # "list"
    BY <1>1 DEF Open
  <2>8. /\ accounts' \subseteq Account
        /\ \A a, b \in accounts' : a.email = b.email \/ a.name = b.name => a = b
    BY <1>1 DEF Inv, SiteTypes
  <2> QED
    BY <1>1, <2>1, <2>3, <2>4, <2>6, <2>7, <2>8, Writes
<1> QED
  BY <1>4, <1>5 DEF DailyTaken

\* A discussion request has written.
LEMMA DiscussWrites ==
  ASSUME Inv, NEW r \in Reqs, NEW code \in {200, 201}, Wrote(r, code, None),
         req[r].kind \in {"thread", "reply", "upvote"}, req[r].code = 0,
         UNCHANGED <<accounts, live, daily, subs, acc, page>>,
         thread' \in [Threads -> live \cup {None}]
  PROVE  Inv'
<1>1. Fits(req[r]) /\ None \in Value /\ code \in Nat
  BY OpenFacts
<1>2. /\ req'[r].kind = req[r].kind /\ req'[r].arg = req[r].arg /\ req'[r].code = code
      /\ req'[r].got = None
  BY <1>1, WroteOwn
<1>3. Fits(req[r])'
  BY <1>1, <1>2 DEF Fits, RegisterFits, DiscussFits, DailyFits, ProfileFits, BoardFits
<1>4. Open(r) /\ req[r].kind # "list"
  BY DEF Open
<1>5. /\ accounts' \subseteq Account /\ daily' \in [Days -> live \cup {None}]
      /\ \A a, b \in accounts' : a.email = b.email \/ a.name = b.name => a = b
      /\ \A d \in Days : daily[d] # None => daily'[d] = daily[d]
  BY DEF Inv, SiteTypes
<1> QED
  BY <1>1, <1>3, <1>4, <1>5, Writes

LEMMA DiscussSteps ==
  ASSUME Inv, NEW r \in Reqs, ThreadCreate(r) \/ ReplyCreate(r) \/ Upvote(r)
  PROVE  Inv'
<1>1. Fits(req[r]) /\ thread \in [Threads -> live \cup {None}]
  BY OpenFacts DEF Inv, SiteTypes
<1>2. CASE ThreadCreate(r)
  <2>1. /\ req[r].kind = "thread" /\ req[r].code = 0 /\ req[r].pc = "create"
        /\ UNCHANGED <<accounts, live, daily, subs, acc, page>>
    BY <1>2 DEF ThreadCreate, At
  <2>2. ASSUME req[r].arg \in live, Wrote(r, 201, None), NEW t \in Threads,
               thread' = [thread EXCEPT ![t] = req[r].arg]
        PROVE  Inv'
    BY <1>1, <2>1, <2>2, DiscussWrites
  <2>3. ASSUME req[r].arg \notin live, Reply(r, 500), UNCHANGED thread PROVE Inv'
    <3>1. req[r].raced
      BY <1>1, <2>1, <2>3 DEF Fits, DiscussFits
    <3>2. UNCHANGED <<db, page>>
      BY <2>1, <2>3 DEF db
    <3> QED
      BY <2>1, <2>3, <3>1, <3>2, Replies
  <2> QED
    BY <1>2, <2>2, <2>3 DEF ThreadCreate
<1>3. CASE ReplyCreate(r)
  <2>1. /\ req[r].kind = "reply" /\ req[r].code = 0 /\ req[r].pc = "create"
        /\ UNCHANGED <<accounts, live, daily, thread, subs, acc, page>> /\ UNCHANGED <<db, page>>
    BY <1>3 DEF ReplyCreate, At, db
  <2>2. CASE thread[req[r].arg] # None
    BY <1>1, <1>3, <2>1, <2>2, DiscussWrites DEF ReplyCreate
  <2>3. CASE thread[req[r].arg] = None
    <3>1. req[r].raced /\ Reply(r, 500)
      BY <1>1, <1>3, <2>1, <2>3 DEF ReplyCreate, Fits, DiscussFits
    <3> QED
      BY <2>1, <3>1, Replies
  <2> QED
    BY <2>2, <2>3
<1>4. CASE Upvote(r)
  <2>1. /\ req[r].kind = "upvote" /\ req[r].code = 0
        /\ UNCHANGED <<accounts, live, daily, thread, subs, acc, page>> /\ UNCHANGED <<db, page>>
    BY <1>4 DEF Upvote, At, db
  <2>2. CASE thread[req[r].arg] # None
    BY <1>1, <1>4, <2>1, <2>2, DiscussWrites DEF Upvote
  <2>3. CASE thread[req[r].arg] = None
    BY <1>4, <2>1, <2>3, Replies DEF Upvote
  <2> QED
    BY <2>2, <2>3
<1> QED
  BY <1>2, <1>3, <1>4

-------------------------------------------------------------------------------
(* The other steps.                                                        *)

LEMMA AskListStep ==
  ASSUME Inv, NEW r \in Reqs, NEW f \in Filters,
         (OpenPage(r) /\ f = FirstFilter) \/ ChangeFilter(r, f)
  PROVE  Inv'
<1> PICK cut \in BOOLEAN : cut <=> Asking # {}
  OBVIOUS
<1> PICK q : q = [NoReq EXCEPT !.kind = "list", !.pc = "start", !.arg = f, !.cut = cut]
  OBVIOUS
<1>1. /\ Fresh(r) /\ filter' = f /\ req' = [req EXCEPT ![r] = q]
      /\ UNCHANGED <<accounts, live, daily, thread, subs, acc, shown>>
  <2>1. cut = (Asking # {}) /\ Fresh(r) /\ AskList(r, f)
    BY DEF OpenPage, ChangeFilter
  <2> QED
    BY <2>1 DEF AskList, Asks, db
<1>2. /\ q \in Request /\ q.kind = "list" /\ q.arg = f /\ q.cut = cut /\ q.code = 0
      /\ q.got = None
  <2>1. "start" \in Pcs /\ f \in Value
    BY DEF Pcs, Value
  <2>2. NoReq \in Request /\ NoReq.code = 0 /\ NoReq.got = None
    BY NoReqType
  <2> QED
    BY <2>1, <2>2 DEF Request
<1>3. /\ req \in [Reqs -> Request] /\ req' \in [Reqs -> Request] /\ req'[r] = q
      /\ \A j \in Reqs : j # r => req'[j] = req[j]
  BY <1>1, <1>2 DEF Inv, SiteTypes
<1>4. SiteTypes'
  BY <1>1, <1>3 DEF Inv, SiteTypes
<1>5. ListInv'
  <2> SUFFICES ASSUME \A j \in Reqs : req'[j].kind = "list" => ~req'[j].cut
               PROVE  /\ \A j \in Asking' : req'[j].arg = filter' /\ IsLast(j)'
                      /\ Asking' # {} /\ \E j \in Reqs : IsLast(j)'
    BY DEF ListInv
  <2>1. r \in Asking' /\ req'[r].arg = filter' /\ Asking = {}
    BY <1>1, <1>2, <1>3 DEF Asking, Open
  <2>2. \A j \in Asking' : j = r
    BY <1>3, <2>1 DEF Asking, Open
  <2>3. IsLast(r)'
    <3>1. \A j \in Reqs : req'[j].kind = "list" => j <= r
      <4>1. \A j \in Reqs : req[j].kind # "none" <=> j < r
        BY <1>1 DEF Fresh
      <4> QED
        BY <1>3, <4>1 DEF Reqs
    <3> QED
      BY <1>2, <1>3, <3>1 DEF IsLast
  <2> QED
    BY <2>1, <2>2, <2>3
<1>6. ASSUME NEW j \in Reqs PROVE Fits(req[j])'
  <2>1. CASE j = r
    <3>1. /\ req'[j].kind = "list" /\ req'[j].arg \in Filters /\ req'[j].code = 0
          /\ req'[j].got = None
      BY <1>2, <1>3, <2>1
    <3> QED
      BY <3>1 DEF Fits, RegisterFits, DiscussFits, DailyFits, ProfileFits, BoardFits
  <2>2. CASE j # r
    <3>1. Fits(req'[j])
      BY <1>3, <2>2 DEF Inv
    <3>2. RegisterFits(req[j])' /\ DiscussFits(req[j])' /\ DailyFits(req[j])'
      BY <1>1, <3>1 DEF Fits, RegisterFits, DiscussFits, DailyFits, Conflicts
    <3>3. ProfileFits(req[j])'
      BY <1>1, <3>1 DEF Fits, ProfileFits, Of
    <3>4. \A u : SolvedCount(u)' = SolvedCount(u)
      BY <1>1 DEF SolvedCount, Solved, Of
    <3>5. BoardFits(req[j])'
      BY <1>1, <3>1, <3>4 DEF Fits, BoardFits, Counted
    <3> QED
      BY <3>1, <3>2, <3>3, <3>5 DEF Fits
  <2> QED
    BY <2>1, <2>2
<1> QED
  BY <1>4, <1>5, <1>6 DEF Inv

LEMMA DeleteProblemStep ==
  ASSUME Inv, NEW p \in Problems, DeleteProblem(p)
  PROVE  Inv'
<1>1. SiteTypes /\ None \notin live
  BY SiteAssumption DEF Inv, SiteTypes
<1>2. /\ p \in live /\ live' = live \ {p} /\ Others(Kinds)
      /\ daily' = [d \in Days |-> IF daily[d] = p THEN None ELSE daily[d]]
      /\ thread' = [t \in Threads |-> IF thread[t] = p THEN None ELSE thread[t]]
      /\ subs' = {s \in subs : s.problem # p} /\ acc' = {s \in acc : s.problem # p}
      /\ accounts' = accounts /\ UNCHANGED page
  BY DEF DeleteProblem
<1>3. /\ daily' \in [Days -> live' \cup {None}] /\ thread' \in [Threads -> live' \cup {None}]
      /\ \A d \in Days : daily[d] \in live' => daily'[d] = daily[d]
  BY <1>1, <1>2 DEF SiteTypes
<1>4. /\ subs' \subseteq subs /\ acc' \subseteq subs' /\ \A s \in subs' : s.problem \in live'
  BY <1>1, <1>2 DEF SiteTypes
<1>5. subs' \subseteq Submission /\ IsFiniteSet(subs')
  <2>1. IsFiniteSet(subs) /\ subs \subseteq Submission
    BY <1>1 DEF SiteTypes
  <2> QED
    BY <1>4, <2>1, FS_Subset
<1>6. Kinds \in SUBSET Kinds /\ "profile" \in Kinds /\ "board" \in Kinds /\ live' \subseteq live
  BY <1>2 DEF Kinds
<1> QED
  BY <1>2, <1>3, <1>4, <1>5, <1>6, OthersStep

LEMMA SubmitStep ==
  ASSUME Inv, submits \in Nat, NEW u \in Users, NEW p \in Problems, Submit(u, p)
  PROVE  Inv'
<1>1. SiteTypes
  BY DEF Inv
<1>2. /\ p \in live /\ UNCHANGED <<accounts, live, daily, thread, acc, page>> /\ Others({})
      /\ submits' = submits + 1 /\ submits < MaxSubmits
      /\ subs' = subs \cup {[user |-> u, problem |-> p, n |-> submits']}
  BY DEF Submit
<1>3. submits' \in Int
  BY <1>2
<1>4. subs' \subseteq Submission /\ \A s \in subs' : s.problem \in live'
  BY <1>1, <1>2, <1>3 DEF SiteTypes, Submission
<1>5. IsFiniteSet(subs') /\ acc' \subseteq subs' /\ subs \subseteq subs' /\ acc \subseteq acc'
  <2>1. IsFiniteSet(subs) /\ acc \subseteq subs
    BY <1>1 DEF SiteTypes
  <2> QED
    BY <1>2, <2>1, FS_AddElement
<1>6. /\ daily' \in [Days -> live' \cup {None}] /\ thread' \in [Threads -> live' \cup {None}]
      /\ \A d \in Days : daily[d] \in live' => daily'[d] = daily[d]
      /\ live' \subseteq live /\ accounts' = accounts
  BY <1>1, <1>2 DEF SiteTypes
<1>7. {} \in SUBSET Kinds
  OBVIOUS
<1> QED
  BY <1>2, <1>4, <1>5, <1>6, <1>7, OthersStep

LEMMA AcceptStep ==
  ASSUME Inv, NEW s \in subs, Accept(s)
  PROVE  Inv'
<1>1. SiteTypes
  BY DEF Inv
<1>2. /\ s \in subs /\ acc' = acc \cup {s} /\ Others({})
      /\ UNCHANGED <<accounts, live, daily, thread, subs, page>>
  BY DEF Accept
<1>3. /\ subs' \subseteq Submission /\ IsFiniteSet(subs') /\ acc' \subseteq subs'
      /\ \A t \in subs' : t.problem \in live'
      /\ subs \subseteq subs' /\ acc \subseteq acc'
  BY <1>1, <1>2 DEF SiteTypes
<1>4. /\ daily' \in [Days -> live' \cup {None}] /\ thread' \in [Threads -> live' \cup {None}]
      /\ \A d \in Days : daily[d] \in live' => daily'[d] = daily[d]
      /\ live' \subseteq live /\ accounts' = accounts
  BY <1>1, <1>2 DEF SiteTypes
<1>5. {} \in SUBSET Kinds
  OBVIOUS
<1> QED
  BY <1>2, <1>3, <1>4, <1>5, OthersStep

LEMMA RetractStep ==
  ASSUME Inv, NEW s \in subs, Retract(s)
  PROVE  Inv'
<1>1. SiteTypes
  BY DEF Inv
<1>2. /\ acc' = acc \ {s} /\ Others({"board"})
      /\ UNCHANGED <<accounts, live, daily, thread, subs, page>>
  BY DEF Retract
<1>3. /\ subs' \subseteq Submission /\ IsFiniteSet(subs') /\ acc' \subseteq subs'
      /\ \A t \in subs' : t.problem \in live'
      /\ subs \subseteq subs'
  BY <1>1, <1>2 DEF SiteTypes
<1>4. /\ daily' \in [Days -> live' \cup {None}] /\ thread' \in [Threads -> live' \cup {None}]
      /\ \A d \in Days : daily[d] \in live' => daily'[d] = daily[d]
      /\ live' \subseteq live /\ accounts' = accounts
  BY <1>1, <1>2 DEF SiteTypes
<1>5. {"board"} \in SUBSET Kinds /\ "profile" \notin {"board"} /\ "board" \in {"board"}
  BY DEF Kinds
<1> QED
  BY <1>2, <1>3, <1>4, <1>5, OthersStep

-------------------------------------------------------------------------------
(* The theorems.                                                           *)

LEMMA Starts ==
  ASSUME Init
  PROVE  Inv
<1>1. /\ NoReq \in Request /\ NoReq.code = 0 /\ NoReq.got = None /\ NoReq.kind = "none"
  BY NoReqType
<1>2. SiteTypes
  <2>1. /\ req \in [Reqs -> Request] /\ filter = None /\ shown = None
        /\ daily \in [Days -> live \cup {None}] /\ thread \in [Threads -> live \cup {None}]
    BY <1>1, SiteAssumption DEF Init
  <2>2. subs \subseteq Submission /\ \A s \in subs : s.problem \in live
    BY SiteAssumption DEF Init, Submission
  <2>3. /\ IsFiniteSet(subs) /\ acc \subseteq subs /\ accounts \subseteq Account
        /\ live \subseteq Problems
        /\ \A a, b \in accounts : a.email = b.email \/ a.name = b.name => a = b
    BY SiteAssumption DEF Init
  <2> QED
    BY <2>1, <2>2, <2>3 DEF SiteTypes
<1>3. ListInv
  BY <1>1 DEF Init, ListInv, Asking, Open, IsLast
<1>4. ASSUME NEW r \in Reqs PROVE Fits(req[r])
  <2>1. req[r] = NoReq
    BY DEF Init
  <2> QED
    BY <1>1, <2>1 DEF Fits, RegisterFits, DiscussFits, DailyFits, ProfileFits, BoardFits
<1> QED
  BY <1>2, <1>3, <1>4 DEF Inv

LEMMA Steps ==
  ASSUME Inv, submits \in Nat, [Next]_vars
  PROVE  Inv' /\ submits' \in Nat
<1>1. ASSUME NEW r \in Reqs, Serve(r) PROVE Inv'
  <2>1. CASE RegisterFind(r)
    BY <2>1, RegisterFindStep
  <2>2. CASE RegisterCreate(r)
    BY <2>2, RegisterCreateStep
  <2>3. CASE DailyFind(r)
    BY <2>3, DailyFindStep
  <2>4. CASE DailyList(r)
    BY <2>4, DailyListStep
  <2>5. CASE DailyCreate(r)
    BY <2>5, DailyCreateStep
  <2>6. CASE FindParent(r)
    BY <2>6, FindParentStep
  <2>7. CASE ThreadCreate(r) \/ ReplyCreate(r) \/ Upvote(r)
    BY <2>7, DiscussSteps
  <2>8. CASE BoardGroup(r)
    BY <2>8, BoardGroupStep
  <2>9. ASSUME NEW u \in Users, BoardCount(r, u) PROVE Inv'
    BY <2>9, BoardCountStep
  <2>10. CASE Profile(r)
    BY <2>10, ProfileStep
  <2>11. CASE List(r) \/ ListFails(r)
    BY <2>11, ListStep
  <2> QED
    BY <1>1, <2>1, <2>2, <2>3, <2>4, <2>5, <2>6, <2>7, <2>8, <2>9, <2>10, <2>11 DEF Serve
<1>2. ASSUME NEW r \in Reqs, NEW kind \in Kinds, Arrive(r, kind) PROVE Inv'
  BY <1>2, ArriveStep
<1>3. ASSUME NEW r \in Reqs, NEW f \in Filters, ChangeFilter(r, f) PROVE Inv'
  BY <1>3, AskListStep
<1>9. ASSUME NEW r \in Reqs, OpenPage(r) PROVE Inv'
  <2>1. FirstFilter \in Filters
    BY SiteAssumption
  <2> QED
    BY <1>9, <2>1, AskListStep
<1>4. ASSUME NEW p \in Problems, DeleteProblem(p) PROVE Inv'
  BY <1>4, DeleteProblemStep
<1>5. ASSUME NEW p \in Problems, NEW u \in Users, Submit(u, p) PROVE Inv'
  BY <1>5, SubmitStep
<1>6. ASSUME NEW s \in subs, Accept(s) \/ Retract(s) PROVE Inv'
  BY <1>6, AcceptStep, RetractStep
<1>7. ASSUME UNCHANGED vars PROVE Inv'
  <2>1. /\ UNCHANGED <<accounts, live, daily, thread, subs, acc, filter, shown, req>>
    BY <1>7 DEF vars, db, page
  <2>2. SiteTypes'
    BY <2>1 DEF Inv, SiteTypes
  <2>3. ListInv'
    BY <2>1 DEF Inv, ListInv, Asking, Open, IsLast, Shows
  <2>4. ASSUME NEW j \in Reqs PROVE Fits(req[j])'
    <3>1. Fits(req'[j])
      BY <2>1 DEF Inv
    <3>2. RegisterFits(req[j])' /\ DiscussFits(req[j])' /\ DailyFits(req[j])'
      BY <2>1, <3>1 DEF Fits, RegisterFits, DiscussFits, DailyFits, Conflicts
    <3>3. ProfileFits(req[j])'
      BY <2>1, <3>1 DEF Fits, ProfileFits, Of
    <3>4. \A u : SolvedCount(u)' = SolvedCount(u)
      BY <2>1 DEF SolvedCount, Solved, Of
    <3>5. BoardFits(req[j])'
      BY <2>1, <3>1, <3>4 DEF Fits, BoardFits, Counted
    <3> QED
      BY <3>1, <3>2, <3>3, <3>5 DEF Fits
  <2> QED
    BY <2>2, <2>3, <2>4 DEF Inv
<1>8. submits' \in Nat
  <2>1. CASE UNCHANGED submits
    BY <2>1
  <2>2. CASE submits' = submits + 1
    BY <2>2
  <2>3. UNCHANGED submits \/ submits' = submits + 1
    <3>1. ASSUME NEW r \in Reqs, Serve(r) PROVE UNCHANGED submits
      BY <3>1 DEF Serve, RegisterFind, RegisterCreate, DailyFind, DailyList, DailyCreate, FindParent,
                  ThreadCreate, ReplyCreate, Upvote, BoardGroup, BoardCount, Profile, List, ListFails
    <3>2. ASSUME NEW r \in Reqs, NEW kind \in Kinds, Arrive(r, kind) PROVE UNCHANGED submits
      BY <3>2 DEF Arrive
    <3>3. ASSUME NEW r \in Reqs, NEW f \in Filters, ChangeFilter(r, f) PROVE UNCHANGED submits
      BY <3>3 DEF ChangeFilter, AskList
    <3>4. ASSUME NEW r \in Reqs, OpenPage(r) PROVE UNCHANGED submits
      BY <3>4 DEF OpenPage, AskList
    <3> QED
      BY <3>1, <3>2, <3>3, <3>4 DEF Next, DeleteProblem, Submit, Accept, Retract, vars
  <2> QED
    BY <2>1, <2>2, <2>3
<1> QED
  BY <1>1, <1>2, <1>3, <1>4, <1>5, <1>6, <1>7, <1>8, <1>9 DEF Next

\* What the invariant says.
LEMMA Means ==
  ASSUME Inv
  PROVE  SiteInv /\ DailyAgrees /\ ReadsAgree
<1>1. ASSUME NEW r \in Reqs
      PROVE  /\ Fits(req[r]) /\ req[r] \in Request /\ None \notin live
             /\ req[r].got = None \/ req[r].code # 0
  BY OpenFacts, <1>1
<1>2. SiteInv
  <2>1. \A r \in Reqs : /\ req[r].kind \in Kinds \cup {"list", "none"} /\ req[r].raced \in BOOLEAN
                        /\ req[r].code = 500 => req[r].raced \/ req[r].kind = "upvote"
    BY <1>1 DEF Fits, Request
  <2> QED
    BY <2>1 DEF SiteInv, TypeOK, OnlyRacesFail, Inv, SiteTypes
<1>3. DailyAgrees
  BY <1>1 DEF DailyAgrees, Fits, DailyFits
<1>4. BoardIsHonest
  <2>1. ASSUME NEW r \in Reqs, req[r].kind = "board", req[r].got # None, req[r].seen # None
        PROVE  /\ \A u \in req[r].seen.top, v \in Users \ req[r].seen.top :
                    req[r].seen.before[v] <= req[r].seen.totals[u]
               /\ ~req[r].cut => \A u \in req[r].seen.top :
                    /\ req[r].seen.before[u] <= req[r].got[u]
                    /\ req[r].got[u] <= Cardinality(Solved(u))
    <3>1. req[r].pc = "count"
      BY <1>1, <2>1 DEF Fits, BoardFits
    <3> QED
      BY <1>1, <2>1, <3>1 DEF Fits, BoardFits, Ranked, Counted, SolvedCount
  <2> QED
    BY <2>1 DEF BoardIsHonest
<1>5. ProfileAgrees
  BY <1>1 DEF ProfileAgrees, Fits, ProfileFits, Backed
<1>6. ListMatches
  BY DEF ListMatches, Inv, ListInv, Shows
<1> QED
  BY <1>2, <1>3, <1>4, <1>5, <1>6 DEF ReadsAgree

LEMMA Holds ==
  Spec => [](Inv /\ submits \in Nat)
<1>1. Init => Inv /\ submits \in Nat
  BY Starts DEF Init
<1>2. (Inv /\ submits \in Nat) /\ [Next]_vars => (Inv /\ submits \in Nat)'
  BY Steps
<1> QED
  BY <1>1, <1>2, PTL DEF Spec

\* The tables keep their types, their unique indexes and their references, and
\* no handler but the upvote answers 500 to a request that nothing disturbed:
\* what it checked before its last await still holds when it writes.
THEOREM RowsKept == Spec => []SiteInv
<1>1. Inv => SiteInv
  BY Means
<1> QED
  BY <1>1, Holds, PTL

\* GET /daily gives everybody who asks for one day the same problem, however
\* many requests find the day without one, as long as that problem exists.
THEOREM OneDailyProblem == Spec => []DailyAgrees
<1>1. Inv => DailyAgrees
  BY Means
<1> QED
  BY <1>1, Holds, PTL

\* What the leaderboard, a profile and the problem page put together from
\* several reads agrees, whatever is submitted and graded between the reads:
\* the ranking always, the rest as long as no problem is deleted, no AC taken
\* back and no filter changed under the request it is about.
THEOREM AnswersAgree == Spec => []ReadsAgree
<1>1. Inv => ReadsAgree
  BY Means
<1> QED
  BY <1>1, Holds, PTL
================================================================================
