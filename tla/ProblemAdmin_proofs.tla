-------------------------- MODULE ProblemAdmin_proofs --------------------------
(***************************************************************************)
(* Theorems about ProblemStore and the pages that write to it, for every   *)
(* value of their constants.                                               *)
(***************************************************************************)
EXTENDS ProblemAdmin, FiniteSetTheorems, TLAPS

Pcs == {"none", "tags", "look", "wait", "update", "create", "erase", "commit",
        "done", "failed", "refused"}
Request == [pc : Pcs, op : {"put", "post", "del"}, p : Ids, form : Form, todo : Seq(TagNames),
            at : 1..3, seen : SUBSET Row, dead : SUBSET Row, before : SUBSET (0..MaxReqs),
            alone : BOOLEAN]

-------------------------------------------------------------------------------
(* The invariant of the store.                                             *)

StoreTypes ==
  /\ live \subseteq Ids /\ slug \in [Ids -> Slugs] /\ tag \subseteq TagNames
  /\ rows \subseteq Row /\ IsFiniteSet(rows)
  /\ req \in [Reqs -> Request] /\ last \in [Ids -> 0..MaxReqs]

\* What a request is at, by the kind of request it is, and what it has collected.
PathFits(q) ==
  /\ q.pc = "tags" => q.op # "del" /\ q.todo # <<>> /\ q.at = 1
  /\ q.pc = "erase" => q.at = 1
  /\ q.pc \in {"erase", "commit"} => q.op = "del"
  /\ q.pc \in {"look", "wait"} => q.op # "post"
  /\ q.pc = "update" => q.op = "put"
  /\ q.pc = "create" => q.op = "post"
  /\ \A r \in q.dead \cup q.seen : r.p = q.p
  /\ q.seen # {} => q.pc = "wait"
  /\ q.dead # {} => q.pc \in {"look", "wait", "update", "commit"}

\* ensureTags has stored the tags of the form, or has yet to store them.
TagsFit(q, tags) ==
  q.op # "del" =>
    /\ q.pc = "tags" => Items(q.form.tags) \subseteq tags \cup Items(q.todo)
    /\ q.pc \in {"look", "wait", "update", "create"} => Items(q.form.tags) \subseteq tags

\* The saves a request has seen committed when it began.
BeforeFits(k, q) == q.before \subseteq ({0} \cup Committed) \ {k}

\* The tables request q has been through, and a row it is sure to have met there:
\* a DELETE keeps the saves of its problem out, a request that is alone has
\* nobody to miss, and a PUT meets what was there when it began.
Through(q)  == IF q.pc \in {"update", "commit"} THEN Items(Kinds) ELSE {Kinds[i] : i \in 1..q.at-1}
Meets(q, r) == r.p = q.p /\ (q.op = "del" \/ q.alone \/ r.by \in q.before)

ClearFits(q) ==
  q.pc \in {"look", "wait", "update", "commit"} =>
    \A r \in rows : Meets(q, r) =>
      /\ r.kind \in Through(q) => r \in q.dead
      /\ q.pc = "wait" /\ r.kind = Kinds[q.at] => r \in q.seen

Holding(q) == q.op = "del" /\ q.pc \in {"look", "wait", "commit"}

\* One DELETE at a time holds a problem, and the problem is there.
HoldInv ==
  /\ \A j, k \in Reqs : Holding(req[j]) /\ Holding(req[k]) /\ req[j].p = req[k].p => j = k
  /\ \A k \in Reqs : Holding(req[k]) => req[k].p \in live

AloneInv == \A j, k \in Reqs : req[k].alone /\ InService(k) /\ InService(j) => j = k

LiveInv ==
  /\ live \cap Fresh = {}
  /\ \A p \in Ids : last[p] # 0 => last[p] \in Committed

StoreInv ==
  /\ StoreTypes /\ HoldInv /\ AloneInv /\ LiveInv /\ SaveIsWhole /\ SaveReplaces
  /\ \A k \in Reqs : /\ PathFits(req[k]) /\ TagsFit(req[k], tag)
                     /\ BeforeFits(k, req[k]) /\ ClearFits(req[k])

-------------------------------------------------------------------------------
(* Rows, and what is finite.                                               *)

LEMMA ReqFacts ==
  /\ MaxReqs \in Nat /\ Reqs \subseteq 0..MaxReqs /\ 0 \notin Reqs
  /\ \A k \in Reqs : k \in Nat /\ k # 0
  BY StoreAssumption DEF Reqs

LEMMA KindFacts ==
  /\ Kinds[1] = "starter" /\ Kinds[2] = "test" /\ Kinds[3] = "link"
  /\ Items(Kinds) = {"starter", "test", "link"}
  /\ \A r \in Row : r.kind \in Items(Kinds)
<1>1. Kinds[1] = "starter" /\ Kinds[2] = "test" /\ Kinds[3] = "link" /\ DOMAIN Kinds = 1..3
  BY DEF Kinds
<1>2. Items(Kinds) = {"starter", "test", "link"}
  BY <1>1 DEF Items
<1> QED
  BY <1>1, <1>2 DEF Row

\* What a function takes a finite set to.
LEMMA FiniteImage ==
  ASSUME NEW S, IsFiniteSet(S), NEW U, NEW f \in [S -> U], \A y \in U : \E x \in S : f[x] = y
  PROVE  IsFiniteSet(U)
<1>1. f \in Surjection(S, U)
  BY DEF Surjection
<1> QED
  BY <1>1, FS_Surjection

LEMMA ItemsFacts ==
  ASSUME NEW T, NEW s \in Seq(T)
  PROVE  /\ Items(s) \subseteq T /\ IsFiniteSet(Items(s))
         /\ s # <<>> => Tail(s) \in Seq(T) /\ Head(s) \in T
                        /\ Items(s) \subseteq {Head(s)} \cup Items(Tail(s))
         /\ s = <<>> => Items(s) = {}
<1>1. s \in [1..Len(s) -> T] /\ Len(s) \in Nat /\ DOMAIN s = 1..Len(s)
  OBVIOUS
<1>2. IsFiniteSet(1..Len(s))
  BY <1>1, FS_Interval
<1>3. s \in [1..Len(s) -> Items(s)] /\ \A y \in Items(s) : \E x \in 1..Len(s) : s[x] = y
  BY <1>1 DEF Items
<1>4. Items(s) \subseteq T /\ IsFiniteSet(Items(s))
  <2>1. IsFiniteSet(Items(s))
    BY <1>2, <1>3, FiniteImage
  <2> QED
    BY <1>1, <2>1 DEF Items
<1>5. ASSUME s # <<>>
      PROVE  /\ Tail(s) \in Seq(T) /\ Head(s) \in T
             /\ Items(s) \subseteq {Head(s)} \cup Items(Tail(s))
  <2>1. Tail(s) \in Seq(T) /\ Head(s) \in T /\ Len(Tail(s)) = Len(s) - 1 /\ Head(s) = s[1]
    BY <1>1, <1>5
  <2>2. ASSUME NEW i \in DOMAIN s, i # 1 PROVE s[i] \in Items(Tail(s))
    <3>1. i - 1 \in DOMAIN Tail(s) /\ Tail(s)[i - 1] = s[i]
      BY <1>1, <1>5, <2>1, <2>2
    <3> QED
      BY <3>1 DEF Items
  <2> QED
    BY <2>1, <2>2 DEF Items
<1>6. s = <<>> => Items(s) = {}
  BY DEF Items
<1> QED
  BY <1>4, <1>5, <1>6

LEMMA RowsOfFacts ==
  ASSUME NEW p \in Ids, NEW f \in Form, NEW k \in 0..MaxReqs
  PROVE  /\ RowsOf(p, f, k) \subseteq Row /\ IsFiniteSet(RowsOf(p, f, k))
         /\ \A r \in RowsOf(p, f, k) : /\ r.p = p /\ r.by = k
                                       /\ r.kind = "link" => r.key \in Items(f.tags)
<1>1. f.langs \in Seq(Langs) /\ f.tags \in Seq(TagNames) /\ f.tests \in Nat
  BY DEF Form
<1>2. /\ Items(f.langs) \subseteq Langs /\ IsFiniteSet(Items(f.langs))
      /\ Items(f.tags) \subseteq TagNames /\ IsFiniteSet(Items(f.tags))
  BY <1>1, ItemsFacts
<1>3. TestKeys(f) \subseteq Nat \ {0} /\ IsFiniteSet(TestKeys(f))
  <2>1. IsFiniteSet(1..f.tests)
    BY <1>1, FS_Interval
  <2> QED
    BY <2>1 DEF TestKeys
<1> DEFINE A == {[p |-> p, kind |-> "starter", key |-> l, by |-> k] : l \in Items(f.langs)}
           B == {[p |-> p, kind |-> "test", key |-> i, by |-> k] : i \in TestKeys(f)}
           C == {[p |-> p, kind |-> "link", key |-> g, by |-> k] : g \in Items(f.tags)}
<1>4. IsFiniteSet(A)
  <2> DEFINE h == [l \in Items(f.langs) |-> [p |-> p, kind |-> "starter", key |-> l, by |-> k]]
  <2>1. h \in [Items(f.langs) -> A] /\ \A y \in A : \E x \in Items(f.langs) : h[x] = y
    OBVIOUS
  <2> HIDE DEF h, A
  <2> QED
    BY <1>2, <2>1, FiniteImage
<1>5. IsFiniteSet(B)
  <2> DEFINE h == [l \in TestKeys(f) |-> [p |-> p, kind |-> "test", key |-> l, by |-> k]]
  <2>1. h \in [TestKeys(f) -> B] /\ \A y \in B : \E x \in TestKeys(f) : h[x] = y
    OBVIOUS
  <2> HIDE DEF h, B
  <2> QED
    BY <1>3, <2>1, FiniteImage
<1>6. IsFiniteSet(C)
  <2> DEFINE h == [l \in Items(f.tags) |-> [p |-> p, kind |-> "link", key |-> l, by |-> k]]
  <2>1. h \in [Items(f.tags) -> C] /\ \A y \in C : \E x \in Items(f.tags) : h[x] = y
    OBVIOUS
  <2> HIDE DEF h, C
  <2> QED
    BY <1>2, <2>1, FiniteImage
<1>7. RowsOf(p, f, k) = A \cup B \cup C
  BY DEF RowsOf
<1>8. /\ \A r \in A : r \in Row /\ r.p = p /\ r.by = k /\ r.kind = "starter"
      /\ \A r \in B : r \in Row /\ r.p = p /\ r.by = k /\ r.kind = "test"
      /\ \A r \in C : r \in Row /\ r.p = p /\ r.by = k /\ r.key \in Items(f.tags)
  <2>1. \A r \in A : r \in Row /\ r.p = p /\ r.by = k /\ r.kind = "starter"
    BY <1>2 DEF Row
  <2>2. \A r \in B : r \in Row /\ r.p = p /\ r.by = k /\ r.kind = "test"
    BY <1>3 DEF Row
  <2>3. \A r \in C : r \in Row /\ r.p = p /\ r.by = k /\ r.key \in Items(f.tags)
    BY <1>2 DEF Row
  <2> QED
    BY <2>1, <2>2, <2>3
<1> HIDE DEF A, B, C
<1>9. IsFiniteSet(A \cup B \cup C)
  BY <1>4, <1>5, <1>6, FS_Union
<1> QED
  BY <1>7, <1>8, <1>9

LEMMA NoReqFacts ==
  /\ NoForm \in Form /\ NoForm.tags = <<>> /\ NoReq \in Request /\ NoReq.pc = "none"
  /\ NoReq.seen = {} /\ NoReq.dead = {} /\ NoReq.before = {} /\ NoReq.at = 1
<1>1. (CHOOSE s \in Slugs : TRUE) \in Slugs /\ (CHOOSE p \in Ids : TRUE) \in Ids
  BY StoreAssumption
<1>2. NoForm \in Form /\ NoForm.tags = <<>>
  BY <1>1 DEF NoForm, Form
<1> QED
  BY <1>1, <1>2 DEF NoReq, Request, Pcs

LEMMA InitStore ==
  ASSUME StoreInit
  PROVE  StoreInv
<1>1. \A k \in Reqs : req[k] = NoReq
  BY DEF StoreInit
<1>2. Committed = {}
  BY <1>1, NoReqFacts DEF Committed
<1> DEFINE Of(p) == RowsOf(p, InitForm[p], 0)
           All == {Of(p) : p \in Initial}
<1>3. 0 \in 0..MaxReqs /\ \A p \in Initial : p \in Ids /\ InitForm[p] \in Form
  BY StoreAssumption, ReqFacts
<1>4. \A p \in Initial : /\ Of(p) \subseteq Row /\ IsFiniteSet(Of(p))
                         /\ \A r \in Of(p) : /\ r.p = p
                                             /\ r.kind = "link" => r.key \in Items(InitForm[p].tags)
  BY <1>3, RowsOfFacts
<1>5. rows = UNION All
  BY DEF StoreInit
<1>6. IsFiniteSet(rows)
  <2> DEFINE h == [p \in Initial |-> Of(p)]
  <2>1. h \in [Initial -> All] /\ \A y \in All : \E p \in Initial : h[p] = y
    OBVIOUS
  <2>2. IsFiniteSet(Initial)
    BY StoreAssumption, FS_Subset
  <2>3. \A y \in All : IsFiniteSet(y)
    BY <1>4
  <2> HIDE DEF h, All, Of
  <2>4. IsFiniteSet(All)
    BY <2>1, <2>2, FiniteImage
  <2> QED
    BY <1>5, <2>3, <2>4, FS_UNION
<1>7. \A r \in rows : \E p \in Initial : r \in Of(p)
  BY <1>5
<1>8. tag \subseteq TagNames /\ \A p \in Initial : Items(InitForm[p].tags) \subseteq tag
  <2>1. \A p \in Initial : Items(InitForm[p].tags) \subseteq TagNames
    BY <1>3, ItemsFacts DEF Form
  <2> QED
    BY <2>1 DEF StoreInit
<1>9. StoreTypes
  <2>1. slug \in [Ids -> Slugs]
    BY <1>3, NoReqFacts DEF StoreInit, Form
  <2>2. rows \subseteq Row
    BY <1>4, <1>7
  <2>3. req \in [Reqs -> Request] /\ last \in [Ids -> 0..MaxReqs] /\ live \subseteq Ids
    BY <1>3, NoReqFacts DEF StoreInit
  <2> QED
    BY <1>6, <1>8, <2>1, <2>2, <2>3 DEF StoreTypes
<1>10. SaveIsWhole
  <2>1. \A p \in live : p \in Initial /\ last[p] = 0 /\ Of(p) \subseteq rows
    BY <1>3, <1>5 DEF StoreInit
  <2>2. \A r \in rows : r.p \in live /\ (r.kind = "link" => r.key \in tag)
    BY <1>4, <1>7, <1>8 DEF StoreInit
  <2> QED
    BY <2>1, <2>2 DEF SaveIsWhole
<1>11. LiveInv /\ SaveReplaces
  BY <1>2 DEF LiveInv, SaveReplaces, Fresh, StoreInit
<1>12. HoldInv /\ AloneInv
  BY <1>1, NoReqFacts DEF HoldInv, AloneInv, Holding, InService
<1>13. ASSUME NEW k \in Reqs
       PROVE  /\ PathFits(req[k]) /\ TagsFit(req[k], tag)
              /\ BeforeFits(k, req[k]) /\ ClearFits(req[k])
  BY <1>1, NoReqFacts DEF PathFits, TagsFit, BeforeFits, ClearFits
<1> QED
  BY <1>9, <1>10, <1>11, <1>12, <1>13 DEF StoreInv

-------------------------------------------------------------------------------
(* A request moves on, to q, and commits nothing.                          *)

LEMMA MovesOn ==
  ASSUME StoreInv, NEW k \in Reqs, NEW q \in Request, InService(k),
         req' = [req EXCEPT ![k] = q], UNCHANGED <<live, slug, rows, last>>,
         tag \subseteq tag', tag' \subseteq TagNames,
         q.pc # "done", q.p = req[k].p, q.alone = req[k].alone,
         PathFits(q), TagsFit(q, tag'), BeforeFits(k, q), ClearFits(q),
         Holding(q) /\ ~Holding(req[k]) =>
           q.p \in live /\ \A j \in Reqs : ~(Holding(req[j]) /\ req[j].p = q.p)
  PROVE  StoreInv'
<1>1. /\ req \in [Reqs -> Request] /\ req' \in [Reqs -> Request] /\ req'[k] = q
      /\ \A j \in Reqs : j # k => req'[j] = req[j]
  BY DEF StoreInv, StoreTypes
<1>2. req[k].pc # "done"
  BY DEF InService
<1>3. Committed' = Committed /\ k \notin Committed
  BY <1>1, <1>2 DEF Committed
<1>4. StoreTypes'
  BY <1>1 DEF StoreInv, StoreTypes
<1>5. HoldInv'
  BY <1>1 DEF StoreInv, HoldInv
<1>6. AloneInv'
  BY <1>1 DEF StoreInv, AloneInv, InService
<1>7. \A j \in Committed : req'[j] = req[j]
  BY <1>1, <1>3 DEF Committed
<1>8. Fresh' = Fresh
  BY <1>3, <1>7 DEF Fresh
<1>9. LiveInv'
  BY <1>3, <1>8 DEF StoreInv, LiveInv
<1>10. SaveIsWhole'
  <2>1. ASSUME NEW p \in live
        PROVE  last[p] # 0 => req'[last[p]] = req[last[p]]
    BY <1>7 DEF StoreInv, LiveInv, StoreTypes
  <2> QED
    BY <2>1 DEF StoreInv, SaveIsWhole
<1>11. SaveReplaces'
  BY <1>3, <1>7 DEF StoreInv, SaveReplaces
<1>12. ASSUME NEW j \in Reqs
       PROVE  (PathFits(req[j]) /\ TagsFit(req[j], tag) /\ BeforeFits(j, req[j]) /\ ClearFits(req[j]))'
  <2>1. CASE j = k
    BY <1>1, <1>3, <2>1 DEF PathFits, TagsFit, BeforeFits, ClearFits
  <2>2. CASE j # k
    <3>1. PathFits(req[j]) /\ TagsFit(req[j], tag) /\ BeforeFits(j, req[j]) /\ ClearFits(req[j])
      BY DEF StoreInv
    <3> QED
      BY <1>1, <1>3, <2>2, <3>1 DEF PathFits, TagsFit, BeforeFits, ClearFits
  <2> QED
    BY <2>1, <2>2
<1> QED
  BY <1>4, <1>5, <1>6, <1>9, <1>10, <1>11, <1>12 DEF StoreInv

LEMMA RollbackKeeps ==
  ASSUME StoreInv, NEW k \in Reqs, InService(k), Rollback(k),
         UNCHANGED <<live, slug, tag, rows, last>>
  PROVE  StoreInv'
<1> DEFINE q == [req[k] EXCEPT !.pc = "failed", !.seen = {}, !.dead = {}]
<1>1. req[k] \in Request /\ tag \subseteq TagNames
  BY DEF StoreInv, StoreTypes
<1>2. /\ q \in Request /\ q.pc = "failed" /\ q.seen = {} /\ q.dead = {} /\ q.p = req[k].p
      /\ q.alone = req[k].alone /\ q.before = req[k].before
  BY <1>1 DEF Request, Pcs
<1>3. req' = [req EXCEPT ![k] = q]
  BY DEF Rollback
<1> HIDE DEF q
<1>4. PathFits(q) /\ TagsFit(q, tag') /\ ClearFits(q) /\ ~Holding(q)
  BY <1>2 DEF PathFits, TagsFit, ClearFits, Holding
<1>5. BeforeFits(k, q)
  BY <1>2 DEF StoreInv, BeforeFits
<1> QED
  BY <1>1, <1>2, <1>3, <1>4, <1>5, MovesOn

LEMMA EnsureTagKeeps ==
  ASSUME StoreInv, NEW k \in Reqs, EnsureTag(k)
  PROVE  StoreInv'
<1> DEFINE pc == IF Len(req[k].todo) > 1 THEN req[k].pc ELSE First(req[k].op)
           q  == [req[k] EXCEPT !.todo = Tail(@), !.pc = pc]
<1>1. req[k] \in Request /\ tag \subseteq TagNames /\ req[k].pc = "tags"
  BY DEF StoreInv, StoreTypes, EnsureTag
<1>2. PathFits(req[k]) /\ TagsFit(req[k], tag) /\ BeforeFits(k, req[k])
  BY DEF StoreInv
<1>3. /\ req[k].op \in {"put", "post"} /\ req[k].todo # <<>> /\ req[k].todo \in Seq(TagNames)
      /\ req[k].dead = {} /\ req[k].seen = {} /\ req[k].at = 1
      /\ Items(req[k].form.tags) \subseteq tag \cup Items(req[k].todo)
  BY <1>1, <1>2 DEF PathFits, TagsFit, Request
<1>4. /\ Tail(req[k].todo) \in Seq(TagNames) /\ Head(req[k].todo) \in TagNames
      /\ Items(req[k].todo) \subseteq {Head(req[k].todo)} \cup Items(Tail(req[k].todo))
  BY <1>3, ItemsFacts
<1>5. Len(req[k].todo) > 1 <=> Tail(req[k].todo) # <<>>
  <2>1. ASSUME NEW s \in Seq(TagNames), s # <<>>
        PROVE  Len(s) > 1 <=> Tail(s) # <<>>
    <3>1. Len(Tail(s)) = Len(s) - 1 /\ Len(s) \in Nat /\ Tail(s) \in Seq(TagNames)
      BY <2>1
    <3>2. Tail(s) = <<>> <=> Len(Tail(s)) = 0
      BY <3>1
    <3> QED
      BY <2>1, <3>1, <3>2
  <2> QED
    BY <1>3, <2>1
<1>6. ~(Len(req[k].todo) > 1) => Items(Tail(req[k].todo)) = {}
  BY <1>5 DEF Items
<1>7. /\ Len(req[k].todo) > 1 => pc = "tags"
      /\ ~(Len(req[k].todo) > 1) => pc = IF req[k].op = "put" THEN "look" ELSE "create"
  BY <1>1 DEF First
<1>8. pc \in {"tags", "look", "create"} /\ pc \in Pcs
  BY <1>7 DEF Pcs
<1>9. req' = [req EXCEPT ![k] = q] /\ tag' = tag \cup {Head(req[k].todo)}
      /\ UNCHANGED <<live, slug, rows, last>>
  BY DEF EnsureTag
<1> HIDE DEF pc
<1>10. /\ q \in Request /\ q.pc = pc /\ q.todo = Tail(req[k].todo) /\ q.p = req[k].p
       /\ q.alone = req[k].alone /\ q.before = req[k].before /\ q.op = req[k].op
       /\ q.form = req[k].form /\ q.dead = {} /\ q.seen = {} /\ q.at = req[k].at
  BY <1>1, <1>3, <1>4, <1>8 DEF Request
<1> HIDE DEF q
<1>11. PathFits(q)
  BY <1>3, <1>5, <1>7, <1>8, <1>10 DEF PathFits
<1>12. TagsFit(q, tag')
  BY <1>3, <1>4, <1>5, <1>6, <1>7, <1>9, <1>10, Len(req[k].todo) \in Nat DEF TagsFit
<1>13. BeforeFits(k, q)
  BY <1>2, <1>10 DEF BeforeFits
<1>14. ClearFits(q)
  <2>1. q.pc = "look" => Through(q) = {}
    BY <1>3, <1>10 DEF Through
  <2> QED
    BY <1>8, <1>10, <2>1 DEF ClearFits
<1>15. InService(k) /\ ~Holding(q) /\ tag' \subseteq TagNames
  BY <1>1, <1>3, <1>4, <1>9, <1>10 DEF InService, Holding
<1> QED
  BY <1>8, <1>9, <1>10, <1>11, <1>12, <1>13, <1>14, <1>15, MovesOn

LEMMA LookKeeps ==
  ASSUME StoreInv, NEW k \in Reqs, Look(k)
  PROVE  StoreInv'
<1> DEFINE before == IF req[k].at = 1 THEN {0} \cup Committed ELSE req[k].before
           q == [req[k] EXCEPT !.pc = "wait", !.seen = Target(k), !.before = before]
<1>1. /\ req[k] \in Request /\ tag \subseteq TagNames /\ req[k].pc = "look" /\ rows \subseteq Row
      /\ k \notin Committed /\ Committed \subseteq Reqs
  BY DEF StoreInv, StoreTypes, Look, Committed
<1>2. PathFits(req[k]) /\ TagsFit(req[k], tag) /\ BeforeFits(k, req[k]) /\ ClearFits(req[k])
  BY DEF StoreInv
<1>3. Target(k) \subseteq Row /\ \A r \in Target(k) : r.p = req[k].p
  BY <1>1 DEF Target
<1>4. before \subseteq ({0} \cup Committed) \ {k} /\ before \subseteq 0..MaxReqs
  <2>1. 0 # k /\ 0 \in 0..MaxReqs /\ Committed \subseteq 0..MaxReqs
    BY <1>1, ReqFacts
  <2> QED
    BY <1>1, <1>2, <2>1 DEF BeforeFits, Request
<1>5. req' = [req EXCEPT ![k] = q] /\ UNCHANGED <<live, slug, tag, rows, last>>
  BY DEF Look
<1>6. req[k].at # 1 => before = req[k].before
  OBVIOUS
<1> HIDE DEF before
<1>7. /\ q \in Request /\ q.pc = "wait" /\ q.seen = Target(k) /\ q.before = before
      /\ q.p = req[k].p /\ q.alone = req[k].alone /\ q.op = req[k].op /\ q.todo = req[k].todo
      /\ q.form = req[k].form /\ q.dead = req[k].dead /\ q.at = req[k].at
  BY <1>1, <1>3, <1>4 DEF Request, Pcs
<1> HIDE DEF q
<1>8. PathFits(q) /\ TagsFit(q, tag') /\ BeforeFits(k, q)
  BY <1>1, <1>2, <1>3, <1>4, <1>5, <1>7 DEF PathFits, TagsFit, BeforeFits
<1>9. ClearFits(q)
  <2>1. Through(q) = Through(req[k]) /\ (req[k].at = 1 => Through(q) = {})
    BY <1>1, <1>7 DEF Through
  <2>2. ASSUME NEW r \in rows, Meets(q, r), r.kind \in Through(q) PROVE r \in q.dead
    <3>1. Meets(req[k], r) /\ r.kind \in Through(req[k])
      BY <1>6, <1>7, <2>1, <2>2 DEF Meets
    <3> QED
      BY <1>1, <1>2, <1>7, <3>1 DEF ClearFits
  <2>3. ASSUME NEW r \in rows, Meets(q, r), r.kind = Kinds[q.at] PROVE r \in q.seen
    BY <1>7, <2>3 DEF Meets, Target
  <2> QED
    BY <2>2, <2>3 DEF ClearFits
<1>10. InService(k) /\ (Holding(q) => Holding(req[k])) /\ q.pc # "done"
  BY <1>1, <1>7 DEF InService, Holding
<1> QED
  BY <1>1, <1>5, <1>7, <1>8, <1>9, <1>10, MovesOn

LEMMA DeleteKeeps ==
  ASSUME StoreInv, NEW k \in Reqs, Delete(k)
  PROVE  StoreInv'
<1> DEFINE dead == req[k].dead \cup (req[k].seen \cap rows)
           at == IF req[k].at < 3 THEN req[k].at + 1 ELSE req[k].at
           pc == IF req[k].at < 3 THEN "look" ELSE IF req[k].op = "put" THEN "update" ELSE "commit"
           q  == [req[k] EXCEPT !.seen = {}, !.dead = dead, !.at = at, !.pc = pc]
<1>1. /\ req[k] \in Request /\ tag \subseteq TagNames /\ req[k].pc = "wait" /\ rows \subseteq Row
      /\ req[k].at \in 1..3 /\ req[k].dead \subseteq Row /\ req[k].op \in {"put", "post", "del"}
  BY DEF StoreInv, StoreTypes, Delete, Request
<1>2. PathFits(req[k]) /\ TagsFit(req[k], tag) /\ BeforeFits(k, req[k]) /\ ClearFits(req[k])
  BY DEF StoreInv
<1>3. req' = [req EXCEPT ![k] = q] /\ UNCHANGED <<live, slug, tag, rows, last>>
  BY DEF Delete
<1>4. /\ dead \subseteq Row /\ \A r \in dead : r.p = req[k].p
      /\ req[k].dead \subseteq dead /\ \A r \in rows : r \in req[k].seen => r \in dead
  BY <1>1, <1>2 DEF PathFits
<1>5. /\ at \in 1..3 /\ pc \in {"look", "update", "commit"} /\ pc \in Pcs
      /\ req[k].at < 3 => pc = "look" /\ at = req[k].at + 1
      /\ req[k].at = 3 => pc # "look"
      /\ pc = "update" => req[k].op = "put"
      /\ pc = "commit" => req[k].op = "del"
  BY <1>1, <1>2 DEF Pcs, PathFits
<1> HIDE DEF dead, at, pc
<1>6. /\ q \in Request /\ q.pc = pc /\ q.seen = {} /\ q.before = req[k].before
      /\ q.p = req[k].p /\ q.alone = req[k].alone /\ q.op = req[k].op /\ q.todo = req[k].todo
      /\ q.form = req[k].form /\ q.dead = dead /\ q.at = at
  BY <1>1, <1>4, <1>5 DEF Request
<1> HIDE DEF q
<1>7. PathFits(q)
  BY <1>1, <1>2, <1>4, <1>5, <1>6 DEF PathFits
<1>8. TagsFit(q, tag') /\ BeforeFits(k, q)
  BY <1>1, <1>2, <1>3, <1>5, <1>6 DEF TagsFit, BeforeFits
<1>9. ClearFits(q)
  <2>1. \A x \in Through(q) : x \in Through(req[k]) \/ x = Kinds[req[k].at]
    <3>1. CASE req[k].at < 3
      <4>1. \A i \in 1..at-1 : i \in 1..req[k].at-1 \/ i = req[k].at
        BY <1>1, <1>5, <3>1
      <4> QED
        BY <1>1, <1>5, <1>6, <3>1, <4>1 DEF Through
    <3>2. CASE req[k].at = 3
      <4>1. Through(req[k]) = {Kinds[i] : i \in 1..2}
        BY <1>1, <3>2 DEF Through
      <4>2. Kinds[1] \in Through(req[k]) /\ Kinds[2] \in Through(req[k])
        BY <4>1
      <4>3. Through(q) = Items(Kinds)
        BY <1>5, <1>6, <3>2 DEF Through
      <4> QED
        BY <3>2, <4>2, <4>3, KindFacts
    <3> QED
      BY <1>1, <3>1, <3>2
  <2>2. ASSUME NEW r \in rows, Meets(q, r), r.kind \in Through(q) PROVE r \in q.dead
    <3>1. Meets(req[k], r)
      BY <1>6, <2>2 DEF Meets
    <3>2. r \in req[k].dead \/ r \in req[k].seen
      BY <1>1, <1>2, <2>1, <2>2, <3>1 DEF ClearFits
    <3> QED
      BY <1>4, <1>6, <3>2
  <2> QED
    BY <1>5, <1>6, <2>2 DEF ClearFits
<1>10. InService(k) /\ (Holding(q) => Holding(req[k])) /\ q.pc # "done"
  BY <1>1, <1>5, <1>6 DEF InService, Holding
<1> QED
  BY <1>1, <1>3, <1>6, <1>7, <1>8, <1>9, <1>10, MovesOn

LEMMA EraseKeeps ==
  ASSUME StoreInv, NEW k \in Reqs, Erase(k)
  PROVE  StoreInv'
<1>1. req[k] \in Request /\ req[k].pc = "erase" /\ tag \subseteq TagNames /\ InService(k)
  BY DEF StoreInv, StoreTypes, Erase, InService
<1>2. CASE req[k].p \notin live /\ Rollback(k)
  BY <1>1, <1>2, RollbackKeeps DEF Erase
<1>3. CASE req[k].p \in live /\ Step(k, "look")
  <2> DEFINE q == [req[k] EXCEPT !.pc = "look"]
  <2>1. PathFits(req[k]) /\ BeforeFits(k, req[k])
    BY DEF StoreInv
  <2>2. req' = [req EXCEPT ![k] = q]
    BY <1>3 DEF Step
  <2>3. /\ q \in Request /\ q.pc = "look" /\ q.seen = req[k].seen /\ q.before = req[k].before
        /\ q.p = req[k].p /\ q.alone = req[k].alone /\ q.op = req[k].op
        /\ q.dead = req[k].dead /\ q.at = req[k].at
    BY <1>1 DEF Request, Pcs
  <2> HIDE DEF q
  <2>4. req[k].op = "del" /\ req[k].dead = {} /\ req[k].seen = {} /\ req[k].at = 1
    BY <1>1, <2>1 DEF PathFits
  <2>5. PathFits(q) /\ TagsFit(q, tag') /\ BeforeFits(k, q)
    BY <2>1, <2>3, <2>4 DEF PathFits, TagsFit, BeforeFits
  <2>6. ClearFits(q)
    <3>1. Through(q) = {}
      BY <2>3, <2>4 DEF Through
    <3> QED
      BY <2>3, <3>1 DEF ClearFits
  <2>7. \A j \in Reqs : ~(Holding(req[j]) /\ req[j].p = q.p)
    <3>1. ASSUME NEW j \in Reqs, Holding(req[j]), req[j].p = req[k].p
          PROVE  FALSE
      <4>1. j # k /\ Holds(j, req[k].p)
        BY <1>1, <3>1 DEF Holding, Holds
      <4>2. j \in Blockers(k)
        BY <1>1, <4>1 DEF Blockers
      <4> QED
        BY <4>2 DEF Erase
    <3> QED
      BY <2>3, <3>1
  <2> QED
    BY <1>1, <1>3, <2>2, <2>3, <2>5, <2>6, <2>7, MovesOn DEF Erase
<1> QED
  BY <1>2, <1>3 DEF Erase

-------------------------------------------------------------------------------
(* A request commits, or arrives.                                          *)

\* Save k of problem p: nobody holds p, what it replaces is p's.
LEMMA InsertKeeps ==
  ASSUME StoreInv, NEW k \in Reqs, NEW p \in Ids, Insert(k, p), tag' = tag,
         req[k].pc \in {"update", "create"}, live' = live \cup {p},
         req[k].op = "put" => req[k].p = p /\ p \in live,
         req[k].op = "post" => p \in Fresh,
         \A r \in req[k].dead : r.p = p,
         \A j \in Reqs : ~(Holding(req[j]) /\ req[j].p = p)
  PROVE  StoreInv'
<1> DEFINE f == req[k].form
           q == [req[k] EXCEPT !.pc = "done", !.dead = {}, !.p = p]
           New == RowsOf(p, f, k)
<1>1. /\ req[k] \in Request /\ req \in [Reqs -> Request] /\ rows \subseteq Row /\ IsFiniteSet(rows)
      /\ last \in [Ids -> 0..MaxReqs] /\ slug \in [Ids -> Slugs] /\ f \in Form
      /\ f.slug \in Slugs /\ k \in 0..MaxReqs /\ k # 0
  BY ReqFacts DEF StoreInv, StoreTypes, Request, Form
<1>2. /\ rows' = (rows \ req[k].dead) \cup New /\ slug' = [slug EXCEPT ![p] = f.slug]
      /\ last' = [last EXCEPT ![p] = k] /\ req' = [req EXCEPT ![k] = q]
  BY DEF Insert, AfterCreates
<1>3. PathFits(req[k]) /\ TagsFit(req[k], tag) /\ BeforeFits(k, req[k]) /\ ClearFits(req[k])
  BY DEF StoreInv
<1>4. req[k].op \in {"put", "post"} /\ req[k].seen = {} /\ InService(k) /\ req[k].pc # "done"
      /\ (req[k].pc = "update" <=> req[k].op = "put")
  BY <1>3 DEF PathFits, InService
<1>5. /\ New \subseteq Row /\ IsFiniteSet(New)
      /\ \A r \in New : r.p = p /\ r.by = k /\ (r.kind = "link" => r.key \in tag)
  <2>1. Items(f.tags) \subseteq tag
    BY <1>3, <1>4 DEF TagsFit
  <2> QED
    BY <1>1, <2>1, RowsOfFacts
<1>6. /\ q \in Request /\ q.pc = "done" /\ q.dead = {} /\ q.p = p /\ q.seen = {}
      /\ q.op = req[k].op /\ q.before = req[k].before /\ q.form = f /\ q.alone = req[k].alone
  BY <1>1, <1>4 DEF Request, Pcs
<1> HIDE DEF f, q, New
<1>7. /\ req' \in [Reqs -> Request] /\ req'[k] = q
      /\ \A j \in Reqs : j # k => req'[j] = req[j]
  BY <1>1, <1>2, <1>6
<1>8. Committed' = Committed \cup {k} /\ k \notin Committed
  BY <1>4, <1>6, <1>7 DEF Committed
<1>9. \A j \in Committed : req'[j] = req[j] /\ j # k
  BY <1>7, <1>8 DEF Committed
<1>10. /\ \A r \in rows : r.p # p => r \in rows'
       /\ New \subseteq rows'
       /\ \A r \in rows' : (r \in rows /\ r \notin req[k].dead) \/ r \in New
  BY <1>2
<1>11. StoreTypes'
  <2>1. rows' \subseteq Row /\ IsFiniteSet(rows')
    <3>1. IsFiniteSet(rows \ req[k].dead)
      BY <1>1, FS_Difference
    <3>2. IsFiniteSet((rows \ req[k].dead) \cup New)
      BY <1>5, <3>1, FS_Union
    <3> QED
      BY <1>1, <1>2, <1>5, <3>2
  <2>2. slug' \in [Ids -> Slugs] /\ last' \in [Ids -> 0..MaxReqs]
    BY <1>1, <1>2
  <2> QED
    BY <1>7, <2>1, <2>2 DEF StoreInv, StoreTypes
<1>12. HoldInv'
  <2>1. ~Holding(q)
    BY <1>6 DEF Holding
  <2>2. \A j \in Reqs : Holding(req'[j]) => j # k /\ req'[j] = req[j]
    BY <1>7, <2>1
  <2> QED
    BY <2>2 DEF StoreInv, HoldInv
<1>13. AloneInv'
  <2>1. \A j \in Reqs : InService(j)' => j # k /\ InService(j) /\ req'[j] = req[j]
    BY <1>6, <1>7 DEF InService
  <2> QED
    BY <2>1 DEF StoreInv, AloneInv
<1>14. LiveInv'
  <2>1. ASSUME NEW x \in live', x \in Fresh' PROVE FALSE
    <3>1. x \in Ids \ Initial /\ \A j \in Committed' : req'[j].op = "post" => x # req'[j].p
      BY <2>1 DEF Fresh
    <3>2. x \in Fresh
      BY <1>8, <1>9, <3>1 DEF Fresh
    <3>3. x = p /\ x \notin live
      BY <2>1, <3>2 DEF StoreInv, LiveInv
    <3>4. req[k].op # "put"
      BY <3>3
    <3> QED
      BY <1>4, <1>6, <1>7, <1>8, <3>1, <3>3, <3>4
  <2>2. ASSUME NEW x \in Ids, last'[x] # 0 PROVE last'[x] \in Committed'
    BY <1>1, <1>2, <1>8, <2>2 DEF StoreInv, LiveInv
  <2> QED
    BY <2>1, <2>2 DEF LiveInv
<1>15. SaveIsWhole'
  <2>1. ASSUME NEW x \in live'
        PROVE  RowsOf(x, IF last'[x] = 0 THEN InitForm[x] ELSE req'[last'[x]].form, last'[x])
                 \subseteq rows'
    <3>1. CASE x = p
      <4>1. last'[x] = k /\ k # 0 /\ req'[k].form = f
        BY <1>1, <1>2, <1>6, <1>7, <3>1
      <4> QED
        BY <1>10, <3>1, <4>1 DEF New
    <3>2. CASE x # p
      <4>1. x \in live /\ x \in Ids /\ last'[x] = last[x]
        BY <1>1, <1>2, <2>1, <3>2 DEF StoreInv, StoreTypes
      <4>2. last[x] # 0 => req'[last[x]] = req[last[x]]
        BY <1>9, <4>1 DEF StoreInv, LiveInv
      <4> DEFINE g == IF last[x] = 0 THEN InitForm[x] ELSE req[last[x]].form
      <4>3. RowsOf(x, g, last[x]) \subseteq rows
        BY <4>1 DEF StoreInv, SaveIsWhole
      <4>4. \A r \in RowsOf(x, g, last[x]) : r.p = x
        BY DEF RowsOf
      <4>5. RowsOf(x, g, last[x]) \subseteq rows'
        BY <1>10, <3>2, <4>3, <4>4
      <4> QED
        BY <4>1, <4>2, <4>5
    <3> QED
      BY <3>1, <3>2
  <2>2. \A r \in rows' : r.p \in live' /\ (r.kind = "link" => r.key \in tag)
    BY <1>5, <1>10 DEF StoreInv, SaveIsWhole
  <2> QED
    BY <2>1, <2>2 DEF SaveIsWhole
<1>16. SaveReplaces'
  <2>1. ASSUME NEW j \in Committed', NEW r \in rows', req'[j].op = "put", r.p = req'[j].p
        PROVE  r.by \notin req'[j].before
    <3>1. BeforeFits(j, req[j]) /\ j \in Reqs
      BY <2>1 DEF StoreInv, Committed
    <3>2. req'[j].before = req[j].before /\ req'[j].op = req[j].op
      BY <1>6, <1>7, <3>1
    <3>3. CASE r \in New
      BY <1>1, <1>5, <1>8, <3>1, <3>2, <3>3 DEF BeforeFits
    <3>4. CASE j # k /\ r \in rows
      <4>1. j \in Committed /\ req'[j] = req[j]
        BY <1>8, <1>9, <2>1, <3>4
      <4>2. SaveReplaces
        BY DEF StoreInv
      <4> QED
        BY <2>1, <3>4, <4>1, <4>2 DEF SaveReplaces
    <3>5. CASE j = k /\ r \in rows /\ r \notin req[k].dead
      <4>1. req[k].pc = "update" /\ r.p = req[k].p
        BY <1>4, <1>6, <1>7, <2>1, <3>2, <3>5
      <4>2. r.kind \in Through(req[k])
        BY <1>1, <4>1, <3>5, KindFacts DEF Through
      <4>3. ~Meets(req[k], r)
        BY <1>3, <3>5, <4>1, <4>2 DEF ClearFits
      <4> QED
        BY <3>2, <3>5, <4>1, <4>3 DEF Meets
    <3> QED
      BY <1>10, <3>3, <3>4, <3>5
  <2> QED
    BY <2>1 DEF SaveReplaces
<1>17. ASSUME NEW j \in Reqs
       PROVE  (PathFits(req[j]) /\ TagsFit(req[j], tag) /\ BeforeFits(j, req[j]) /\ ClearFits(req[j]))'
  <2>1. CASE j = k
    <3>1. PathFits(q) /\ TagsFit(q, tag)
      BY <1>6 DEF PathFits, TagsFit
    <3> QED
      BY <1>3, <1>6, <1>7, <1>8, <2>1, <3>1 DEF PathFits, TagsFit, BeforeFits, ClearFits
  <2>2. CASE j # k
    <3>1. PathFits(req[j]) /\ TagsFit(req[j], tag) /\ BeforeFits(j, req[j]) /\ ClearFits(req[j])
      BY DEF StoreInv
    <3>2. ASSUME NEW r \in New, Meets(req[j], r), req[j].pc \in {"look", "wait", "update", "commit"}
          PROVE  FALSE
      <4>1. req[j].p = p /\ r.by = k /\ InService(j)
        BY <1>5, <3>2 DEF Meets, InService
      <4>2. ~req[j].alone
        BY <1>4, <2>2, <4>1 DEF StoreInv, AloneInv
      <4>3. req[j].op # "del"
        BY <3>1, <3>2, <4>1 DEF Holding, PathFits
      <4> QED
        BY <1>1, <1>8, <3>1, <3>2, <4>1, <4>2, <4>3 DEF Meets, BeforeFits
    <3>3. ClearFits(req[j])'
      BY <1>7, <1>10, <2>2, <3>1, <3>2 DEF ClearFits, Meets, Through
    <3> QED
      BY <1>7, <1>8, <2>2, <3>1, <3>3 DEF PathFits, TagsFit, BeforeFits
  <2> QED
    BY <2>1, <2>2
<1> QED
  BY <1>11, <1>12, <1>13, <1>14, <1>15, <1>16, <1>17 DEF StoreInv

LEMMA UpdateKeeps ==
  ASSUME StoreInv, NEW k \in Reqs, Update(k)
  PROVE  StoreInv'
<1>1. /\ req[k].pc = "update" /\ InService(k) /\ PathFits(req[k]) /\ req[k].p \in Ids
  BY DEF StoreInv, StoreTypes, Update, InService, Request
<1>2. CASE Rollback(k) /\ UNCHANGED <<live, slug, tag, rows, last>>
  BY <1>1, <1>2, RollbackKeeps
<1>3. CASE req[k].p \in live /\ Insert(k, req[k].p) /\ UNCHANGED <<live, tag>>
  <2>1. ASSUME NEW j \in Reqs, Holding(req[j]), req[j].p = req[k].p PROVE FALSE
    <3>1. j # k /\ Holds(j, req[k].p)
      BY <1>1, <2>1 DEF Holding, Holds
    <3>2. j \in Blockers(k)
      BY <1>1, <3>1 DEF Blockers
    <3> QED
      BY <3>2 DEF Update
  <2>2. live' = live \cup {req[k].p} /\ tag' = tag
    BY <1>3
  <2>3. \A r \in req[k].dead : r.p = req[k].p
    BY <1>1 DEF PathFits
  <2>4. req[k].op = "put"
    BY <1>1 DEF PathFits
  <2> QED
    BY <1>1, <1>3, <2>1, <2>2, <2>3, <2>4, InsertKeeps
<1> QED
  BY <1>2, <1>3 DEF Update

LEMMA CreateKeeps ==
  ASSUME StoreInv, NEW k \in Reqs, Create(k)
  PROVE  StoreInv'
<1>1. /\ req[k].pc = "create" /\ InService(k) /\ PathFits(req[k])
  BY DEF StoreInv, Create, InService
<1>2. CASE Rollback(k) /\ UNCHANGED <<live, slug, tag, rows, last>>
  BY <1>1, <1>2, RollbackKeeps
<1>3. ASSUME NEW p \in Fresh, Insert(k, p), live' = live \cup {p}, UNCHANGED tag
      PROVE  StoreInv'
  <2>1. p \in Ids /\ p \notin live
    BY DEF StoreInv, LiveInv, Fresh
  <2>2. \A j \in Reqs : ~(Holding(req[j]) /\ req[j].p = p)
    BY <2>1 DEF StoreInv, HoldInv
  <2>3. req[k].op = "post" /\ req[k].dead = {}
    BY <1>1 DEF PathFits
  <2> QED
    BY <1>1, <1>3, <2>1, <2>2, <2>3, InsertKeeps
<1> QED
  BY <1>2, <1>3 DEF Create

\* When a DELETE commits, its cascade has met every row of the problem.
LEMMA CommitDeleteKeeps ==
  ASSUME StoreInv, NEW k \in Reqs, CommitDelete(k)
  PROVE  StoreInv'
<1> DEFINE q == [req[k] EXCEPT !.pc = "done", !.dead = {}]
           p == req[k].p
<1>1. /\ req[k] \in Request /\ req \in [Reqs -> Request] /\ rows \subseteq Row /\ IsFiniteSet(rows)
      /\ req[k].pc = "commit" /\ live' = live \ {p} /\ rows' = rows \ req[k].dead
      /\ req' = [req EXCEPT ![k] = q] /\ UNCHANGED <<slug, tag, last>>
  BY DEF StoreInv, StoreTypes, CommitDelete
<1>2. PathFits(req[k]) /\ TagsFit(req[k], tag) /\ BeforeFits(k, req[k]) /\ ClearFits(req[k])
  BY DEF StoreInv
<1>3. req[k].op = "del" /\ req[k].seen = {} /\ Holding(req[k]) /\ \A r \in req[k].dead : r.p = p
  BY <1>1, <1>2 DEF PathFits, Holding
<1>4. /\ q \in Request /\ q.pc = "done" /\ q.dead = {} /\ q.p = p /\ q.seen = {}
      /\ q.op = "del" /\ q.before = req[k].before /\ q.form = req[k].form
  BY <1>1, <1>3 DEF Request, Pcs
<1> HIDE DEF q
<1>5. /\ req' \in [Reqs -> Request] /\ req'[k] = q
      /\ \A j \in Reqs : j # k => req'[j] = req[j]
  BY <1>1, <1>4
<1>6. Committed' = Committed \cup {k} /\ k \notin Committed
  BY <1>1, <1>4, <1>5 DEF Committed
<1>7. \A j \in Committed : req'[j] = req[j] /\ j # k
  BY <1>5, <1>6 DEF Committed
<1>8. \A r \in rows : r \in rows' <=> r.p # p
  <2>1. ASSUME NEW r \in rows, r.p = p PROVE r \in req[k].dead
    <3>1. r.kind \in Through(req[k])
      BY <1>1, <2>1, KindFacts DEF Through
    <3>2. Meets(req[k], r)
      BY <1>3, <2>1 DEF Meets
    <3> QED
      BY <1>1, <1>2, <2>1, <3>1, <3>2 DEF ClearFits
  <2> QED
    BY <1>1, <1>3, <2>1
<1>9. rows' \subseteq rows
  BY <1>1
<1> HIDE DEF p
<1>10. StoreTypes'
  <2>1. IsFiniteSet(rows')
    BY <1>1, FS_Difference
  <2> QED
    BY <1>1, <1>5, <1>9, <2>1 DEF StoreInv, StoreTypes
<1>11. HoldInv'
  <2>1. ~Holding(q)
    BY <1>4 DEF Holding
  <2>2. \A j \in Reqs : Holding(req'[j]) => j # k /\ Holding(req[j]) /\ req'[j] = req[j]
    BY <1>5, <2>1
  <2>3. \A j \in Reqs : Holding(req[j]) /\ j # k => req[j].p # p /\ req[j].p \in live
    BY <1>3 DEF StoreInv, HoldInv, p
  <2> QED
    BY <1>1, <2>2, <2>3 DEF StoreInv, HoldInv
<1>12. AloneInv'
  <2>1. \A j \in Reqs : InService(j)' => j # k /\ InService(j) /\ req'[j] = req[j]
    BY <1>4, <1>5 DEF InService
  <2> QED
    BY <2>1 DEF StoreInv, AloneInv
<1>13. LiveInv'
  <2>1. Fresh' \subseteq Fresh
    BY <1>6, <1>7 DEF Fresh
  <2> QED
    BY <1>1, <1>6, <2>1 DEF StoreInv, LiveInv
<1>14. SaveIsWhole'
  <2>1. ASSUME NEW x \in live'
        PROVE  RowsOf(x, IF last'[x] = 0 THEN InitForm[x] ELSE req'[last'[x]].form, last'[x])
                 \subseteq rows'
    <3>1. x \in live /\ x \in Ids /\ last'[x] = last[x] /\ x # p
      BY <1>1, <2>1 DEF StoreInv, StoreTypes, p
    <3>2. last[x] # 0 => req'[last[x]] = req[last[x]]
      BY <1>7, <3>1 DEF StoreInv, LiveInv
    <3> DEFINE g == IF last[x] = 0 THEN InitForm[x] ELSE req[last[x]].form
    <3>3. RowsOf(x, g, last[x]) \subseteq rows
      BY <3>1 DEF StoreInv, SaveIsWhole
    <3>4. \A r \in RowsOf(x, g, last[x]) : r.p = x
      BY DEF RowsOf
    <3>5. RowsOf(x, g, last[x]) \subseteq rows'
      BY <1>8, <3>1, <3>3, <3>4
    <3> QED
      BY <3>1, <3>2, <3>5
  <2>2. \A r \in rows' : r.p \in live' /\ (r.kind = "link" => r.key \in tag)
    BY <1>1, <1>8, <1>9 DEF StoreInv, SaveIsWhole, p
  <2> QED
    BY <1>1, <2>1, <2>2 DEF SaveIsWhole
<1>15. SaveReplaces'
  <2>1. ASSUME NEW j \in Committed', NEW r \in rows', req'[j].op = "put", r.p = req'[j].p
        PROVE  r.by \notin req'[j].before
    <3>1. j \in Committed /\ req'[j] = req[j]
      BY <1>4, <1>5, <1>6, <1>7, <2>1
    <3>2. SaveReplaces
      BY DEF StoreInv
    <3> QED
      BY <1>9, <2>1, <3>1, <3>2 DEF SaveReplaces
  <2> QED
    BY <2>1 DEF SaveReplaces
<1>16. ASSUME NEW j \in Reqs
       PROVE  (PathFits(req[j]) /\ TagsFit(req[j], tag) /\ BeforeFits(j, req[j]) /\ ClearFits(req[j]))'
  <2>1. CASE j = k
    BY <1>2, <1>4, <1>5, <1>6, <2>1 DEF PathFits, TagsFit, BeforeFits, ClearFits
  <2>2. CASE j # k
    <3>1. PathFits(req[j]) /\ TagsFit(req[j], tag) /\ BeforeFits(j, req[j]) /\ ClearFits(req[j])
      BY DEF StoreInv
    <3>2. ClearFits(req[j])'
      BY <1>5, <1>9, <2>2, <3>1 DEF ClearFits, Meets, Through
    <3> QED
      BY <1>1, <1>5, <1>6, <2>2, <3>1, <3>2 DEF PathFits, TagsFit, BeforeFits
  <2> QED
    BY <2>1, <2>2
<1> QED
  BY <1>10, <1>11, <1>12, <1>13, <1>14, <1>15, <1>16 DEF StoreInv

LEMMA DeadlockVictimKeeps ==
  ASSUME StoreInv, NEW k \in Reqs, DeadlockVictim(k)
  PROVE  StoreInv' /\ InService(k) /\ \E j \in Blockers(k) : TRUE
<1>1. \E j \in Blockers(k) : TRUE
  BY DEF DeadlockVictim
<1>2. req[k].seen # {} \/ req[k].pc \in {"update", "erase", "create"}
  BY <1>1 DEF Blockers
<1>3. InService(k)
  BY <1>2 DEF StoreInv, PathFits, InService
<1> QED
  BY <1>1, <1>3, RollbackKeeps DEF DeadlockVictim

LEMMA ServeKeeps ==
  ASSUME StoreInv, NEW k \in Reqs, Serve(k)
  PROVE  StoreInv'
  BY EnsureTagKeeps, LookKeeps, DeleteKeeps, UpdateKeeps, CreateKeeps, EraseKeeps,
     CommitDeleteKeeps, DeadlockVictimKeeps DEF Serve

LEMMA ReceiveKeeps ==
  ASSUME StoreInv, NEW k \in Reqs, NEW op \in {"put", "post", "del"}, NEW p \in Ids,
         NEW f \in Form, Receive(k, op, p, f)
  PROVE  /\ StoreInv' /\ req'[k].pc # "none" /\ ~InService(k)
         /\ req'[k].op = op /\ req'[k].p = p /\ req'[k].pc # "done" /\ req[k].pc = "none"
         /\ \A j \in Reqs : j # k => req'[j] = [req[j] EXCEPT !.alone = req'[j].alone]
<1> DEFINE pc == IF op = "del" THEN "erase" ELSE IF ~f.filled THEN "refused"
                 ELSE IF f.tags # <<>> THEN "tags" ELSE First(op)
           free == \A j \in Reqs : ~InService(j)
           q == [NoReq EXCEPT !.pc = pc, !.op = op, !.p = p, !.form = f, !.todo = f.tags,
                              !.alone = free]
           Other(j) == [req[j] EXCEPT !.alone = req[j].alone /\ ~InService(j)]
<1>1. /\ req \in [Reqs -> Request] /\ tag \subseteq TagNames /\ req[k].pc = "none"
      /\ f.tags \in Seq(TagNames) /\ UNCHANGED <<live, slug, tag, rows, last>>
  BY DEF StoreInv, StoreTypes, Receive, Form
<1>2. req' = [j \in Reqs |-> IF j = k THEN q ELSE Other(j)]
  BY DEF Receive
<1>3. /\ pc \in {"erase", "refused", "tags", "look", "create"} /\ pc \in Pcs
      /\ pc = "erase" <=> op = "del"
      /\ pc = "tags" => f.tags # <<>>
      /\ pc = "look" => op = "put"
      /\ pc = "create" => op = "post"
      /\ pc \in {"look", "create"} => f.tags = <<>>
  BY DEF First, Pcs
<1> HIDE DEF pc
<1>4. free \in BOOLEAN /\ (free => \A j \in Reqs : ~InService(j))
  OBVIOUS
<1> HIDE DEF free
<1>5. /\ q \in Request /\ q.pc = pc /\ q.op = op /\ q.p = p /\ q.form = f /\ q.todo = f.tags
      /\ q.alone = free /\ q.at = 1 /\ q.dead = {} /\ q.seen = {} /\ q.before = {}
  <2>1. NoReq \in Request /\ NoReq.at = 1 /\ NoReq.dead = {} /\ NoReq.seen = {} /\ NoReq.before = {}
    BY NoReqFacts
  <2> QED
    BY <1>1, <1>3, <1>4, <2>1 DEF Request
<1> HIDE DEF q
<1>6. ASSUME NEW j \in Reqs, j # k
      PROVE  /\ req'[j] \in Request /\ req'[j].alone = (req[j].alone /\ ~InService(j))
             /\ req'[j] = [req[j] EXCEPT !.alone = req'[j].alone]
             /\ req'[j].pc = req[j].pc /\ req'[j].op = req[j].op /\ req'[j].p = req[j].p
             /\ req'[j].form = req[j].form /\ req'[j].todo = req[j].todo
             /\ req'[j].at = req[j].at /\ req'[j].seen = req[j].seen
             /\ req'[j].dead = req[j].dead /\ req'[j].before = req[j].before
  <2>1. req[j] \in Request /\ req'[j] = Other(j)
    BY <1>1, <1>2, <1>6
  <2>2. (req[j].alone /\ ~InService(j)) \in BOOLEAN
    OBVIOUS
  <2>3. req'[j] \in Request
    BY <2>1, <2>2 DEF Request
  <2> QED
    BY <2>1, <2>3 DEF Request
<1>7. req'[k] = q
  BY <1>2
<1>8. Committed' = Committed /\ k \notin Committed
  BY <1>1, <1>3, <1>5, <1>6, <1>7 DEF Committed
<1>9. StoreTypes'
  <2>1. \A j \in Reqs : req'[j] \in Request
    BY <1>5, <1>6, <1>7
  <2>2. req' \in [Reqs -> Request]
    BY <1>2, <2>1
  <2> QED
    BY <1>1, <2>2 DEF StoreInv, StoreTypes
<1>10. HoldInv'
  <2>1. ~Holding(req'[k])
    BY <1>3, <1>5, <1>7 DEF Holding
  <2>2. \A j \in Reqs : Holding(req'[j]) => j # k /\ Holding(req[j]) /\ req'[j].p = req[j].p
    BY <1>6, <2>1 DEF Holding
  <2> QED
    BY <1>1, <2>2 DEF StoreInv, HoldInv
<1>11. AloneInv'
  <2>1. ASSUME NEW i \in Reqs, NEW j \in Reqs, req'[j].alone, InService(j)', InService(i)'
        PROVE  i = j
    <3>1. j = k
      BY <1>6, <2>1 DEF InService
    <3>2. free
      BY <1>5, <1>7, <2>1, <3>1
    <3> QED
      BY <1>4, <1>6, <2>1, <3>1, <3>2 DEF InService
  <2> QED
    BY <2>1 DEF AloneInv
<1>12. \A j \in Committed : j # k /\ j \in Reqs
  BY <1>8 DEF Committed
<1>13. LiveInv'
  <2>1. \A j \in Committed : req'[j].op = req[j].op /\ req'[j].p = req[j].p
    BY <1>6, <1>12
  <2>2. \A x \in Fresh' : x \in Fresh
    BY <1>8, <2>1 DEF Fresh
  <2> QED
    BY <1>1, <1>8, <2>2 DEF StoreInv, LiveInv
<1>14. SaveIsWhole'
  <2>1. ASSUME NEW x \in live
        PROVE  last[x] # 0 => req'[last[x]].form = req[last[x]].form
    BY <1>6, <1>12 DEF StoreInv, LiveInv, StoreTypes
  <2> QED
    BY <1>1, <2>1 DEF StoreInv, SaveIsWhole
<1>15. SaveReplaces'
  <2>1. \A j \in Committed : /\ req'[j].op = req[j].op /\ req'[j].p = req[j].p
                             /\ req'[j].before = req[j].before
    BY <1>6, <1>12
  <2>2. SaveReplaces
    BY DEF StoreInv
  <2> QED
    BY <1>1, <1>8, <2>1, <2>2 DEF SaveReplaces
<1>16. ASSUME NEW j \in Reqs
       PROVE  (PathFits(req[j]) /\ TagsFit(req[j], tag) /\ BeforeFits(j, req[j]) /\ ClearFits(req[j]))'
  <2>1. CASE j = k
    <3>1. PathFits(q)
      BY <1>3, <1>5 DEF PathFits
    <3>2. TagsFit(q, tag)
      <4>1. f.tags = <<>> => Items(f.tags) = {}
        BY DEF Items
      <4> QED
        BY <1>3, <1>5, <4>1 DEF TagsFit
    <3>3. BeforeFits(k, req[k])'
      BY <1>5, <1>7 DEF BeforeFits
    <3>4. ClearFits(req[k])'
      <4>1. Through(req'[k]) = {} \/ req'[k].pc # "look"
        BY <1>5, <1>7 DEF Through
      <4> QED
        BY <1>3, <1>5, <1>7, <4>1 DEF ClearFits
    <3> QED
      BY <1>1, <1>7, <2>1, <3>1, <3>2, <3>3, <3>4
  <2>2. CASE j # k
    <3>1. PathFits(req[j]) /\ TagsFit(req[j], tag) /\ BeforeFits(j, req[j]) /\ ClearFits(req[j])
      BY DEF StoreInv
    <3>2. PathFits(req'[j])
      BY <1>6, <2>2, <3>1 DEF PathFits
    <3>3. TagsFit(req'[j], tag) /\ BeforeFits(j, req[j])'
      BY <1>6, <1>8, <2>2, <3>1 DEF TagsFit, BeforeFits
    <3>4. ClearFits(req[j])'
      <4>1. Through(req'[j]) = Through(req[j])
        BY <1>6, <2>2 DEF Through
      <4>2. \A r : Meets(req'[j], r) => Meets(req[j], r)
        BY <1>6, <2>2 DEF Meets
      <4> QED
        BY <1>1, <1>6, <2>2, <3>1, <4>1, <4>2 DEF ClearFits
    <3> QED
      BY <1>1, <3>2, <3>3, <3>4
  <2> QED
    BY <2>1, <2>2
<1>17. StoreInv'
  BY <1>9, <1>10, <1>11, <1>13, <1>14, <1>15, <1>16 DEF StoreInv
<1>18. ~InService(k)
  BY <1>1 DEF InService
<1> QED
  BY <1>1, <1>3, <1>5, <1>6, <1>7, <1>17, <1>18

-------------------------------------------------------------------------------
(* The invariant of the pages.                                             *)

TabRec == [page : {"list", "edit", "new"}, p : Ids, inst : Nat, moves : Nat, form : Form,
           loaded : BOOLEAN, items : SUBSET Ids, busy : BOOLEAN, err : BOOLEAN,
           going : BOOLEAN]
ClientRec == [tab : Tabs, inst : Nat, items : SUBSET Ids, got : BOOLEAN, crossed : BOOLEAN]
Saves == {"put", "post"}

\* A page instance is older than the next move of its tab; Save is disabled as
\* long as the one save of the page is under way; deletions under way together
\* know of each other.
TabFits(t) ==
  /\ tab[t].inst <= tab[t].moves
  /\ tab[t].page = "list" => ~tab[t].busy /\ (~tab[t].loaded => tab[t].items = {})
  /\ tab[t].busy <=> Waiting(t, Saves) # {}
  /\ \A j, k \in Waiting(t, Saves) : j = k
  /\ \A j, k \in Waiting(t, {"del"}) : j # k => client[j].crossed /\ client[k].crossed

\* A deletion comes from a list, a save from a form; and what was deleted is no
\* longer in the list, nor in one that a waiting deletion closed over.
SentFits(t, k) ==
  Sent(t, k) =>
    /\ IF req[k].op = "del" THEN tab[t].page = "list" /\ tab[t].loaded ELSE Editing(t)
    /\ req[k].op = "del" /\ req[k].pc = "done" /\ client[k].got /\ ~client[k].crossed =>
         /\ req[k].p \notin tab[t].items
         /\ \A j \in Waiting(t, {"del"}) : req[k].p \notin client[j].items

ClientFits(k) ==
  /\ client[k].got => Answered(k)
  /\ req[k].pc # "none" => client[k].inst < tab[client[k].tab].moves

AdminInv ==
  /\ StoreInv /\ tab \in [Tabs -> TabRec] /\ client \in [Reqs -> ClientRec]
  /\ \A t \in Tabs : TabFits(t) /\ \A k \in Reqs : SentFits(t, k)
  /\ \A k \in Reqs : ClientFits(k)

LEMMA AdminTypes ==
  ASSUME AdminInv
  PROVE  /\ \A t \in Tabs : tab[t] \in TabRec /\ tab[t].inst \in Nat /\ tab[t].moves \in Nat
         /\ \A k \in Reqs : /\ client[k] \in ClientRec /\ req[k] \in Request
                           /\ client[k].inst \in Nat /\ client[k].tab \in Tabs
  BY DEF AdminInv, StoreInv, StoreTypes, TabRec, ClientRec

LEMMA SetToSeqType ==
  ASSUME NEW T, NEW S \in SUBSET T, IsFiniteSet(S)
  PROVE  SetToSeq(S) \in Seq(T)
<1>1. Cardinality(S) \in Nat /\ ExistsBijection(1..Cardinality(S), S)
  BY FS_CardinalityType
<1>2. \E f \in [1..Cardinality(S) -> S] : IsInjective(f)
  BY <1>1 DEF ExistsBijection, Bijection, Injection
<1>3. SetToSeq(S) \in [1..Cardinality(S) -> S]
  BY <1>2 DEF SetToSeq
<1> QED
  BY <1>1, <1>3

\* The form of a stored problem is a form.
LEMMA FormOfType ==
  ASSUME StoreTypes, NEW p \in Ids
  PROVE  FormOf(p) \in Form
<1> DEFINE Of(kind) == {x \in rows : x.p = p /\ x.kind = kind}
           keys(kind) == {r.key : r \in Of(kind)}
<1>1. rows \subseteq Row /\ IsFiniteSet(rows) /\ slug[p] \in Slugs
  BY DEF StoreTypes
<1>2. ASSUME NEW kind PROVE IsFiniteSet(keys(kind))
  <2> DEFINE f == [r \in Of(kind) |-> r.key]
             K == keys(kind)
             S == Of(kind)
  <2>1. f \in [S -> K] /\ \A y \in K : \E x \in S : f[x] = y
    OBVIOUS
  <2>2. IsFiniteSet(S)
    BY <1>1, FS_Subset
  <2>3. IsFiniteSet(K)
    <3> HIDE DEF f, K, S, Of, keys
    <3> QED
      BY <2>1, <2>2, FiniteImage
  <2> QED
    BY <2>3
<1>3. keys("starter") \subseteq Langs /\ keys("link") \subseteq TagNames
  BY <1>1 DEF Row
<1>4. SetToSeq(keys("starter")) \in Seq(Langs) /\ SetToSeq(keys("link")) \in Seq(TagNames)
  <2>1. IsFiniteSet(keys("starter")) /\ IsFiniteSet(keys("link"))
    BY <1>2
  <2> HIDE DEF keys
  <2> QED
    BY <1>3, <2>1, SetToSeqType
<1>5. Cardinality({r \in rows : r.p = p /\ r.kind = "test"}) \in Nat
  <2>1. IsFiniteSet({r \in rows : r.p = p /\ r.kind = "test"})
    BY <1>1, FS_Subset
  <2> QED
    BY <2>1, FS_CardinalityType
<1>6. FormOf(p) = [filled |-> TRUE, slug |-> slug[p], langs |-> SetToSeq(keys("starter")),
                   tests |-> Cardinality({r \in rows : r.p = p /\ r.kind = "test"}),
                   tags |-> SetToSeq(keys("link"))]
  BY DEF FormOf
<1> HIDE DEF keys
<1> QED
  BY <1>1, <1>4, <1>5, <1>6 DEF Form

LEMMA EmptyForm == EMPTY \in Form
<1>1. NoForm \in Form /\ <<71>> \in Seq(Langs) /\ 1 \in Nat
  BY NoReqFacts, AdminAssumption
<1> QED
  BY <1>1 DEF EMPTY, Form

LEMMA InitAdmin ==
  ASSUME Init
  PROVE  AdminInv
<1>1. StoreInv
  BY InitStore DEF Init
<1>2. \A k \in Reqs : req[k] = NoReq /\ client[k] = NoClient
  BY DEF Init, StoreInit
<1>3. NoClient \in ClientRec /\ ~NoClient.got
  <2>1. (CHOOSE t \in Tabs : TRUE) \in Tabs
    BY AdminAssumption
  <2> QED
    BY <2>1 DEF NoClient, ClientRec
<1>4. EMPTY \in Form
  BY EmptyForm
<1> DEFINE P == [Page("list", NoReq.p, 0) EXCEPT !.loaded = TRUE, !.items = Initial]
<1>5. /\ P \in TabRec /\ P.page = "list" /\ P.loaded /\ P.busy = FALSE /\ P.inst = 0 /\ P.moves = 0
  BY <1>4, NoReqFacts, StoreAssumption DEF Page, TabRec, Request
<1>6. tab = [t \in Tabs |-> P]
  BY DEF Init
<1> HIDE DEF P
<1>7. tab \in [Tabs -> TabRec] /\ client \in [Reqs -> ClientRec]
  BY <1>3, <1>5, <1>6 DEF Init
<1>8. \A t \in Tabs, k \in Reqs : ~Sent(t, k)
  BY <1>2, NoReqFacts DEF Sent
<1>9. ASSUME NEW t \in Tabs PROVE TabFits(t) /\ \A k \in Reqs : SentFits(t, k)
  <2>1. \A ops : Waiting(t, ops) = {}
    BY <1>8 DEF Waiting
  <2>2. tab[t] = P
    BY <1>6
  <2> QED
    BY <1>5, <1>8, <2>1, <2>2 DEF TabFits, SentFits
<1>10. ASSUME NEW k \in Reqs PROVE ClientFits(k)
  BY <1>2, <1>3, NoReqFacts DEF ClientFits
<1> QED
  BY <1>1, <1>7, <1>9, <1>10 DEF AdminInv

-------------------------------------------------------------------------------
(* The steps of the pages.                                                 *)

\* Tab t shows a new instance of a page: no request was sent from it yet.
LEMMA FreshPage ==
  ASSUME AdminInv, NEW t \in Tabs, NEW P \in TabRec, tab' = [tab EXCEPT ![t] = P],
         UNCHANGED storeVars, client' \in [Reqs -> ClientRec],
         \A j \in Reqs : /\ client'[j].tab = client[j].tab /\ client'[j].inst = client[j].inst
                         /\ client'[j].items = client[j].items
                         /\ client'[j].crossed = client[j].crossed
                         /\ client'[j].got => Answered(j)
                         /\ client[j].tab # t => client'[j].got = client[j].got,
         P.inst >= tab[t].moves, P.moves >= P.inst, P.busy = FALSE,
         P.page = "list" /\ ~P.loaded => P.items = {}
  PROVE  AdminInv'
<1>1. tab \in [Tabs -> TabRec] /\ req' = req
  BY DEF AdminInv, storeVars
<1>2. /\ tab' \in [Tabs -> TabRec] /\ tab'[t] = P
      /\ \A s \in Tabs : s # t => tab'[s] = tab[s]
  BY <1>1
<1>3. StoreInv'
  BY DEF AdminInv, StoreInv, StoreTypes, HoldInv, AloneInv, LiveInv, SaveIsWhole, SaveReplaces,
         InService, Committed, Fresh, BeforeFits, ClearFits, storeVars
<1>4. ASSUME NEW j \in Reqs PROVE ClientFits(j)' /\ ~Sent(t, j)'
  <2>1. ClientFits(j) /\ tab[t].moves \in Nat /\ P.inst \in Nat /\ P.moves \in Nat
        /\ client[j].inst \in Nat /\ client[j].tab \in Tabs
    BY AdminTypes DEF AdminInv, TabRec
  <2>2. (client[j].got => Answered(j))'
    BY <1>1 DEF Answered
  <2>3. req[j].pc # "none" => client[j].inst < tab'[client[j].tab].moves
    BY <1>2, <2>1 DEF ClientFits
  <2>4. req[j].pc # "none" /\ client[j].tab = t => client[j].inst # P.inst
    BY <2>1 DEF ClientFits
  <2> QED
    BY <1>1, <1>2, <2>2, <2>3, <2>4 DEF ClientFits, Sent
<1>5. \A s \in Tabs, j \in Reqs : s # t => (Sent(s, j)' <=> Sent(s, j))
  BY <1>1, <1>2 DEF Sent
<1>6. \A ops : Waiting(t, ops)' = {}
  BY <1>4 DEF Waiting
<1>7. ASSUME NEW s \in Tabs, s # t, NEW ops PROVE Waiting(s, ops)' = Waiting(s, ops)
  <2>1. \A j \in Reqs : Sent(s, j) => client'[j].got = client[j].got
    BY <1>7 DEF Sent
  <2> QED
    BY <1>1, <1>5, <1>7, <2>1 DEF Waiting
<1>8. ASSUME NEW s \in Tabs PROVE TabFits(s)' /\ \A j \in Reqs : SentFits(s, j)'
  <2>1. CASE s = t
    <3>1. P.inst <= P.moves
      BY DEF TabRec
    <3> QED
      BY <1>2, <1>4, <1>6, <2>1, <3>1 DEF TabFits, SentFits
  <2>2. CASE s # t
    <3>1. TabFits(s) /\ tab'[s] = tab[s]
      BY <1>2, <2>2 DEF AdminInv
    <3>2. TabFits(s)'
      <4>1. Waiting(s, {"del"})' = Waiting(s, {"del"}) /\ Waiting(s, Saves)' = Waiting(s, Saves)
        BY <1>7, <2>2
      <4>2. \A j \in Waiting(s, {"del"}) : j \in Reqs
        BY DEF Waiting
      <4> QED
        BY <3>1, <4>1, <4>2 DEF TabFits
    <3>3. ASSUME NEW j \in Reqs PROVE SentFits(s, j)'
      <4>1. SentFits(s, j) /\ (Sent(s, j)' <=> Sent(s, j))
        BY <1>5, <2>2 DEF AdminInv
      <4>2. Sent(s, j) => client'[j].got = client[j].got
        BY <2>2 DEF Sent
      <4>3. Waiting(s, {"del"})' = Waiting(s, {"del"})
        BY <1>7, <2>2
      <4>4. \A i \in Waiting(s, {"del"}) : client'[i].items = client[i].items
        BY DEF Waiting
      <4> QED
        BY <1>1, <3>1, <4>1, <4>2, <4>3, <4>4 DEF SentFits, Editing
    <3> QED
      BY <3>2, <3>3
  <2> QED
    BY <2>1, <2>2
<1> QED
  BY <1>2, <1>3, <1>4, <1>8 DEF AdminInv

\* A step of the store alone.
LEMMA StoreOnly ==
  ASSUME AdminInv, StoreInv', UNCHANGED <<tab, client>>,
         \A j \in Reqs : /\ req'[j].pc = "none" <=> req[j].pc = "none"
                         /\ req'[j].op = req[j].op
                         /\ req[j].op = "del" => req'[j].p = req[j].p
                         /\ Answered(j) => req'[j] = req[j]
  PROVE  AdminInv'
<1>1. \A t \in Tabs, j \in Reqs : Sent(t, j)' <=> Sent(t, j)
  BY DEF Sent
<1>2. \A t \in Tabs : \A ops : Waiting(t, ops)' = Waiting(t, ops)
  BY <1>1 DEF Waiting
<1>3. ASSUME NEW t \in Tabs PROVE TabFits(t)'
  <2>1. TabFits(t) /\ Waiting(t, Saves)' = Waiting(t, Saves)
        /\ Waiting(t, {"del"})' = Waiting(t, {"del"})
    BY <1>2 DEF AdminInv
  <2> QED
    BY <2>1 DEF TabFits
<1>4. ASSUME NEW j \in Reqs PROVE ClientFits(j)'
  BY DEF AdminInv, ClientFits, Answered
<1>5. ASSUME NEW t \in Tabs, NEW j \in Reqs PROVE SentFits(t, j)'
  <2>1. SentFits(t, j) /\ ClientFits(j) /\ Waiting(t, {"del"})' = Waiting(t, {"del"})
    BY <1>2 DEF AdminInv
  <2>2. client[j].got => req'[j] = req[j]
    BY <2>1 DEF ClientFits
  <2> QED
    BY <1>1, <2>1, <2>2 DEF SentFits, Editing
<1> QED
  BY <1>3, <1>4, <1>5 DEF AdminInv

\* Tab t stays on its page: the user typed, or what the page loads has come.
LEMMA StaysOnPage ==
  ASSUME AdminInv, NEW t \in Tabs, NEW P \in TabRec, tab' = [tab EXCEPT ![t] = P],
         UNCHANGED <<storeVars, client>>,
         P.page = tab[t].page, P.inst = tab[t].inst, P.moves >= tab[t].moves,
         P.busy = tab[t].busy,
         \/ P.items = tab[t].items /\ P.loaded = tab[t].loaded
         \/ ~tab[t].loaded /\ P.loaded
  PROVE  AdminInv'
<1>1. tab \in [Tabs -> TabRec] /\ req' = req /\ client' = client
  BY DEF AdminInv, storeVars
<1>2. /\ tab' \in [Tabs -> TabRec] /\ tab'[t] = P
      /\ \A s \in Tabs : s # t => tab'[s] = tab[s]
  BY <1>1
<1>3. StoreInv'
  BY DEF AdminInv, StoreInv, StoreTypes, HoldInv, AloneInv, LiveInv, SaveIsWhole, SaveReplaces,
         InService, Committed, Fresh, BeforeFits, ClearFits, storeVars
<1>4. \A s \in Tabs : /\ tab'[s].inst = tab[s].inst /\ tab'[s].page = tab[s].page
                      /\ tab'[s].moves >= tab[s].moves /\ tab'[s].busy = tab[s].busy
  BY <1>2, AdminTypes
<1>5. \A s \in Tabs, j \in Reqs : Sent(s, j)' <=> Sent(s, j)
  BY <1>1, <1>4 DEF Sent
<1>6. \A s \in Tabs : \A ops : Waiting(s, ops)' = Waiting(s, ops)
  BY <1>1, <1>5 DEF Waiting
<1>7. ASSUME NEW s \in Tabs PROVE TabFits(s)'
  <2>1. TabFits(s) /\ Waiting(s, Saves)' = Waiting(s, Saves)
        /\ Waiting(s, {"del"})' = Waiting(s, {"del"}) /\ tab[s].moves \in Nat /\ tab[s].inst \in Nat
        /\ tab'[s].moves \in Nat
    BY <1>2, <1>6, AdminTypes DEF AdminInv, TabRec
  <2>2. tab'[s].inst <= tab'[s].moves
    BY <1>4, <2>1 DEF TabFits
  <2>3. tab'[s].page = "list" /\ ~tab'[s].loaded => tab'[s].items = {}
    BY <1>2, <1>4, <2>1 DEF TabFits
  <2> QED
    BY <1>1, <1>4, <2>1, <2>2, <2>3 DEF TabFits
<1>8. ASSUME NEW j \in Reqs PROVE ClientFits(j)'
  <2>1. ClientFits(j) /\ client[j].tab \in Tabs /\ client[j].inst \in Nat
    BY AdminTypes DEF AdminInv
  <2>2. tab[client[j].tab].moves \in Nat /\ tab'[client[j].tab].moves \in Nat
        /\ tab'[client[j].tab].moves >= tab[client[j].tab].moves
    BY <1>2, <1>4, <2>1, AdminTypes DEF TabRec
  <2> QED
    BY <1>1, <2>1, <2>2 DEF ClientFits, Answered
<1>9. ASSUME NEW s \in Tabs, NEW j \in Reqs PROVE SentFits(s, j)'
  <2>1. SentFits(s, j) /\ Waiting(s, {"del"})' = Waiting(s, {"del"})
    BY <1>6 DEF AdminInv
  <2>2. Sent(s, j) /\ req[j].op = "del" => tab'[s].items = tab[s].items /\ tab'[s].loaded
    BY <1>2, <2>1 DEF SentFits
  <2> QED
    BY <1>1, <1>4, <1>5, <2>1, <2>2 DEF SentFits, Editing
<1> QED
  BY <1>1, <1>2, <1>3, <1>7, <1>8, <1>9 DEF AdminInv

LEMMA OpenKeeps ==
  ASSUME AdminInv, NEW t \in Tabs, NEW page \in {"list", "edit", "new"}, NEW p \in Ids,
         Open(t, page, p)
  PROVE  AdminInv'
<1> DEFINE P == Page(page, p, tab[t].moves + 1)
<1>1. tab[t].moves \in Nat /\ client \in [Reqs -> ClientRec]
  BY AdminTypes DEF AdminInv
<1>2. /\ P \in TabRec /\ P.inst = tab[t].moves + 1 /\ P.moves = P.inst /\ P.busy = FALSE
      /\ P.items = {}
  <2> DEFINE m == tab[t].moves + 1
  <2>1. m \in Nat
    BY <1>1
  <2>2. P = Page(page, p, m)
    OBVIOUS
  <2> HIDE DEF P, m
  <2>3. /\ P \in TabRec /\ P.inst = m /\ P.moves = m /\ P.busy = FALSE /\ P.items = {}
    BY <2>1, <2>2, EmptyForm DEF Page, TabRec
  <2> QED
    BY <2>3 DEF m
<1>3. tab' = [tab EXCEPT ![t] = P] /\ UNCHANGED <<storeVars, client>>
  BY DEF Open
<1> HIDE DEF P
<1>4. \A j \in Reqs : client'[j].got => Answered(j)
  BY <1>3 DEF AdminInv, ClientFits
<1>5. P.inst >= tab[t].moves /\ P.moves >= P.inst
  BY <1>1, <1>2
<1> QED
  BY <1>1, <1>2, <1>3, <1>4, <1>5, FreshPage

LEMMA EditKeeps ==
  ASSUME AdminInv, NEW t \in Tabs, Edit(t)
  PROVE  AdminInv'
<1>1. PICK f \in Edits(tab[t].form) : tab' = [tab EXCEPT ![t].form = f, ![t].moves = @ + 1]
  BY DEF Edit
<1> DEFINE P == [tab[t] EXCEPT !.form = f, !.moves = @ + 1]
<1>2. f \in Form /\ tab[t] \in TabRec /\ tab[t].moves \in Nat
  BY AdminTypes DEF Edits
<1>3. /\ P \in TabRec /\ P.page = tab[t].page /\ P.inst = tab[t].inst
      /\ P.moves = tab[t].moves + 1 /\ P.busy = tab[t].busy /\ P.items = tab[t].items
      /\ P.loaded = tab[t].loaded
  <2>1. P = [tab[t] EXCEPT !.form = f, !.moves = tab[t].moves + 1] /\ tab[t].moves + 1 \in Nat
    BY <1>2
  <2> HIDE DEF P
  <2> QED
    BY <1>2, <2>1 DEF TabRec
<1>4. tab' = [tab EXCEPT ![t] = P] /\ UNCHANGED <<storeVars, client>>
  BY <1>1 DEF Edit
<1> HIDE DEF P
<1>5. P.moves >= tab[t].moves
  BY <1>2, <1>3
<1> QED
  BY <1>3, <1>4, <1>5, StaysOnPage

LEMMA LoadKeeps ==
  ASSUME AdminInv, NEW t \in Tabs, Load(t)
  PROVE  AdminInv'
<1> DEFINE items == IF tab[t].page = "list" THEN live ELSE tab[t].items
           form == IF Editing(t) /\ tab[t].p \in live THEN FormOf(tab[t].p) ELSE tab[t].form
           err == Editing(t) /\ tab[t].p \notin live
           P == [tab[t] EXCEPT !.loaded = TRUE, !.items = items, !.form = form, !.err = err]
<1>1. tab[t] \in TabRec /\ tab[t].moves \in Nat /\ ~tab[t].loaded
  BY AdminTypes DEF Load
<1>2. items \in SUBSET Ids /\ form \in Form /\ err \in BOOLEAN
  <2>1. live \subseteq Ids /\ StoreTypes
    BY DEF AdminInv, StoreInv, StoreTypes
  <2>2. tab[t].p \in Ids /\ tab[t].form \in Form /\ tab[t].items \in SUBSET Ids
    BY <1>1 DEF TabRec
  <2>3. FormOf(tab[t].p) \in Form
    BY <2>1, <2>2, FormOfType
  <2> QED
    BY <2>1, <2>2, <2>3
<1>3. tab' = [tab EXCEPT ![t] = P] /\ UNCHANGED <<storeVars, client>>
  BY DEF Load
<1> HIDE DEF items, form, err
<1>4. /\ P \in TabRec /\ P.page = tab[t].page /\ P.inst = tab[t].inst
      /\ P.moves = tab[t].moves /\ P.busy = tab[t].busy /\ P.loaded
  BY <1>1, <1>2 DEF TabRec
<1> HIDE DEF P
<1>5. P.moves >= tab[t].moves
  BY <1>1, <1>4
<1> QED
  BY <1>1, <1>3, <1>4, <1>5, StaysOnPage

\* Tab t sends request k: P is its page afterwards.
LEMMA SendKeeps ==
  ASSUME AdminInv, NEW t \in Tabs, NEW k \in Reqs, NEW op \in {"put", "post", "del"},
         NEW p \in Ids, Send(t, k, op, p), NEW P \in TabRec, tab' = [tab EXCEPT ![t] = P],
         P.page = tab[t].page, P.inst = tab[t].inst, P.moves = tab[t].moves + 1,
         P.items = tab[t].items, P.loaded = tab[t].loaded,
         op = "del" => tab[t].page = "list" /\ tab[t].loaded /\ P.busy = tab[t].busy,
         op # "del" => Editing(t) /\ tab[t].busy = FALSE /\ P.busy = TRUE
  PROVE  AdminInv'
<1> DEFINE new == [tab |-> t, inst |-> tab[t].inst, items |-> tab[t].items, got |-> FALSE,
                   crossed |-> Waiting(t, {"del"}) # {}]
<1>1. /\ tab[t] \in TabRec /\ tab[t].form \in Form /\ tab[t].items \in SUBSET Ids
      /\ tab[t].inst \in Nat /\ tab[t].moves \in Nat
      /\ tab \in [Tabs -> TabRec] /\ client \in [Reqs -> ClientRec]
  BY AdminTypes DEF TabRec, AdminInv
<1>2. /\ StoreInv' /\ req'[k].pc # "none" /\ req'[k].op = op /\ req'[k].pc # "done"
      /\ req[k].pc = "none"
      /\ \A j \in Reqs : j # k => req'[j] = [req[j] EXCEPT !.alone = req'[j].alone]
  BY <1>1, ReceiveKeeps DEF Send, AdminInv
<1>3. ASSUME NEW j \in Reqs, j # k
      PROVE  /\ req'[j].pc = req[j].pc /\ req'[j].op = req[j].op /\ req'[j].p = req[j].p
             /\ Answered(j)' <=> Answered(j)
  <2>1. req[j] \in Request
    BY AdminTypes
  <2> QED
    BY <1>2, <1>3, <2>1 DEF Answered, Request
<1>4. new \in ClientRec
  BY <1>1 DEF ClientRec
<1>5. client' = [j \in Reqs |-> IF j = k THEN new
                   ELSE [client[j] EXCEPT !.crossed = @ \/ (op = "del" /\ j \in Waiting(t, {"del"}))]]
  BY DEF Send
<1>6. ASSUME NEW j \in Reqs, j # k
      PROVE  /\ client'[j] \in ClientRec /\ client'[j].tab = client[j].tab
             /\ client'[j].inst = client[j].inst /\ client'[j].items = client[j].items
             /\ client'[j].got = client[j].got
             /\ client'[j].crossed <=> (client[j].crossed \/ (op = "del" /\ j \in Waiting(t, {"del"})))
  <2> DEFINE c == client[j].crossed \/ (op = "del" /\ j \in Waiting(t, {"del"}))
  <2>1. client'[j] = [client[j] EXCEPT !.crossed = c] /\ client[j] \in ClientRec /\ c \in BOOLEAN
    BY <1>1, <1>5, <1>6
  <2> HIDE DEF c
  <2>2. client'[j] \in ClientRec /\ client'[j].crossed = c
    BY <2>1 DEF ClientRec
  <2>3. /\ client'[j].tab = client[j].tab /\ client'[j].inst = client[j].inst
        /\ client'[j].items = client[j].items /\ client'[j].got = client[j].got
    BY <2>1
  <2> QED
    BY <2>2, <2>3 DEF c
<1>7. /\ client'[k] = new /\ client'[k].tab = t /\ client'[k].inst = tab[t].inst
      /\ client'[k].items = tab[t].items /\ ~client'[k].got
      /\ client'[k].crossed <=> Waiting(t, {"del"}) # {}
  BY <1>5
<1> HIDE DEF new
<1>8. client' \in [Reqs -> ClientRec]
  <2>1. \A j \in Reqs : client'[j] \in ClientRec
    BY <1>4, <1>6, <1>7
  <2> QED
    BY <1>5, <2>1
<1>9. /\ tab' \in [Tabs -> TabRec] /\ tab'[t] = P
      /\ \A s \in Tabs : s # t => tab'[s] = tab[s]
      /\ \A s \in Tabs : /\ tab'[s].inst = tab[s].inst /\ tab'[s].page = tab[s].page
                         /\ tab'[s].items = tab[s].items /\ tab'[s].loaded = tab[s].loaded
                         /\ Editing(s)' <=> Editing(s)
  BY <1>1 DEF Editing
<1>10. /\ \A s \in Tabs, j \in Reqs : j # k => (Sent(s, j)' <=> Sent(s, j))
       /\ \A s \in Tabs : ~Sent(s, k) /\ (Sent(s, k)' <=> s = t)
  BY <1>2, <1>3, <1>6, <1>7, <1>9 DEF Sent
<1>11. ASSUME NEW s \in Tabs, NEW ops, NEW j \in Reqs
       PROVE  /\ j # k => (j \in Waiting(s, ops)' <=> j \in Waiting(s, ops))
              /\ k \in Waiting(s, ops)' <=> s = t /\ op \in ops
              /\ k \notin Waiting(s, ops)
  BY <1>2, <1>3, <1>6, <1>7, <1>10 DEF Waiting
<1>12. \A s \in Tabs : \A ops, j : j \in Waiting(s, ops)' \/ j \in Waiting(s, ops) => j \in Reqs
  BY DEF Waiting
<1>13. ASSUME NEW s \in Tabs PROVE TabFits(s)'
  <2>1. TabFits(s) /\ tab[s].inst \in Nat /\ tab[s].moves \in Nat
    BY AdminTypes DEF AdminInv
  <2>2. tab'[s].inst <= tab'[s].moves
    BY <1>9, <2>1 DEF TabFits
  <2>3. \A i, j \in Waiting(s, {"del"})' : i # j => client'[i].crossed /\ client'[j].crossed
    <3>1. ASSUME NEW i \in Waiting(s, {"del"})', NEW j \in Waiting(s, {"del"})', i # j
          PROVE  client'[i].crossed
      <4>1. i \in Reqs /\ j \in Reqs
        BY <1>12, <3>1
      <4>2. CASE i = k
        <5>1. s = t /\ j \in Waiting(t, {"del"})
          BY <1>11, <3>1, <4>1, <4>2
        <5> QED
          BY <1>7, <4>2, <5>1
      <4>3. CASE j = k
        <5>1. s = t /\ i \in Waiting(t, {"del"}) /\ op = "del"
          BY <1>11, <3>1, <4>1, <4>3
        <5> QED
          BY <1>6, <3>1, <4>1, <4>3, <5>1
      <4>4. CASE i # k /\ j # k
        <5>1. i \in Waiting(s, {"del"}) /\ j \in Waiting(s, {"del"})
          BY <1>11, <3>1, <4>1, <4>4
        <5>2. client[i].crossed
          BY <2>1, <3>1, <5>1 DEF TabFits
        <5> QED
          BY <1>6, <4>1, <4>4, <5>2
      <4> QED
        BY <4>2, <4>3, <4>4
    <3> QED
      BY <3>1
  <2>4. CASE s = t /\ op # "del"
    <3>1. op \in Saves /\ Waiting(t, Saves) = {}
      BY <2>1, <2>4 DEF TabFits, Saves
    <3>2. \A j \in Waiting(s, Saves)' : j = k
      BY <1>11, <1>12, <2>4, <3>1
    <3>3. k \in Waiting(s, Saves)'
      BY <1>11, <2>4, <3>1
    <3>4. tab'[s].busy = TRUE /\ tab'[s].page # "list"
      BY <1>9, <2>4 DEF Editing
    <3> QED
      BY <2>2, <2>3, <3>2, <3>3, <3>4 DEF TabFits
  <2>5. CASE ~(s = t /\ op # "del")
    <3>1. \A j : j \in Waiting(s, Saves)' <=> j \in Waiting(s, Saves)
      BY <1>11, <1>12, <2>5 DEF Saves
    <3>2. tab'[s].busy = tab[s].busy
      BY <1>9, <2>5
    <3> QED
      BY <1>9, <2>1, <2>2, <2>3, <3>1, <3>2 DEF TabFits
  <2> QED
    BY <2>4, <2>5
<1>14. ASSUME NEW j \in Reqs PROVE ClientFits(j)'
  <2>1. ClientFits(j) /\ client[j].tab \in Tabs /\ client[j].inst \in Nat
        /\ \A s \in Tabs : tab[s].moves \in Nat /\ tab'[s].moves >= tab[s].moves
                           /\ tab'[s].moves \in Nat
    BY <1>1, <1>9, AdminTypes DEF AdminInv, TabRec
  <2>2. CASE j = k
    <3>1. tab[t].inst < tab'[t].moves
      BY <1>1, <1>9, TabFits(t) DEF TabFits, AdminInv
    <3> QED
      BY <1>7, <2>2, <3>1 DEF ClientFits
  <2>3. CASE j # k
    <3>1. req[j].pc # "none" => client[j].inst < tab'[client[j].tab].moves
      BY <2>1 DEF ClientFits
    <3> QED
      BY <1>3, <1>6, <2>1, <2>3, <3>1 DEF ClientFits
  <2> QED
    BY <2>2, <2>3
<1>15. ASSUME NEW s \in Tabs, NEW j \in Reqs PROVE SentFits(s, j)'
  <2>1. SentFits(s, j)
    BY DEF AdminInv
  <2>2. CASE j = k
    BY <1>2, <1>9, <1>10, <2>2 DEF SentFits
  <2>3. CASE j # k
    <3>1. ASSUME Sent(s, j), req[j].op = "del", req[j].pc = "done", client[j].got,
                 ~client[j].crossed, NEW i \in Waiting(s, {"del"})'
          PROVE  req[j].p \notin client'[i].items
      <4>1. i \in Reqs /\ req[j].p \notin tab[s].items
            /\ \A h \in Waiting(s, {"del"}) : req[j].p \notin client[h].items
        BY <1>12, <2>1, <3>1 DEF SentFits
      <4>2. CASE i = k
        BY <1>7, <1>11, <3>1, <4>1, <4>2
      <4>3. CASE i # k
        BY <1>6, <1>11, <3>1, <4>1, <4>3
      <4> QED
        BY <4>2, <4>3
    <3>2. Sent(s, j)' <=> Sent(s, j)
      BY <1>10, <2>3
    <3> QED
      BY <1>3, <1>6, <1>9, <2>1, <2>3, <3>1, <3>2 DEF SentFits
  <2> QED
    BY <2>2, <2>3
<1> QED
  BY <1>2, <1>8, <1>9, <1>13, <1>14, <1>15 DEF AdminInv

\* The answer to request k leaves its tab t on the page it shows.
LEMMA AnswerStays ==
  ASSUME AdminInv, NEW k \in Reqs, NEW t \in Tabs, t = client[k].tab, Answered(k),
         ~client[k].got, client' = [client EXCEPT ![k].got = TRUE], UNCHANGED storeVars,
         NEW P \in TabRec, tab' = [tab EXCEPT ![t] = P],
         P.page = tab[t].page, P.inst = tab[t].inst, P.moves = tab[t].moves,
         P.loaded = tab[t].loaded,
         Sent(t, k) /\ req[k].op # "del" => P.busy = FALSE,
         ~(Sent(t, k) /\ req[k].op # "del") => P.busy = tab[t].busy,
         Sent(t, k) /\ req[k].op = "del" /\ req[k].pc = "done" => P.items = ItemsAfter(k),
         ~(Sent(t, k) /\ req[k].op = "del" /\ req[k].pc = "done") => P.items = tab[t].items
  PROVE  AdminInv'
<1>1. tab \in [Tabs -> TabRec] /\ client \in [Reqs -> ClientRec] /\ req' = req
  BY DEF AdminInv, storeVars
<1>2. /\ tab' \in [Tabs -> TabRec] /\ tab'[t] = P
      /\ \A s \in Tabs : s # t => tab'[s] = tab[s]
      /\ \A s \in Tabs : /\ tab'[s].inst = tab[s].inst /\ tab'[s].page = tab[s].page
                         /\ tab'[s].moves = tab[s].moves /\ tab'[s].loaded = tab[s].loaded
  BY <1>1
<1>3. /\ client' \in [Reqs -> ClientRec] /\ client'[k].got
      /\ \A j \in Reqs : /\ client'[j].tab = client[j].tab /\ client'[j].inst = client[j].inst
                         /\ client'[j].items = client[j].items
                         /\ client'[j].crossed = client[j].crossed
                         /\ j # k => client'[j].got = client[j].got
  <2>1. client' = [client EXCEPT ![k] = [client[k] EXCEPT !.got = TRUE]]
    OBVIOUS
  <2>2. [client[k] EXCEPT !.got = TRUE] \in ClientRec
    BY <1>1 DEF ClientRec
  <2>3. client' \in [Reqs -> ClientRec]
    BY <1>1, <2>1, <2>2
  <2>4. client'[k].got
    BY <1>1, <2>1 DEF ClientRec
  <2>5. ASSUME NEW j \in Reqs
        PROVE  /\ client'[j].tab = client[j].tab /\ client'[j].inst = client[j].inst
               /\ client'[j].items = client[j].items /\ client'[j].crossed = client[j].crossed
               /\ j # k => client'[j].got = client[j].got
    <3>1. CASE j = k
      <4>1. client'[k] = [client[k] EXCEPT !.got = TRUE]
        BY <1>1, <2>1
      <4> QED
        BY <1>1, <3>1, <4>1 DEF ClientRec
    <3>2. CASE j # k
      BY <1>1, <2>1, <3>2
    <3> QED
      BY <3>1, <3>2
  <2> QED
    BY <2>3, <2>4, <2>5
<1>4. StoreInv'
  BY DEF AdminInv, StoreInv, StoreTypes, HoldInv, AloneInv, LiveInv, SaveIsWhole, SaveReplaces,
         InService, Committed, Fresh, BeforeFits, ClearFits, storeVars
<1>5. \A s \in Tabs, j \in Reqs : Sent(s, j)' <=> Sent(s, j)
  BY <1>1, <1>2, <1>3 DEF Sent
<1>6. ASSUME NEW s \in Tabs, NEW ops
      PROVE  \A j : j \in Waiting(s, ops)' <=> j \in Waiting(s, ops) /\ j # k
  BY <1>1, <1>3, <1>5 DEF Waiting
<1>7. \A s \in Tabs : (Sent(s, k) => s = t)
                      /\ \A ops : k \in Waiting(s, ops) <=> Sent(s, k) /\ req[k].op \in ops
  BY DEF Sent, Waiting
<1>8. \A s \in Tabs : TabFits(s) /\ \A j \in Reqs : SentFits(s, j)
  BY DEF AdminInv
<1>9. req[k].op \in {"put", "post", "del"}
  BY AdminTypes DEF Request
<1>10. \A s \in Tabs : \A ops, j : j \in Waiting(s, ops) => j \in Reqs
  BY DEF Waiting
<1>11. ASSUME NEW s \in Tabs PROVE TabFits(s)'
  <2>1. TabFits(s) /\ SentFits(s, k)
    BY <1>8
  <2>2. \A i, j \in Waiting(s, {"del"})' : i # j => client'[i].crossed /\ client'[j].crossed
    BY <1>3, <1>6, <1>10, <2>1 DEF TabFits
  <2>3. CASE Sent(s, k) /\ req[k].op # "del"
    <3>1. s = t /\ k \in Waiting(s, Saves)
      BY <1>7, <1>9, <2>3 DEF Saves
    <3>2. \A j : j \notin Waiting(s, Saves)'
      BY <1>6, <2>1, <3>1 DEF TabFits
    <3>3. tab'[s].busy = FALSE /\ tab'[s].page # "list"
      BY <1>2, <2>1, <2>3, <3>1 DEF SentFits, Editing
    <3> QED
      BY <1>2, <2>1, <2>2, <3>2, <3>3 DEF TabFits
  <2>4. CASE ~(Sent(s, k) /\ req[k].op # "del")
    <3>1. k \notin Waiting(s, Saves)
      BY <1>7, <2>4 DEF Saves
    <3>2. \A j : j \in Waiting(s, Saves)' <=> j \in Waiting(s, Saves)
      BY <1>6, <3>1
    <3>3. tab'[s].busy = tab[s].busy
      BY <1>2, <2>4
    <3>4. tab'[s].page = "list" /\ ~tab'[s].loaded => tab'[s].items = {}
      <4>1. CASE s = t /\ Sent(s, k) /\ req[k].op = "del"
        BY <1>2, <2>1, <4>1 DEF SentFits
      <4>2. CASE ~(s = t /\ Sent(s, k) /\ req[k].op = "del")
        BY <1>2, <2>1, <4>2 DEF TabFits
      <4> QED
        BY <4>1, <4>2
    <3> QED
      BY <1>2, <2>1, <2>2, <3>2, <3>3, <3>4 DEF TabFits
  <2> QED
    BY <2>3, <2>4
<1>12. ASSUME NEW j \in Reqs PROVE ClientFits(j)'
  <2>1. ClientFits(j) /\ client[j].tab \in Tabs
    BY AdminTypes DEF AdminInv
  <2>2. Answered(j)' <=> Answered(j)
    BY <1>1 DEF Answered
  <2>3. client'[j].got => Answered(j)
    BY <1>3, <2>1 DEF ClientFits
  <2> QED
    BY <1>1, <1>2, <1>3, <2>1, <2>2, <2>3 DEF ClientFits
<1>13. ASSUME NEW s \in Tabs, NEW j \in Reqs PROVE SentFits(s, j)'
  <2>1. SentFits(s, j) /\ SentFits(s, k) /\ TabFits(s)
    BY <1>8
  <2>2. ASSUME Sent(s, j), req[j].op = "del", req[j].pc = "done", client'[j].got,
               ~client[j].crossed
        PROVE  /\ req[j].p \notin tab'[s].items
               /\ \A i \in Waiting(s, {"del"})' : req[j].p \notin client'[i].items
    <3>1. CASE j = k
      <4>1. s = t /\ k \in Waiting(s, {"del"})
        BY <1>7, <2>2, <3>1
      <4>2. tab'[s].items = client[k].items \ {req[k].p}
        BY <1>2, <2>2, <3>1, <4>1 DEF ItemsAfter
      <4>3. \A i : i \notin Waiting(s, {"del"})'
        BY <1>6, <2>1, <2>2, <3>1, <4>1 DEF TabFits
      <4> QED
        BY <3>1, <4>2, <4>3
    <3>2. CASE j # k
      <4>1. /\ req[j].p \notin tab[s].items
            /\ \A i \in Waiting(s, {"del"}) : i \in Reqs /\ req[j].p \notin client[i].items
        BY <1>3, <1>10, <2>1, <2>2, <3>2 DEF SentFits
      <4>2. \A i \in Waiting(s, {"del"})' : req[j].p \notin client'[i].items
        BY <1>3, <1>6, <4>1
      <4>3. CASE s = t /\ Sent(t, k) /\ req[k].op = "del" /\ req[k].pc = "done"
        <5>1. k \in Waiting(s, {"del"}) /\ tab'[s].items = client[k].items \ {req[k].p}
          BY <1>2, <1>7, <4>3 DEF ItemsAfter
        <5> QED
          BY <4>1, <4>2, <5>1
      <4>4. CASE ~(s = t /\ Sent(t, k) /\ req[k].op = "del" /\ req[k].pc = "done")
        BY <1>2, <4>1, <4>2, <4>4
      <4> QED
        BY <4>3, <4>4
    <3> QED
      BY <3>1, <3>2
  <2> QED
    BY <1>1, <1>2, <1>3, <1>5, <2>1, <2>2 DEF SentFits, Editing
<1> QED
  BY <1>2, <1>3, <1>4, <1>11, <1>12, <1>13 DEF AdminInv

LEMMA AnswerKeeps ==
  ASSUME AdminInv, NEW k \in Reqs, Answer(k)
  PROVE  AdminInv'
<1>0. PICK t \in Tabs : t = client[k].tab
  BY AdminTypes
<1> DEFINE old == tab[t]
           here == client[k].inst = old.inst
<1>1. /\ t \in Tabs /\ old \in TabRec /\ client[k] \in ClientRec /\ req[k] \in Request
      /\ old.moves \in Nat /\ client[k].inst \in Nat
  BY <1>0, AdminTypes
<1>2. /\ Answered(k) /\ ~client[k].got /\ client' = [client EXCEPT ![k].got = TRUE]
      /\ tab' = [tab EXCEPT ![t] = After(t, k)] /\ UNCHANGED storeVars
  BY <1>0 DEF Answer
<1>3. req[k].pc # "none"
  BY <1>2 DEF Answered
<1>4. Sent(t, k) <=> here
  BY <1>0, <1>3 DEF Sent
<1> DEFINE P == After(t, k)
<1>6. /\ P \in TabRec /\ P.page = old.page /\ P.inst = old.inst /\ P.moves = old.moves
      /\ P.loaded = old.loaded
      /\ P.busy = IF here /\ req[k].op # "del" THEN FALSE ELSE old.busy
      /\ P.items = IF here /\ req[k].op = "del" /\ req[k].pc = "done"
                   THEN ItemsAfter(k) ELSE old.items
  <2>1. CASE req[k].op # "del" /\ req[k].pc = "done"
    <3>1. P = [old EXCEPT !.busy = old.busy /\ ~here, !.going = Editing(t)]
      BY <2>1 DEF After
    <3>2. (old.busy /\ ~here) \in BOOLEAN /\ Editing(t) \in BOOLEAN
      BY DEF Editing
    <3>3. (old.busy /\ ~here) = IF here THEN FALSE ELSE old.busy
      BY <1>1 DEF TabRec
    <3> HIDE DEF P
    <3> QED
      BY <1>1, <2>1, <3>1, <3>2, <3>3 DEF TabRec
  <2>2. CASE req[k].op # "del" /\ req[k].pc # "done" /\ here
    <3>1. P = [old EXCEPT !.busy = FALSE, !.err = TRUE]
      BY <2>2 DEF After, SaveFailed
    <3> HIDE DEF P
    <3> QED
      BY <1>1, <2>2, <3>1 DEF TabRec
  <2>3. CASE req[k].op = "del" /\ req[k].pc = "done" /\ here
    <3>1. P = [old EXCEPT !.items = ItemsAfter(k)]
      BY <2>3 DEF After
    <3>2. ItemsAfter(k) \in SUBSET Ids
      BY <1>1 DEF ItemsAfter, ClientRec
    <3> HIDE DEF P
    <3> QED
      BY <1>1, <2>3, <3>1, <3>2 DEF TabRec
  <2>4. CASE \/ req[k].op # "del" /\ req[k].pc # "done" /\ ~here
             \/ req[k].op = "del" /\ ~(req[k].pc = "done" /\ here)
    <3>1. P = old
      BY <2>4 DEF After
    <3> QED
      BY <1>1, <2>4, <3>1
  <2> QED
    BY <2>1, <2>2, <2>3, <2>4
<1>7. tab' = [tab EXCEPT ![t] = P]
  BY <1>2
<1> HIDE DEF P
<1>8. /\ Sent(t, k) /\ req[k].op # "del" => P.busy = FALSE
      /\ ~(Sent(t, k) /\ req[k].op # "del") => P.busy = tab[t].busy
      /\ Sent(t, k) /\ req[k].op = "del" /\ req[k].pc = "done" => P.items = ItemsAfter(k)
      /\ ~(Sent(t, k) /\ req[k].op = "del" /\ req[k].pc = "done") => P.items = tab[t].items
  BY <1>4, <1>6
<1>9. /\ P \in TabRec /\ P.page = tab[t].page /\ P.inst = tab[t].inst /\ P.moves = tab[t].moves
      /\ P.loaded = tab[t].loaded
  BY <1>6
<1>10. Answered(k) /\ ~client[k].got /\ UNCHANGED storeVars
  BY <1>2
<1>11. client' = [client EXCEPT ![k].got = TRUE]
  BY <1>2
<1> HIDE DEF here, old
<1> QED
  BY <1>0, <1>7, <1>8, <1>9, <1>10, <1>11, AnswerStays

\* The list a committed save asked for is there.
LEMMA ArriveKeeps ==
  ASSUME AdminInv, NEW t \in Tabs, Arrive(t)
  PROVE  AdminInv'
<1> DEFINE m == tab[t].moves
           P == Page("list", NoReq.p, m)
<1>1. m \in Nat /\ client \in [Reqs -> ClientRec] /\ NoReq.p \in Ids
  BY AdminTypes, NoReqFacts DEF AdminInv, Request
<1>2. tab' = [tab EXCEPT ![t] = P] /\ UNCHANGED <<storeVars, client>>
  BY DEF Arrive
<1>3. \A j \in Reqs : client'[j].got => Answered(j)
  BY <1>2 DEF AdminInv, ClientFits
<1>4. P.inst >= m /\ P.moves >= P.inst
  BY <1>1 DEF Page
<1> HIDE DEF m
<1>5. P \in TabRec /\ P.busy = FALSE /\ P.items = {}
  BY <1>1, EmptyForm DEF Page, TabRec
<1> HIDE DEF P
<1> QED
  BY <1>1, <1>2, <1>3, <1>4, <1>5, FreshPage DEF m

LEMMA SaveKeeps ==
  ASSUME AdminInv, NEW t \in Tabs, NEW k \in Reqs, Save(t, k)
  PROVE  AdminInv'
<1> DEFINE op == IF tab[t].page = "new" THEN "post" ELSE "put"
           p == tab[t].p
           P == [tab[t] EXCEPT !.busy = TRUE, !.err = FALSE, !.moves = @ + 1]
<1>1. tab[t] \in TabRec /\ tab[t].moves \in Nat /\ p \in Ids
  BY AdminTypes DEF TabRec
<1>2. /\ P \in TabRec /\ P.page = tab[t].page /\ P.inst = tab[t].inst
      /\ P.moves = tab[t].moves + 1 /\ P.items = tab[t].items /\ P.loaded = tab[t].loaded
      /\ P.busy = TRUE
  <2>1. /\ P = [tab[t] EXCEPT !.busy = TRUE, !.err = FALSE, !.moves = tab[t].moves + 1]
        /\ tab[t].moves + 1 \in Nat
    BY <1>1
  <2> HIDE DEF P
  <2> QED
    BY <1>1, <2>1 DEF TabRec
<1>3. tab[t].busy = FALSE /\ Editing(t)
  BY <1>1 DEF Save, CanSave, TabRec
<1>4. Send(t, k, op, p) /\ tab' = [tab EXCEPT ![t] = P]
  BY DEF Save
<1>5. op \in {"put", "post", "del"} /\ op # "del"
  OBVIOUS
<1> HIDE DEF op, p, P
<1> QED
  BY <1>1, <1>2, <1>3, <1>4, <1>5, SendKeeps

LEMMA DelKeeps ==
  ASSUME AdminInv, NEW t \in Tabs, NEW k \in Reqs, NEW p \in Ids, Del(t, k, p)
  PROVE  AdminInv'
<1> DEFINE op == "del"
           P == [tab[t] EXCEPT !.moves = @ + 1]
<1>1. tab[t] \in TabRec /\ tab[t].moves \in Nat /\ TabFits(t)
  BY AdminTypes DEF AdminInv
<1>2. /\ P \in TabRec /\ P.page = tab[t].page /\ P.inst = tab[t].inst
      /\ P.moves = tab[t].moves + 1 /\ P.items = tab[t].items /\ P.loaded = tab[t].loaded
      /\ P.busy = tab[t].busy
  <2>1. P = [tab[t] EXCEPT !.moves = tab[t].moves + 1] /\ tab[t].moves + 1 \in Nat
    BY <1>1
  <2> HIDE DEF P
  <2> QED
    BY <1>1, <2>1 DEF TabRec
<1>3. tab[t].page = "list" /\ tab[t].loaded
  BY <1>1 DEF Del, TabFits
<1>4. Send(t, k, op, p) /\ tab' = [tab EXCEPT ![t] = P]
  BY DEF Del
<1>5. op \in {"put", "post", "del"} /\ op = "del"
  OBVIOUS
<1> HIDE DEF op, P
<1> QED
  BY <1>2, <1>3, <1>4, <1>5, SendKeeps

-------------------------------------------------------------------------------
(* What a step of request k does to the requests.                          *)

LEMMA ServeMoves ==
  ASSUME StoreInv, NEW k \in Reqs, Serve(k)
  PROVE  /\ InService(k) /\ req'[k].pc # "none"
         /\ req'[k].op = req[k].op /\ (req[k].op = "del" => req'[k].p = req[k].p)
         /\ \A j \in Reqs : j # k => req'[j] = req[j]
<1>1. req \in [Reqs -> Request] /\ req[k] \in Request /\ PathFits(req[k])
  BY DEF StoreInv, StoreTypes
<1>2. /\ req[k].op \in {"put", "post", "del"}
      /\ req[k].pc = "tags" => req[k].op # "del"
      /\ req[k].pc \in {"update", "create"} => req[k].op # "del"
  BY <1>1 DEF PathFits, Request
<1>3. CASE EnsureTag(k)
  BY <1>1, <1>2, <1>3 DEF EnsureTag, InService, First, Request
<1>4. CASE Look(k)
  BY <1>1, <1>4 DEF Look, InService, Request
<1>5. CASE Delete(k)
  BY <1>1, <1>5 DEF Delete, InService, Request
<1>6. CASE Update(k)
  BY <1>1, <1>2, <1>6 DEF Update, Insert, Rollback, InService, Request
<1>7. CASE Create(k)
  BY <1>1, <1>2, <1>7 DEF Create, Insert, Rollback, InService, Request
<1>8. CASE Erase(k)
  BY <1>1, <1>8 DEF Erase, Step, Rollback, InService, Request
<1>9. CASE CommitDelete(k)
  BY <1>1, <1>9 DEF CommitDelete, InService, Request
<1>10. CASE DeadlockVictim(k)
  BY <1>1, <1>10, DeadlockVictimKeeps DEF DeadlockVictim, Rollback, Request
<1> QED
  BY <1>3, <1>4, <1>5, <1>6, <1>7, <1>8, <1>9, <1>10 DEF Serve

LEMMA ServeAdmin ==
  ASSUME AdminInv, NEW k \in Reqs, Serve(k), UNCHANGED <<tab, client>>
  PROVE  AdminInv'
<1>1. StoreInv
  BY DEF AdminInv
<1>2. StoreInv'
  BY <1>1, ServeKeeps
<1>3. ASSUME NEW j \in Reqs
      PROVE  /\ req'[j].pc = "none" <=> req[j].pc = "none"
             /\ req'[j].op = req[j].op
             /\ req[j].op = "del" => req'[j].p = req[j].p
             /\ Answered(j) => req'[j] = req[j]
  BY <1>1, ServeMoves DEF InService, Answered
<1> QED
  BY <1>2, <1>3, StoreOnly

LEMMA AdminStep ==
  ASSUME AdminInv, [Next]_vars
  PROVE  AdminInv'
<1>1. CASE UNCHANGED vars
  <2>1. UNCHANGED storeVars /\ UNCHANGED <<tab, client>>
    BY <1>1 DEF vars
  <2>2. StoreInv'
    BY <2>1 DEF AdminInv, StoreInv, StoreTypes, HoldInv, AloneInv, LiveInv, SaveIsWhole,
       SaveReplaces, InService, Committed, Fresh, BeforeFits, ClearFits, storeVars
  <2>3. req' = req
    BY <2>1 DEF storeVars
  <2>4. \A j \in Reqs : /\ req'[j].pc = "none" <=> req[j].pc = "none"
                        /\ req'[j].op = req[j].op
                        /\ req[j].op = "del" => req'[j].p = req[j].p
                        /\ Answered(j) => req'[j] = req[j]
    BY <2>3
  <2> QED
    BY <2>1, <2>2, <2>4, StoreOnly
<1>2. CASE \E t \in Tabs, p \in Ids, page \in {"list", "edit", "new"} : Open(t, page, p)
  BY <1>2, OpenKeeps
<1>3. CASE \E t \in Tabs : Edit(t)
  BY <1>3, EditKeeps
<1>4. CASE \E t \in Tabs : Load(t)
  BY <1>4, LoadKeeps
<1>5. CASE \E t \in Tabs, k \in Reqs : Save(t, k)
  BY <1>5, SaveKeeps
<1>6. CASE \E t \in Tabs, k \in Reqs, p \in Ids : Del(t, k, p)
  BY <1>6, DelKeeps
<1>7. CASE \E k \in Reqs : Answer(k)
  BY <1>7, AnswerKeeps
<1>8. CASE \E k \in Reqs : Serve(k) /\ UNCHANGED <<tab, client>>
  BY <1>8, ServeAdmin
<1>9. CASE \E t \in Tabs : Arrive(t)
  BY <1>9, ArriveKeeps
<1> QED
  BY <1>1, <1>2, <1>3, <1>4, <1>5, <1>6, <1>7, <1>8, <1>9 DEF Next

-------------------------------------------------------------------------------
(* What the invariant means.                                               *)

LEMMA AdminMeans ==
  ASSUME AdminInv
  PROVE  PagesInv
<1>1. StoreTypeOK
  BY DEF AdminInv, StoreInv, StoreTypes, StoreTypeOK, Request
<1>2. TypeOK
  BY <1>1 DEF AdminInv, TypeOK, TabRec, ClientRec
<1>3. ASSUME NEW t \in Tabs
      PROVE  /\ tab[t].busy = (Waiting(t, Saves) # {})
             /\ Cardinality(Waiting(t, Saves)) <= 1
  <2>1. TabFits(t) /\ tab[t].busy \in BOOLEAN
    BY AdminTypes DEF AdminInv, TabRec
  <2> DEFINE W == Waiting(t, Saves)
  <2>2. (tab[t].busy <=> W # {}) /\ \A j, k \in W : j = k
    BY <2>1 DEF TabFits
  <2> HIDE DEF W
  <2>3. tab[t].busy = (W # {})
    BY <2>1, <2>2
  <2>4. CASE W = {}
    BY <2>3, <2>4, FS_EmptySet DEF W
  <2>5. CASE W # {}
    <3>1. PICK j : j \in W
      BY <2>5
    <3>2. W = {j}
      BY <2>2, <3>1
    <3>3. Cardinality(W) = 1
      BY <3>2, FS_Singleton
    <3> QED
      BY <2>3, <3>3 DEF W
  <2> QED
    BY <2>4, <2>5 DEF W
<1>4. OneSaveAtATime
  BY <1>3 DEF OneSaveAtATime, Saves
<1>5. ListForgets
  BY DEF AdminInv, SentFits, ListForgets
<1> QED
  BY <1>2, <1>4, <1>5 DEF PagesInv

\* The tables a save that had them to itself has cleared hold nothing of its
\* problem any more when it writes.
LEMMA AloneIsClear ==
  ASSUME StoreInv, NEW k \in Reqs, req[k].alone, req[k].pc = "update"
  PROVE  ~Clashes(k)
<1>1. ClearFits(req[k]) /\ rows \subseteq Row /\ req[k].form \in Form /\ req[k].p \in Ids
      /\ k \in 0..MaxReqs
  BY ReqFacts DEF StoreInv, StoreTypes, Request
<1>2. \A n \in RowsOf(req[k].p, req[k].form, k) : n.p = req[k].p
  BY <1>1, RowsOfFacts
<1>3. ASSUME NEW r \in rows, r.p = req[k].p PROVE r \in req[k].dead
  <2>1. Meets(req[k], r) /\ r.kind \in Through(req[k])
    BY <1>1, <1>3, KindFacts DEF Meets, Through
  <2> QED
    BY <1>1, <2>1 DEF ClearFits
<1> QED
  BY <1>2, <1>3 DEF Clashes

\* A request that is alone waits for nobody.
LEMMA AloneIsFree ==
  ASSUME StoreInv, NEW k \in Reqs, req[k].alone, InService(k)
  PROVE  Blockers(k) = {}
<1>1. ASSUME NEW j \in Blockers(k) PROVE FALSE
  <2>1. j \in Reqs /\ j # k /\ PathFits(req[j])
    BY DEF Blockers, StoreInv
  <2>2. req[j].dead # {} \/ (\E p : Holds(j, p))
    BY <1>1 DEF Blockers
  <2>3. InService(j)
    BY <2>1, <2>2 DEF PathFits, Holds, InService
  <2> QED
    BY <2>1, <2>3 DEF StoreInv, AloneInv
<1> QED
  BY <1>1

LEMMA FailureStep ==
  ASSUME AdminInv, [Next]_vars, NEW k \in Reqs, req[k].alone, InService(k),
         req'[k].pc = "failed"
  PROVE  \/ req[k].op # "post" /\ req[k].p \notin live
         \/ req[k].op # "del" /\ (Repeats(req[k].form) \/ SlugHolders(k) # {})
<1>1. /\ StoreInv /\ req \in [Reqs -> Request] /\ PathFits(req[k]) /\ req[k] \in Request
      /\ req[k].pc \notin {"none", "failed"}
  BY DEF AdminInv, StoreInv, StoreTypes, InService
<1>2. CASE UNCHANGED storeVars
  BY <1>1, <1>2 DEF storeVars
<1>3. ASSUME NEW t \in Tabs, NEW j \in Reqs, NEW op, NEW p, Send(t, j, op, p) PROVE FALSE
  <2>1. req[j].pc = "none" /\ req'[k].pc = req[k].pc
    BY <1>1, <1>3 DEF Send, Receive, Request
  <2> QED
    BY <1>1, <2>1
<1>4. ASSUME NEW j \in Reqs, j # k, Serve(j) PROVE FALSE
  <2>1. req'[k] = req[k]
    BY <1>1, <1>4, ServeMoves
  <2> QED
    BY <1>1, <2>1
<1>5. CASE Serve(k)
  <2>1. ~EnsureTag(k) /\ ~Look(k) /\ ~Delete(k) /\ ~CommitDelete(k)
    <3>1. CASE EnsureTag(k)
      BY <1>1, <3>1 DEF EnsureTag, First, Request
    <3>2. CASE Look(k)
      BY <1>1, <3>2 DEF Look, Request
    <3>3. CASE Delete(k)
      BY <1>1, <3>3 DEF Delete, Request
    <3>4. CASE CommitDelete(k)
      BY <1>1, <3>4 DEF CommitDelete, Request
    <3> QED
      BY <3>1, <3>2, <3>3, <3>4
  <2>2. ~DeadlockVictim(k)
    BY <1>1, AloneIsFree, DeadlockVictimKeeps
  <2>3. ASSUME NEW p PROVE ~Insert(k, p)
    BY <1>1, <2>3 DEF Insert, Request
  <2>4. CASE Update(k)
    <3>1. req[k].pc = "update" /\ req[k].op = "put" /\ ~Clashes(k)
      BY <1>1, <2>4, AloneIsClear DEF Update, PathFits
    <3> QED
      BY <2>3, <2>4, <3>1 DEF Update
  <2>5. CASE Create(k)
    BY <1>1, <2>3, <2>5 DEF Create, PathFits
  <2>6. CASE Erase(k)
    <3>1. ~Step(k, "look")
      BY <1>1 DEF Step, Request
    <3> QED
      BY <1>1, <2>6, <3>1 DEF Erase, PathFits
  <2> QED
    BY <1>5, <2>1, <2>2, <2>4, <2>5, <2>6 DEF Serve
<1>6. \/ UNCHANGED storeVars
      \/ \E t \in Tabs, j \in Reqs : \E op, p : Send(t, j, op, p)
      \/ \E j \in Reqs : Serve(j)
  BY DEF Next, vars, Open, Edit, Load, Answer, Save, Del, Arrive
<1> QED
  BY <1>2, <1>3, <1>4, <1>5, <1>6

LEMMA AdminSafe == Spec => []AdminInv
<1>1. Init => AdminInv
  BY InitAdmin
<1>2. AdminInv /\ [Next]_vars => AdminInv'
  BY AdminStep
<1> QED
  BY <1>1, <1>2, PTL DEF Spec

-------------------------------------------------------------------------------
(* The theorems.                                                           *)

\* The store and the tabs hold what their types say; "Saving..." shows exactly
\* while a save of the page is under way, and there is one at most; and a list
\* still shows a deleted problem only for deletions that crossed.  For every
\* number of tabs, problems and requests, and forms of every length.
THEOREM AdminPagesKept == Spec => []PagesInv
<1>1. AdminInv => PagesInv
  BY AdminMeans
<1> QED
  BY <1>1, AdminSafe, PTL

\* A problem holds all rows of its last committed save, whatever overlapped it,
\* and a deleted problem leaves no row behind.
THEOREM SavesAreWhole == Spec => []SaveIsWhole
<1>1. AdminInv => SaveIsWhole
  BY DEF AdminInv, StoreInv
<1> QED
  BY <1>1, AdminSafe, PTL

\* The deleteMany calls of a committed PUT have left nothing of the saves that
\* were committed when its transaction began.
THEOREM SavesReplace == Spec => []SaveReplaces
<1>1. AdminInv => SaveReplaces
  BY DEF AdminInv, StoreInv
<1> QED
  BY <1>1, AdminSafe, PTL

\* A request that no other one overlapped never fails on a unique index or a
\* deadlock of the store's own making: only for what the administrator asked.
THEOREM FailuresExplained == Spec => FailureExplained
<1>1. AdminInv /\ [Next]_vars =>
        [\A k \in Reqs : req[k].alone /\ InService(k) /\ req'[k].pc = "failed" =>
           \/ req[k].op # "post" /\ req[k].p \notin live
           \/ req[k].op # "del" /\ (Repeats(req[k].form) \/ SlugHolders(k) # {})]_storeVars
  BY FailureStep
<1> QED
  BY <1>1, AdminSafe, PTL DEF Spec, FailureExplained
================================================================================
