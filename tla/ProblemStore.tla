----------------------------- MODULE ProblemStore -----------------------------
(***************************************************************************)
(* The write requests of routes/admin.ts on the problem tables: POST, PUT  *)
(* and DELETE /problems.  A request is cut at its awaits and, inside a     *)
(* transaction, at its statements, because PostgreSQL runs them READ       *)
(* COMMITTED: a DELETE statement sees the rows committed when it starts,   *)
(* then waits for the transactions that hold one of them.  A row they      *)
(* deleted is skipped, a row they inserted was never seen.                 *)
(***************************************************************************)
EXTENDS Integers, Sequences, FiniteSets

CONSTANTS
  Ids, Initial,            \* problem ids, the problems there at the start
  Slugs, Langs, TagNames,
  InitForm,                \* [Initial -> Form], what those problems hold
  MaxReqs                  \* bound: write requests

Reqs == 1..MaxReqs

\* zod's problemSchema, as far as a row depends on it.  "filled": slug, title
\* and statement are there and the slug is url-safe.
Form == [filled : BOOLEAN, slug : Slugs, langs : Seq(Langs), tests : Nat, tags : Seq(TagNames)]

ASSUME StoreAssumption ==
  /\ IsFiniteSet(Ids) /\ Ids # {} /\ Initial \subseteq Ids /\ InitForm \in [Initial -> Form]
  /\ Slugs # {} /\ MaxReqs \in Nat
  /\ \A p, q \in Initial : p # q => InitForm[p].slug # InitForm[q].slug

VARIABLES
  live, slug,   \* rows of Problem
  tag,          \* rows of Tag
  rows,         \* rows of StarterCode, TestCase and ProblemTag, and who wrote them
  req,          \* the write requests
  last          \* the last committed save of every problem (history)

storeVars == <<live, slug, tag, rows, req, last>>

\* The tables a PUT clears before it writes, and the tables that cascade.
\* (KindsNoTests and KindsNoStarters: a table forgotten.)
KindsNoTests == <<"starter", "link", "link">>
KindsNoStarters == <<"test", "test", "link">>
Kinds == <<"starter", "test", "link">>
Items(s) == {s[i] : i \in DOMAIN s}

TestKeys(f) == 1..f.tests
Row == [p : Ids, kind : {"starter"}, key : Langs, by : 0..MaxReqs]
         \cup [p : Ids, kind : {"test"}, key : Nat \ {0}, by : 0..MaxReqs]
         \cup [p : Ids, kind : {"link"}, key : TagNames, by : 0..MaxReqs]

\* The nested creates of a payload.
RowsOf(p, f, k) ==
  {[p |-> p, kind |-> "starter", key |-> l, by |-> k] : l \in Items(f.langs)}
    \cup {[p |-> p, kind |-> "test", key |-> i, by |-> k] : i \in TestKeys(f)}
    \cup {[p |-> p, kind |-> "link", key |-> g, by |-> k] : g \in Items(f.tags)}

NoForm == [filled |-> FALSE, slug |-> CHOOSE s \in Slugs : TRUE, langs |-> <<>>,
           tests |-> 0, tags |-> <<>>]
NoReq == [pc |-> "none", op |-> "put", p |-> CHOOSE p \in Ids : TRUE, form |-> NoForm,
          todo |-> <<>>, at |-> 1, seen |-> {}, dead |-> {}, before |-> {}, alone |-> TRUE]

StoreInit ==
  /\ live = Initial
  /\ slug = [p \in Ids |-> IF p \in Initial THEN InitForm[p].slug ELSE NoForm.slug]
  /\ tag = UNION {Items(InitForm[p].tags) : p \in Initial}
  /\ rows = UNION {RowsOf(p, InitForm[p], 0) : p \in Initial}
  /\ req = [k \in Reqs |-> NoReq]
  /\ last = [p \in Ids |-> 0]

InService(k) == req[k].pc \in {"tags", "look", "wait", "update", "create", "erase", "commit"}
Answered(k)  == req[k].pc \in {"done", "failed", "refused"}
Step(k, pc)  == req' = [req EXCEPT ![k].pc = pc]
Rollback(k)  == req' = [req EXCEPT ![k].pc = "failed", ![k].seen = {}, ![k].dead = {}]

-------------------------------------------------------------------------------
\* Where a request goes when its tags are there: $transaction, or the one create.
First(op) == IF op = "put" THEN "look" ELSE "create"

\* A request arrives: the body is parsed, a DELETE has none.
Receive(k, op, p, f) ==
  /\ req[k].pc = "none"
  /\ LET pc == IF op = "del" THEN "erase" ELSE IF ~f.filled THEN "refused"
               ELSE IF f.tags # <<>> THEN "tags" ELSE First(op)
         r  == [NoReq EXCEPT !.pc = pc, !.op = op, !.p = p, !.form = f, !.todo = f.tags,
                             !.alone = \A j \in Reqs : ~InService(j)]
     IN req' = [j \in Reqs |-> IF j = k THEN r
                               ELSE [req[j] EXCEPT !.alone = @ /\ ~InService(j)]]
  /\ UNCHANGED <<live, slug, tag, rows, last>>

\* ensureTags: one upsert after the other, outside the transaction.
EnsureTag(k) ==
  /\ req[k].pc = "tags"
  /\ tag' = tag \cup {Head(req[k].todo)}
  /\ req' = [req EXCEPT ![k].todo = Tail(@),
                        ![k].pc = IF Len(req[k].todo) > 1 THEN @ ELSE First(req[k].op)]
  /\ UNCHANGED <<live, slug, rows, last>>

Committed == {j \in Reqs : req[j].pc = "done"}

\* The rows of the deleteMany, or of the cascade, request k has come to.
Target(k) == {r \in rows : r.p = req[k].p /\ r.kind = Kinds[req[k].at]}

\* The statement takes its snapshot ...
Look(k) ==
  /\ req[k].pc = "look"
  /\ req' = [req EXCEPT ![k].pc = "wait", ![k].seen = Target(k),
                        ![k].before = IF req[k].at = 1 THEN {0} \cup Committed ELSE @]
  /\ UNCHANGED <<live, slug, tag, rows, last>>

\* Request k deletes the problem itself and has not committed: it holds that row.
Holds(k, p) == req[k].op = "del" /\ req[k].p = p /\ req[k].pc \in {"look", "wait", "commit"}
SlugHolders(k) == {q \in live \ {req[k].p} : slug[q] = req[k].form.slug}

\* The transactions request k has to wait for at its next statement.
Blockers(k) == {j \in Reqs \ {k} :
  \/ req[k].pc = "wait" /\ req[j].dead \cap req[k].seen # {}
  \/ req[k].pc \in {"update", "erase"} /\ Holds(j, req[k].p)
  \/ req[k].pc \in {"update", "create"} /\ \E q \in SlugHolders(k) : Holds(j, q)}

\* ... and deletes what is left of what it saw.
Delete(k) ==
  /\ req[k].pc = "wait" /\ Blockers(k) = {}
  /\ req' = [req EXCEPT ![k].seen = {}, ![k].dead = @ \cup (req[k].seen \cap rows),
       ![k].at = IF @ < 3 THEN @ + 1 ELSE @,
       ![k].pc = IF req[k].at < 3 THEN "look"
                 ELSE IF req[k].op = "put" THEN "update" ELSE "commit"]
  /\ UNCHANGED <<live, slug, tag, rows, last>>

\* The unique indexes: a language twice or a tag twice in the payload, or one
\* another save has left there.
Repeats(f) == Len(f.langs) # Cardinality(Items(f.langs)) \/ Len(f.tags) # Cardinality(Items(f.tags))
Clashes(k) == \E r \in rows \ req[k].dead, n \in RowsOf(req[k].p, req[k].form, k) :
                r.p = n.p /\ r.kind = n.kind /\ r.kind # "test" /\ r.key = n.key

\* The rows after the creates; had the deleteMany of the tests come last.
AfterCreatesLast(k, p) == {r \in rows \cup RowsOf(p, req[k].form, k) : r.p # p \/ r.kind # "test"}
AfterCreates(k, p) == (rows \ req[k].dead) \cup RowsOf(p, req[k].form, k)

Insert(k, p) ==
  /\ rows' = AfterCreates(k, p)
  /\ slug' = [slug EXCEPT ![p] = req[k].form.slug]
  /\ last' = [last EXCEPT ![p] = k]
  /\ req' = [req EXCEPT ![k].pc = "done", ![k].dead = {}, ![k].p = p]

\* The last statement of the transaction, its nested creates and the COMMIT:
\* once it has the problem row it waits for nobody.
Update(k) ==
  /\ req[k].pc = "update" /\ Blockers(k) = {}
  /\ \/ /\ req[k].p \in live /\ SlugHolders(k) = {} /\ ~Repeats(req[k].form) /\ ~Clashes(k)
        /\ Insert(k, req[k].p) /\ UNCHANGED <<live, tag>>
     \/ /\ req[k].p \notin live \/ SlugHolders(k) # {} \/ Repeats(req[k].form) \/ Clashes(k)
        /\ Rollback(k) /\ UNCHANGED <<live, slug, tag, rows, last>>

Fresh == Ids \ (Initial \cup {req[j].p : j \in {i \in Committed : req[i].op = "post"}})

Create(k) ==
  /\ req[k].pc = "create" /\ Blockers(k) = {}
  /\ \/ /\ SlugHolders(k) = {} /\ ~Repeats(req[k].form)
        /\ \E p \in Fresh : Insert(k, p) /\ live' = live \cup {p}
        /\ UNCHANGED tag
     \/ /\ SlugHolders(k) # {} \/ Repeats(req[k].form)
        /\ Rollback(k) /\ UNCHANGED <<live, slug, tag, rows, last>>

\* DELETE takes the problem row first; its foreign keys then delete the rows
\* that refer to it, table by table.
Erase(k) ==
  /\ req[k].pc = "erase" /\ Blockers(k) = {}
  /\ \/ req[k].p \in live /\ Step(k, "look")
     \/ req[k].p \notin live /\ Rollback(k)
  /\ UNCHANGED <<live, slug, tag, rows, last>>

CommitDelete(k) ==
  /\ req[k].pc = "commit"
  /\ live' = live \ {req[k].p} /\ rows' = rows \ req[k].dead
  /\ req' = [req EXCEPT ![k].pc = "done", ![k].dead = {}]
  /\ UNCHANGED <<slug, tag, last>>

\* PostgreSQL aborts a transaction of a cycle of waiting ones.
DeadlockVictim(k) ==
  /\ \E S \in SUBSET Reqs :
       /\ k \in S
       /\ \A j \in S : Blockers(j) \cap S # {} /\ \E i \in S : j \in Blockers(i)
  /\ Rollback(k)
  /\ UNCHANGED <<live, slug, tag, rows, last>>

Serve(k) == \/ EnsureTag(k) \/ Look(k) \/ Delete(k) \/ Update(k) \/ Create(k)
            \/ Erase(k) \/ CommitDelete(k) \/ DeadlockVictim(k)

-------------------------------------------------------------------------------
StoreTypeOK ==
  /\ live \subseteq Ids /\ slug \in [Ids -> Slugs] /\ tag \subseteq TagNames
  /\ rows \subseteq Row
  /\ \A k \in Reqs : req[k].form \in Form /\ req[k].dead \cup req[k].seen \subseteq Row
  /\ last \in [Ids -> 0..MaxReqs]

\* A save that was committed has replaced everything that was saved before its
\* transaction began: no starter code, test or tag link of an earlier save is
\* left.  (Of a save that overlapped it, something may be left: the snapshot of
\* a deleteMany does not see what a transaction it waits for inserts.)
SaveReplaces == \A k \in Committed : \A r \in rows :
                  req[k].op = "put" /\ r.p = req[k].p => r.by \notin req[k].before

\* A problem holds all of its last committed save, whatever ran beside it, and
\* a problem that is gone has left nothing behind.
SaveIsWhole ==
  /\ \A p \in live : RowsOf(p, IF last[p] = 0 THEN InitForm[p] ELSE req[last[p]].form, last[p])
                       \subseteq rows
  /\ \A r \in rows : r.p \in live /\ (r.kind = "link" => r.key \in tag)

\* A request that had the tables to itself fails only for what the
\* administrator did: a language or a tag twice in the form, a slug another
\* problem has, or a problem that is no longer there.
FailureExplained == [][\A k \in Reqs :
  req[k].alone /\ InService(k) /\ req'[k].pc = "failed" =>
    \/ req[k].op # "post" /\ req[k].p \notin live
    \/ req[k].op # "del" /\ (Repeats(req[k].form) \/ SlugHolders(k) # {})]_storeVars
===============================================================================
