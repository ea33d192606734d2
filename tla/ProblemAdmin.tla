----------------------------- MODULE ProblemAdmin -----------------------------
(***************************************************************************)
(* The administrator's pages app/admin/page.tsx and                        *)
(* app/admin/problems/[id]/page.tsx in several browser tabs, against       *)
(* ProblemStore.  A page instance is known by the move that opened it: an  *)
(* answer that arrives after the page was left sets the state of nobody,   *)
(* but the rest of the function that awaited it still runs.                *)
(***************************************************************************)
EXTENDS ProblemStore, SequencesExt

CONSTANTS
  Tabs,
  MaxMoves, MaxItems   \* bounds: what the user of a tab does; items of a list
                       \* the user puts in a form

ASSUME AdminAssumption == /\ Tabs # {} /\ MaxMoves \in [Tabs -> Nat] /\ MaxItems \in Nat
                          /\ 71 \in Langs

VARIABLES
  tab,          \* the page each tab shows
  client        \* of every request: who sent it, and the list it closed over

vars == <<storeVars, tab, client>>

EMPTY == [NoForm EXCEPT !.langs = <<71>>, !.tests = 1]

Page(page, p, m) == [page |-> page, p |-> p, inst |-> m, moves |-> m, form |-> EMPTY,
                     loaded |-> page = "new", items |-> {}, busy |-> FALSE, err |-> FALSE,
                     going |-> FALSE]
NoClient == [tab |-> CHOOSE t \in Tabs : TRUE, inst |-> 0, items |-> {}, got |-> FALSE,
             crossed |-> FALSE]

Init ==
  /\ StoreInit
  /\ tab = [t \in Tabs |-> [Page("list", NoReq.p, 0) EXCEPT !.loaded = TRUE, !.items = Initial]]
  /\ client = [k \in Reqs |-> NoClient]

Moves(t)  == tab[t].moves < MaxMoves[t]
Editing(t) == tab[t].page \in {"edit", "new"}
NextReq == {k \in Reqs : req[k].pc = "none" /\ \A j \in 1..k-1 : req[j].pc # "none"}
Sent(t, k) == req[k].pc # "none" /\ client[k].tab = t /\ client[k].inst = tab[t].inst
Waiting(t, op) == {k \in Reqs : Sent(t, k) /\ ~client[k].got /\ req[k].op \in op}

-------------------------------------------------------------------------------
(* What the user does.                                                     *)

Open(t, page, p) ==
  /\ Moves(t)
  /\ \/ page = "edit" /\ tab[t].page = "list" /\ p \in tab[t].items
     \/ page = "new" /\ tab[t].page = "list" /\ p = NoReq.p
     \/ page = "list" /\ Editing(t) /\ p = NoReq.p              \* Cancel
  /\ tab' = [tab EXCEPT ![t] = Page(page, p, tab[t].moves + 1)]
  /\ UNCHANGED <<storeVars, client>>

AddStarter(f)    == {[f EXCEPT !.langs = Append(@, 71)]}
ChooseLanguage(f) == {[f EXCEPT !.langs[i] = l] : i \in DOMAIN f.langs, l \in Langs}
RemoveStarter(f) == {[f EXCEPT !.langs = RemoveAt(@, i)] : i \in DOMAIN f.langs}
AddTest(f)       == {[f EXCEPT !.tests = @ + 1]}
RemoveTest(f)    == {[f EXCEPT !.tests = @ - 1]}
TypeSlug(f)      == {[f EXCEPT !.slug = s, !.filled = TRUE] : s \in Slugs}
TypeTags(f)      == {[f EXCEPT !.tags = Append(@, g)] : g \in TagNames}

Small(f) == Len(f.langs) <= MaxItems /\ f.tests <= MaxItems /\ Len(f.tags) <= MaxItems
Edits(f) == {g \in (AddStarter(f) \cup ChooseLanguage(f) \cup RemoveStarter(f) \cup AddTest(f)
                     \cup RemoveTest(f) \cup TypeSlug(f) \cup TypeTags(f)) \cap Form : Small(g)}

\* No input is disabled, neither while the page loads nor while it saves.
Edit(t) ==
  /\ tab[t].moves + 1 < MaxMoves[t] /\ Editing(t)   \* bound: a move is left to save
  /\ \E f \in Edits(tab[t].form) \ {tab[t].form} :
       tab' = [tab EXCEPT ![t].form = f, ![t].moves = @ + 1]
  /\ UNCHANGED <<storeVars, client>>

Send(t, k, op, p) ==
  /\ k \in NextReq /\ Receive(k, op, p, tab[t].form)
  /\ client' = [j \in Reqs |->
       IF j = k THEN [tab |-> t, inst |-> tab[t].inst, items |-> tab[t].items, got |-> FALSE,
                      crossed |-> Waiting(t, {"del"}) # {}]
       ELSE [client[j] EXCEPT !.crossed = @ \/ (op = "del" /\ j \in Waiting(t, {"del"}))]]

CanSave(t) == ~tab[t].busy

Save(t, k) ==
  /\ Moves(t) /\ Editing(t) /\ CanSave(t)
  /\ Send(t, k, IF tab[t].page = "new" THEN "post" ELSE "put", tab[t].p)
  /\ tab' = [tab EXCEPT ![t].busy = TRUE, ![t].err = FALSE, ![t].moves = @ + 1]

Del(t, k, p) ==
  /\ Moves(t) /\ tab[t].page = "list" /\ p \in tab[t].items
  /\ Send(t, k, "del", p)
  /\ tab' = [tab EXCEPT ![t].moves = @ + 1]

-------------------------------------------------------------------------------
(* What the pages do with an answer.                                       *)

FormOf(p) ==
  LET keys(kind) == {r.key : r \in {x \in rows : x.p = p /\ x.kind = kind}}
  IN [filled |-> TRUE, slug |-> slug[p], langs |-> SetToSeq(keys("starter")),
      tests |-> Cardinality({r \in rows : r.p = p /\ r.kind = "test"}),
      tags |-> SetToSeq(keys("link"))]

\* GET /problems or GET /problems/:id: the answer replaces what was typed.
Load(t) ==
  /\ ~tab[t].loaded
  /\ tab' = [tab EXCEPT ![t].loaded = TRUE,
       ![t].items = IF tab[t].page = "list" THEN live ELSE @,
       ![t].form = IF Editing(t) /\ tab[t].p \in live THEN FormOf(tab[t].p) ELSE @,
       ![t].err = Editing(t) /\ tab[t].p \notin live]
  /\ UNCHANGED <<storeVars, client>>

SaveFailedStillBusy(old) == [old EXCEPT !.err = TRUE]
SaveFailed(old) == [old EXCEPT !.busy = FALSE, !.err = TRUE]

\* The list as it was when Delete was clicked, without the problem.
ItemsAfterUnfiltered(k) == client[k].items
ItemsAfter(k) == client[k].items \ {req[k].p}

\* The tab after the answer of one of its requests.  A committed save asks the
\* router for the list, from wherever the tab has gone meanwhile; until it is
\* there the form stays, and Save is enabled again.
After(t, k) ==
  LET old == tab[t]  here == client[k].inst = old.inst IN
  CASE req[k].op # "del" /\ req[k].pc = "done" ->
         [old EXCEPT !.busy = @ /\ ~here, !.going = Editing(t)]
    [] req[k].op # "del" /\ req[k].pc # "done" /\ here ->
         SaveFailed(old)
    [] req[k].op = "del" /\ req[k].pc = "done" /\ here -> [old EXCEPT !.items = ItemsAfter(k)]
    [] OTHER -> old

Answer(k) ==
  /\ Answered(k) /\ ~client[k].got
  /\ client' = [client EXCEPT ![k].got = TRUE]
  /\ tab' = [tab EXCEPT ![client[k].tab] = After(client[k].tab, k)]
  /\ UNCHANGED storeVars

\* The router shows the list.
Arrive(t) ==
  /\ tab[t].going /\ tab' = [tab EXCEPT ![t] = Page("list", NoReq.p, tab[t].moves)]
  /\ UNCHANGED <<storeVars, client>>

Next ==
  \/ \E t \in Tabs : \/ \E p \in Ids, page \in {"list", "edit", "new"} : Open(t, page, p)
                     \/ Edit(t) \/ Load(t) \/ Arrive(t)
                     \/ \E k \in Reqs : Save(t, k) \/ \E p \in Ids : Del(t, k, p)
  \/ \E k \in Reqs : Answer(k) \/ (Serve(k) /\ UNCHANGED <<tab, client>>)

Fairness == \A k \in Reqs : WF_vars(Answer(k)) /\ WF_vars(Serve(k) /\ UNCHANGED <<tab, client>>)

Spec == Init /\ [][Next]_vars /\ Fairness

-------------------------------------------------------------------------------
TypeOK ==
  /\ StoreTypeOK
  /\ tab \in [Tabs -> [page : {"list", "edit", "new"}, p : Ids, inst : Nat,
       moves : Nat, form : Form, loaded : BOOLEAN, items : SUBSET Ids,
       busy : BOOLEAN, err : BOOLEAN, going : BOOLEAN]]
  /\ client \in [Reqs -> [tab : Tabs, inst : Nat, items : SUBSET Ids,
                          got : BOOLEAN, crossed : BOOLEAN]]

\* Save is disabled exactly as long as a save of this page is under way, so a
\* page never has two of them racing each other.
OneSaveAtATime == \A t \in Tabs :
  /\ tab[t].busy = (Waiting(t, {"put", "post"}) # {})
  /\ Cardinality(Waiting(t, {"put", "post"})) <= 1

\* The list still shows a problem whose deletion was answered only if another
\* deletion was clicked in the same list before that answer came (both filter
\* the list they closed over).
ListForgets == \A t \in Tabs, k \in Reqs :
  /\ Sent(t, k) /\ req[k].op = "del" /\ req[k].pc = "done" /\ client[k].got
  /\ tab[t].loaded /\ req[k].p \in tab[t].items
  => client[k].crossed

\* What the pages keep: their types, one save at a time, and a list that
\* forgets what it has deleted.
PagesInv == TypeOK /\ OneSaveAtATime /\ ListForgets

\* "Saving..." ends: the catch of every handler answers, PostgreSQL breaks
\* deadlocks, and the finally of save() runs.
SaveIsAnswered == \A t \in Tabs : tab[t].busy ~> ~tab[t].busy
===============================================================================
