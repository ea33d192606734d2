-------------------------- MODULE ProblemPage_proofs --------------------------
(***************************************************************************)
(* Theorems about ProblemPage, for every value of its constants.           *)
(***************************************************************************)
EXTENDS ProblemPage, TLAPS

PageRec == [kind : {"none", "problem", "detail"}, sub : Subs \cup {0},
            loaded : BOOLEAN, lang : Langs, code : Codes, next : Codes \cup {None},
            busy : BOOLEAN, err : BOOLEAN, run : BOOLEAN, shown : Subs \cup {0}, late : 0..2,
            verdict : {"none", "RUNNING", "AC", "WA"}, act : {"none", "run", "submit"},
            missed : BOOLEAN]
Tasks  == [kind : {"load", "run", "submit", "get", "timer"}, sub : Subs \cup {0}]
Lists  == {<<>>} \cup {<<x>> : x \in Tasks}
Drafts == [Langs -> Codes \cup {None}]
States == [Subs -> {"none", "RUNNING", "AC", "WA", "gone"}]

-------------------------------------------------------------------------------
(* The invariant: what a page may have under way, what the mounted page    *)
(* shows, and what it knows of the drafts.                                 *)

\* Task x belongs to a page p: its kind, its submission, and how late it is.
TaskFits(p, x, st) ==
  /\ x.kind \in {"run", "submit"} => p.kind = "problem"
  /\ x.kind \in {"get", "timer"} \/ p.kind = "detail" => x.sub \in Subs /\ st[x.sub] # "none"
  /\ p.kind = "detail" /\ x.kind = "timer" => p.late = 0

PlaceInv(i) ==
  /\ i <= cur <=> page[i].kind # "none"
  /\ i > cur => out[i] = <<>>
  /\ \A x \in Tasks : out[i] = <<x>> => TaskFits(page[i], x, status)
  /\ page[i].kind = "detail" => page[i].late <= 1 /\ (i = cur => page[i].late = 0)

\* A problem page before the problem is there.
Idle(p) == ~p.busy /\ p.act = "none" /\ p.next = None /\ p.lang = 71

\* Task x is what is left of the last click on page p.
Asks(p, x) ==
  /\ ~p.err
  /\ \/ x.kind = "run" /\ p.act = "run"
     \/ x.kind = "submit" /\ p.act = "submit"
     \/ x.kind \in {"get", "timer"} /\ p.act = "submit" /\ p.sub = x.sub

Latest(p) ==
  ~p.busy /\ p.act # "none" /\ ~p.missed =>
    \/ Panel(p) = "error"
    \/ p.act = "run" /\ Panel(p) = "run"
    \/ p.act = "submit" /\ Panel(p) = "submission" /\ p.shown = p.sub /\ Final(p.verdict)

\* The mounted page p, with o under way.
Mounts(p, o) ==
  IF p.kind = "problem"
  THEN /\ ~p.loaded => Idle(p) /\ \A x \in Tasks : o = <<x>> => x.kind = "load"
       /\ p.loaded => /\ p.busy = (o # <<>>)
                      /\ \A x \in Tasks : o = <<x>> => Asks(p, x)
       /\ Latest(p)
  ELSE p.next = None

\* Between the two renders of a switch the page has the draft that it read.
DraftInv ==
  /\ DraftsKept
  /\ typed[This.lang] # None /\ This.lang \notin lost /\ This.next # None =>
       This.next = typed[This.lang]

PageInv ==
  /\ TypeOK /\ out \in [Pages -> Lists]
  /\ \A i \in Pages : PlaceInv(i)
  /\ Mounts(This, out[cur]) /\ DraftInv

-------------------------------------------------------------------------------
(* Codes and tasks.                                                        *)

LEMMA CodeFacts ==
  /\ None \notin Codes /\ 0 \in Codes /\ 71 \in Langs /\ Langs \subseteq Codes
  /\ 1..MaxTyped \subseteq Codes /\ MaxTyped \in Nat /\ 0 \notin Subs
  /\ \A l \in Langs : Starter(l) \in Codes
  BY PageAssumption DEF None, Codes, Starter, Subs

LEMMA StoredCode ==
  ASSUME PageInv, NEW l \in Langs
  PROVE  Stored(l) \in Codes /\ (draft[l] # None => Stored(l) = draft[l])
  BY CodeFacts DEF PageInv, TypeOK, Stored

LEMMA PageTypes ==
  ASSUME PageInv
  PROVE  /\ cur \in Pages /\ page \in [Pages -> PageRec] /\ This \in PageRec
         /\ draft \in Drafts /\ status \in States /\ out \in [Pages -> Lists]
         /\ typed \in [Langs -> 1..MaxTyped \cup {None}] /\ lost \subseteq Langs
  BY DEF PageInv, TypeOK, PageRec, Drafts, States, This

\* A list of tasks has one at most.
LEMMA ListFacts ==
  ASSUME NEW o \in Lists
  PROVE  /\ o \in Seq(Tasks) /\ Len(o) <= 1
         /\ \A n \in DOMAIN o : /\ n = 1 /\ o[n] \in Tasks /\ o = <<o[n]>>
                                /\ RemoveAt(o, n) = <<>>
                                /\ \A ts \in Lists : RemoveAt(o, n) \o ts = ts
         /\ o = <<>> => \A ts \in Lists : o \o ts = ts
<1>1. ASSUME NEW ts \in Lists PROVE ts \in Seq(Tasks) /\ <<>> \o ts = ts
  <2>1. ts \in Seq(Tasks)
    <3>1. CASE ts = <<>>
      BY <3>1
    <3>2. ASSUME NEW x \in Tasks, ts = <<x>> PROVE ts \in Seq(Tasks)
      BY <3>2
    <3> QED
      BY <3>1, <3>2 DEF Lists
  <2> QED
    BY <2>1
<1>2. CASE o = <<>>
  BY <1>1, <1>2
<1>3. CASE o # <<>>
  <2>1. PICK x \in Tasks : o = <<x>>
    BY <1>3 DEF Lists
  <2>2. o \in Seq(Tasks) /\ Len(o) = 1 /\ DOMAIN o = {1} /\ o[1] = x
    BY <2>1
  <2>3. RemoveAt(o, 1) = <<>>
    BY <2>1, <2>2 DEF RemoveAt
  <2> QED
    BY <1>1, <2>1, <2>2, <2>3
<1> QED
  BY <1>2, <1>3

\* The task that is answered, and what comes after it.
LEMMA TaskThere ==
  ASSUME PageInv, NEW i \in Pages, NEW n \in DOMAIN out[i]
  PROVE  /\ out[i][n] \in Tasks /\ out[i] = <<out[i][n]>> /\ out[i] # <<>>
         /\ TaskFits(page[i], out[i][n], status)
         /\ page[i].kind \in {"problem", "detail"}
         /\ \A ts \in Lists : Goes(i, n, ts) => out' = [out EXCEPT ![i] = ts]
<1>1. out[i] \in Lists /\ PlaceInv(i) /\ page[i] \in PageRec /\ cur \in Pages
  BY PageTypes DEF PageInv
<1>2. out[i][n] \in Tasks /\ out[i] = <<out[i][n]>>
  BY <1>1, ListFacts
<1>3. out[i] # <<>>
  BY <1>2
<1>4. i <= cur
  BY <1>1, <1>3, PageAssumption DEF PlaceInv, Pages
<1>5. \A ts \in Lists : RemoveAt(out[i], n) \o ts = ts
  BY <1>1, ListFacts
<1>6. \A ts \in Lists : Goes(i, n, ts) => out' = [out EXCEPT ![i] = ts]
  BY <1>5 DEF Goes
<1> QED
  BY <1>1, <1>2, <1>3, <1>4, <1>6 DEF PlaceInv, PageRec

\* The drafts of a page that neither typed nor switched.
LEMMA SameDrafts ==
  ASSUME DraftInv, UNCHANGED <<draft, typed, lost>>, This'.next = This.next,
         This'.lang = This.lang
  PROVE  DraftInv'
  BY DEF DraftInv, DraftsKept

-------------------------------------------------------------------------------
(* A task of page i ends: it leaves the page with ts under way and, if it  *)
(* is mounted, in the state q.                                             *)

LEMMA AnswerKeeps ==
  ASSUME PageInv, NEW i \in Pages, NEW n \in DOMAIN out[i], NEW ts \in Lists,
         NEW q \in PageRec, Goes(i, n, ts), Change(i, q),
         UNCHANGED <<cur, typed, lost, typings, clicks>>,
         draft' \in Drafts, status' \in States,
         \A s \in Subs : status[s] # "none" => status'[s] # "none",
         q.kind = page[i].kind, q.late = page[i].late,
         \A x \in Tasks : ts = <<x>> => TaskFits(page[i], x, status'),
         i = cur => Mounts(q, ts) /\ DraftInv',
         i # cur => draft' = draft
  PROVE  PageInv'
<1>1. /\ page \in [Pages -> PageRec] /\ out \in [Pages -> Lists] /\ cur \in Pages
      /\ out' = [out EXCEPT ![i] = ts]
      /\ page[i].kind \in {"problem", "detail"}
  BY PageTypes, TaskThere
<1>2. page' = IF i = cur THEN [page EXCEPT ![i] = q] ELSE page
  BY DEF Change, Mounted
<1>3. page' \in [Pages -> PageRec] /\ out' \in [Pages -> Lists]
  BY <1>1, <1>2
<1>4. \A j \in Pages : \A m \in DOMAIN out'[j] : out'[j][m] \in Tasks
  BY <1>3, ListFacts
<1>5. TypeOK'
  BY <1>3, <1>4 DEF PageInv, TypeOK, PageRec, Drafts, States, Tasks
<1>6. \A j \in Pages : page'[j].kind = page[j].kind /\ page'[j].late = page[j].late
  BY <1>1, <1>2
<1>7. ASSUME NEW j \in Pages PROVE PlaceInv(j)'
  <2>1. PlaceInv(j) /\ page[j] \in PageRec /\ cur' = cur
    BY <1>1 DEF PageInv
  <2>2. ASSUME NEW x \in Tasks, out'[j] = <<x>> PROVE TaskFits(page'[j], x, status')
    <3>1. CASE j = i
      BY <1>1, <1>6, <2>2, <3>1 DEF TaskFits
    <3>2. CASE j # i
      BY <1>1, <1>6, <2>1, <2>2, <3>2 DEF TaskFits, PlaceInv
    <3> QED
      BY <3>1, <3>2
  <2>3. j > cur => out'[j] = <<>>
    BY <1>1, <2>1, PageAssumption DEF PlaceInv, PageInv, Pages
  <2> QED
    BY <1>6, <2>1, <2>2, <2>3 DEF PlaceInv
<1>8. Mounts(This, out[cur])' /\ DraftInv'
  <2>1. CASE i = cur
    <3>1. This' = q /\ out'[cur'] = ts
      BY <1>1, <1>2, <2>1 DEF This
    <3> QED
      BY <2>1, <3>1 DEF Mounts
  <2>2. CASE i # cur
    <3>1. This' = This /\ out'[cur'] = out[cur]
      BY <1>1, <1>2, <2>2 DEF This
    <3>2. DraftInv'
      BY <2>2, <3>1, SameDrafts DEF PageInv
    <3> QED
      BY <3>1, <3>2 DEF PageInv, Mounts
  <2> QED
    BY <2>1, <2>2
<1> QED
  BY <1>3, <1>5, <1>7, <1>8 DEF PageInv

LEMMA LoadedInv ==
  ASSUME PageInv, NEW i \in Pages, NEW n \in DOMAIN out[i], Loaded(i, n)
  PROVE  PageInv'
<1>1. /\ page[i] \in PageRec /\ page \in [Pages -> PageRec] /\ page[i].kind = "problem"
      /\ cur \in Pages /\ draft \in Drafts /\ status \in States /\ <<>> \in Lists
      /\ Goes(i, n, <<>>) /\ UNCHANGED <<cur, status, typed, lost, typings, clicks>>
      /\ out[i][n].kind = "load" /\ out[i] = <<out[i][n]>> /\ out[i][n] \in Tasks
  BY PageTypes, TaskThere DEF Loaded, Lists
<1>2. ASSUME NEW q1 \in PageRec, q1.kind = page[i].kind, q1.late = page[i].late,
             Change(i, q1), draft' \in Drafts, i # cur => draft' = draft,
             i = cur => Mounts(q1, <<>>) /\ DraftInv'
      PROVE  PageInv'
  BY <1>1, <1>2, AnswerKeeps
<1>3. i = cur => ~This.loaded /\ Idle(This)
  BY <1>1 DEF PageInv, Mounts, Asks, This
<1>4. Stored(71) \in Codes /\ 71 \in Langs /\ (draft[71] # None => Stored(71) = draft[71])
  BY StoredCode, CodeFacts
<1>5. CASE /\ Change(i, [page[i] EXCEPT !.loaded = TRUE, !.code = Stored(71)])
           /\ IF Mounted(i) THEN KeepDraft(71, Stored(71)) ELSE UNCHANGED draft
  <2> DEFINE p == [page[i] EXCEPT !.loaded = TRUE, !.code = Stored(71)]
  <2>1. /\ p \in PageRec /\ p.kind = page[i].kind /\ p.late = page[i].late /\ p.loaded
        /\ p.busy = page[i].busy /\ p.act = page[i].act /\ p.next = page[i].next
        /\ p.lang = page[i].lang /\ p.busy \in BOOLEAN
    BY <1>1, <1>4 DEF PageRec
  <2>2. draft' \in Drafts /\ (i # cur => draft' = draft)
    BY <1>1, <1>4, <1>5 DEF Drafts, Mounted, KeepDraft
  <2>3. ASSUME i = cur PROVE Mounts(p, <<>>)
    BY <1>1, <1>3, <2>1, <2>3 DEF Mounts, Idle, Latest, This
  <2>4. ASSUME i = cur PROVE DraftInv'
    <3>1. page' = [page EXCEPT ![i] = p] /\ draft' = [draft EXCEPT ![71] = Stored(71)]
      BY <1>5, <2>4 DEF Change, Mounted, KeepDraft
    <3>2. This' = p
      BY <1>1, <2>4, <3>1 DEF This
    <3>3. \A l \in Langs : typed[l] # None /\ l \notin lost => draft[l] = typed[l]
      BY <1>3, <2>4 DEF PageInv, DraftInv, DraftsKept, Idle
    <3>4. \A l \in Langs : draft'[l] = IF l = 71 THEN Stored(71) ELSE draft[l]
      BY <1>1, <3>1 DEF Drafts
    <3>5. \A l \in Langs : typed[l] # None /\ l \notin lost => draft'[l] = typed[l]
      BY <1>4, <3>3, <3>4
    <3> QED
      BY <1>1, <1>3, <2>1, <2>4, <3>2, <3>5 DEF DraftInv, DraftsKept, Idle, This
  <2> HIDE DEF p
  <2> QED
    BY <1>2, <1>5, <2>1, <2>2, <2>3, <2>4 DEF p
<1>6. CASE Change(i, [page[i] EXCEPT !.err = TRUE]) /\ UNCHANGED draft
  <2> DEFINE p == [page[i] EXCEPT !.err = TRUE]
  <2>1. /\ p \in PageRec /\ p.kind = page[i].kind /\ p.late = page[i].late
        /\ p.loaded = page[i].loaded
        /\ p.busy = page[i].busy /\ p.act = page[i].act /\ p.next = page[i].next
        /\ p.lang = page[i].lang
    BY <1>1 DEF PageRec
  <2>2. ASSUME i = cur PROVE Mounts(p, <<>>)
    BY <1>1, <1>3, <2>1, <2>2 DEF Mounts, Idle, Latest, This
  <2>3. ASSUME i = cur PROVE DraftInv'
    <3>1. page' = [page EXCEPT ![i] = p]
      BY <1>6, <2>3 DEF Change, Mounted
    <3>2. This' = p
      BY <1>1, <2>3, <3>1 DEF This
    <3> QED
      BY <1>1, <1>6, <2>1, <2>3, <3>2, SameDrafts DEF PageInv, This
  <2> HIDE DEF p
  <2> QED
    BY <1>1, <1>2, <1>6, <2>1, <2>2, <2>3 DEF p
<1> QED
  BY <1>5, <1>6 DEF Loaded

\* An answer that touches no draft.
LEMMA AnswerOnly ==
  ASSUME PageInv, NEW i \in Pages, NEW n \in DOMAIN out[i], NEW ts \in Lists,
         NEW q \in PageRec, Goes(i, n, ts), Change(i, q),
         UNCHANGED <<cur, draft, typed, lost, typings, clicks>>, status' \in States,
         \A s \in Subs : status[s] # "none" => status'[s] # "none",
         q.kind = page[i].kind, q.late = page[i].late, q.next = page[i].next,
         q.lang = page[i].lang,
         \A x \in Tasks : ts = <<x>> => TaskFits(page[i], x, status'),
         i = cur => Mounts(q, ts)
  PROVE  PageInv'
<1>1. draft' \in Drafts /\ cur \in Pages /\ page \in [Pages -> PageRec]
  BY PageTypes
<1>2. ASSUME i = cur PROVE DraftInv'
  <2>1. This' = q
    BY <1>1, <1>2 DEF Change, Mounted, This
  <2> QED
    BY <1>2, <2>1, SameDrafts DEF PageInv, This
<1> QED
  BY <1>1, <1>2, AnswerKeeps

\* The task that ends is the one that the buttons wait for.
LEMMA WaitedFor ==
  ASSUME PageInv, NEW i \in Pages, NEW n \in DOMAIN out[i], i = cur,
         page[i].kind = "problem", out[i][n].kind # "load"
  PROVE  This.loaded /\ This.busy /\ Asks(This, out[i][n])
<1>1. out[i][n] \in Tasks /\ out[i] = <<out[i][n]>> /\ out[i] # <<>>
  BY TaskThere
<1>2. This \in PageRec /\ This = page[i]
  BY PageTypes DEF This
<1> QED
  BY <1>1, <1>2 DEF PageInv, Mounts, PageRec

LEMMA RunAnsweredInv ==
  ASSUME PageInv, NEW i \in Pages, NEW n \in DOMAIN out[i], RunAnswered(i, n)
  PROVE  PageInv'
<1>1. /\ page[i] \in PageRec /\ page[i].kind = "problem" /\ <<>> \in Lists
      /\ status \in States /\ UNCHANGED <<cur, draft, status, typed, lost, typings, clicks>>
      /\ Goes(i, n, <<>>) /\ out[i][n].kind = "run" /\ \A x : <<>> # <<x>>
  BY PageTypes, TaskThere DEF RunAnswered, Lists, TaskFits
<1>2. ASSUME NEW p \in PageRec, Change(i, p), p.kind = page[i].kind, p.late = page[i].late,
             p.next = page[i].next, p.lang = page[i].lang, i = cur => Mounts(p, <<>>)
      PROVE  PageInv'
  BY <1>1, <1>2, AnswerOnly
<1>3. i = cur => This = page[i] /\ This.loaded /\ ~This.err /\ This.act = "run"
  BY <1>1, WaitedFor DEF Asks, This
<1>4. CASE Change(i, RunShown(page[i]))
  <2> DEFINE p == RunShown(page[i])
  <2>1. /\ p \in PageRec /\ p.kind = page[i].kind /\ p.late = page[i].late
        /\ p.next = page[i].next /\ p.lang = page[i].lang /\ p.loaded = page[i].loaded
        /\ p.run /\ p.shown = 0 /\ p.busy = FALSE /\ p.err = page[i].err /\ p.act = page[i].act
    BY <1>1 DEF PageRec, RunShown
  <2> HIDE DEF p
  <2>2. ASSUME i = cur PROVE Mounts(p, <<>>)
    <3>1. Panel(p) = "run" /\ p.act = "run"
      BY <1>3, <2>1, <2>2 DEF Panel
    <3> QED
      BY <1>1, <1>3, <2>1, <2>2, <3>1 DEF Mounts, Latest
  <2> QED
    BY <1>2, <1>4, <2>1, <2>2 DEF p
<1>5. CASE Change(i, [page[i] EXCEPT !.err = TRUE, !.busy = FALSE])
  <2> DEFINE p == [page[i] EXCEPT !.err = TRUE, !.busy = FALSE]
  <2>1. /\ p \in PageRec /\ p.kind = page[i].kind /\ p.late = page[i].late
        /\ p.next = page[i].next /\ p.lang = page[i].lang /\ p.loaded = page[i].loaded
        /\ p.busy = FALSE /\ p.err
    BY <1>1 DEF PageRec
  <2> HIDE DEF p
  <2>2. ASSUME i = cur PROVE Mounts(p, <<>>)
    BY <1>1, <1>3, <2>1, <2>2 DEF Mounts, Latest, Panel
  <2> QED
    BY <1>2, <1>5, <2>1, <2>2 DEF p
<1> QED
  BY <1>4, <1>5 DEF RunAnswered

LEMMA SubmitAnsweredInv ==
  ASSUME PageInv, NEW i \in Pages, NEW n \in DOMAIN out[i], SubmitAnswered(i, n)
  PROVE  PageInv'
<1>1. /\ page[i] \in PageRec /\ page[i].kind = "problem" /\ <<>> \in Lists
      /\ status \in States /\ UNCHANGED <<cur, draft, typed, lost, typings, clicks>>
      /\ out[i][n].kind = "submit" /\ \A x : <<>> # <<x>>
  BY PageTypes, TaskThere DEF SubmitAnswered, Lists, TaskFits
<1>2. i = cur => /\ This = page[i] /\ This.loaded /\ This.busy /\ ~This.err
                 /\ This.act = "submit"
  BY <1>1, WaitedFor DEF Asks, This
<1>3. CASE \E s \in NextSub : /\ status' = [status EXCEPT ![s] = "RUNNING"]
                              /\ Goes(i, n, <<Task("get", s)>>)
                              /\ Change(i, [page[i] EXCEPT !.sub = s])
  <2>1. PICK s \in NextSub : /\ status' = [status EXCEPT ![s] = "RUNNING"]
                             /\ Goes(i, n, <<Task("get", s)>>)
                             /\ Change(i, [page[i] EXCEPT !.sub = s])
    BY <1>3
  <2> DEFINE p == [page[i] EXCEPT !.sub = s]
             x == Task("get", s)
  <2>2. s \in Subs
    BY DEF NextSub
  <2>3. /\ p \in PageRec /\ p.kind = page[i].kind /\ p.late = page[i].late
        /\ p.next = page[i].next /\ p.lang = page[i].lang /\ p.loaded = page[i].loaded
        /\ p.busy = page[i].busy /\ p.busy \in BOOLEAN /\ p.err = page[i].err
        /\ p.act = page[i].act /\ p.sub = s
    BY <1>1, <2>2 DEF PageRec
  <2>4. x \in Tasks /\ <<x>> \in Lists /\ x.kind = "get" /\ x.sub = s
    BY <2>2 DEF Task, Tasks, Lists
  <2>5. status' \in States /\ \A r \in Subs : status[r] # "none" => status'[r] # "none"
    BY <1>1, <2>1, <2>2 DEF States
  <2>6. status'[s] # "none"
    BY <1>1, <2>1, <2>2 DEF States
  <2> HIDE DEF p, x
  <2>7. \A y \in Tasks : <<x>> = <<y>> => y = x
    OBVIOUS
  <2>8. \A y \in Tasks : <<x>> = <<y>> => TaskFits(page[i], y, status')
    BY <1>1, <2>2, <2>4, <2>6, <2>7 DEF TaskFits
  <2>9. ASSUME i = cur PROVE Mounts(p, <<x>>)
    <3>1. Asks(p, x) /\ <<x>> # <<>>
      BY <1>2, <2>3, <2>4, <2>9 DEF Asks
    <3> QED
      BY <1>1, <1>2, <2>3, <2>7, <2>9, <3>1 DEF Mounts, Latest
  <2> QED
    BY <1>1, <2>1, <2>3, <2>4, <2>5, <2>8, <2>9, AnswerOnly DEF p, x
<1>4. CASE /\ Goes(i, n, <<>>)
           /\ Change(i, [page[i] EXCEPT !.err = TRUE, !.busy = FALSE])
           /\ UNCHANGED status
  <2> DEFINE p == [page[i] EXCEPT !.err = TRUE, !.busy = FALSE]
  <2>1. /\ p \in PageRec /\ p.kind = page[i].kind /\ p.late = page[i].late
        /\ p.next = page[i].next /\ p.lang = page[i].lang /\ p.loaded = page[i].loaded
        /\ p.busy = FALSE /\ p.err
    BY <1>1 DEF PageRec
  <2> HIDE DEF p
  <2>2. ASSUME i = cur PROVE Mounts(p, <<>>)
    BY <1>1, <1>2, <2>1, <2>2 DEF Mounts, Latest, Panel
  <2> QED
    BY <1>1, <1>4, <2>1, <2>2, AnswerOnly DEF p
<1> QED
  BY <1>3, <1>4 DEF SubmitAnswered

\* The timer of the next poll belongs to the page that set it.
LEMMA TimerTask ==
  ASSUME PageInv, NEW s \in Subs, status[s] # "none"
  PROVE  LET x == Task("timer", s) IN
         /\ <<x>> \in Lists /\ x.kind = "timer" /\ x.sub = s /\ <<x>> # <<>>
         /\ \A y \in Tasks : <<x>> = <<y>> => y = x
         /\ \A i \in Pages : page[i].late = 0 \/ page[i].kind = "problem" =>
              TaskFits(page[i], x, status)
  BY DEF Task, Tasks, Lists, TaskFits

LEMMA PolledInv ==
  ASSUME PageInv, NEW i \in Pages, NEW n \in DOMAIN out[i], Polled(i, n)
  PROVE  PageInv'
<1> DEFINE s == out[i][n].sub
           x == Task("timer", s)
<1>1. /\ page[i] \in PageRec /\ page[i].kind = "problem" /\ <<>> \in Lists
      /\ status \in States /\ UNCHANGED <<cur, draft, status, typed, lost, typings, clicks>>
      /\ out[i][n].kind = "get" /\ s \in Subs /\ status[s] # "none" /\ \A y : <<>> # <<y>>
  BY PageTypes, TaskThere DEF Polled, Lists, TaskFits
<1>2. i = cur => /\ This = page[i] /\ This.loaded /\ This.busy /\ ~This.err
                 /\ This.act = "submit" /\ This.sub = s
  BY <1>1, WaitedFor DEF Asks, This
<1>3. /\ <<x>> \in Lists /\ x.kind = "timer" /\ x.sub = s /\ <<x>> # <<>>
      /\ \A y \in Tasks : <<x>> = <<y>> => y = x
      /\ TaskFits(page[i], x, status)
  BY <1>1, TimerTask
<1>4. s # 0
  BY <1>1, CodeFacts
<1> HIDE DEF s, x
<1>5. CASE /\ status[s] # "gone"
           /\ Goes(i, n, IF ToldToWait(status[s]) THEN <<x>> ELSE <<>>)
           /\ Change(i, [page[i] EXCEPT !.shown = s, !.verdict = status[s],
                                        !.busy = @ /\ ToldToWait(status[s])])
  <2> DEFINE p == [page[i] EXCEPT !.shown = s, !.verdict = status[s],
                                  !.busy = @ /\ ToldToWait(status[s])]
  <2>0. (page[i].busy /\ ToldToWait(status[s])) \in BOOLEAN
    OBVIOUS
  <2>1. ToldToWait(status[s]) \in BOOLEAN /\ status[s] \in {"RUNNING", "AC", "WA"}
        /\ (~ToldToWait(status[s]) => Final(status[s]))
    BY <1>1, <1>5 DEF ToldToWait, Final, States
  <2>2. /\ p \in PageRec /\ p.kind = page[i].kind /\ p.late = page[i].late
        /\ p.next = page[i].next /\ p.lang = page[i].lang /\ p.loaded = page[i].loaded
        /\ p.busy = (page[i].busy /\ ToldToWait(status[s])) /\ p.err = page[i].err
        /\ p.act = page[i].act /\ p.sub = page[i].sub /\ p.shown = s
        /\ p.verdict = status[s]
    <3>1. s \in Subs \cup {0} /\ status[s] \in {"none", "RUNNING", "AC", "WA"}
      BY <1>1, <2>1
    <3>2. p \in PageRec
      <4> DEFINE b == page[i].busy /\ ToldToWait(status[s])
      <4>1. CASE b
        <5>1. p = [page[i] EXCEPT !.shown = s, !.verdict = status[s], !.busy = TRUE]
          BY <4>1
        <5> HIDE DEF p
        <5> QED
          BY <1>1, <3>1, <5>1 DEF PageRec
      <4>2. CASE ~b
        <5>1. p = [page[i] EXCEPT !.shown = s, !.verdict = status[s], !.busy = FALSE]
          BY <4>2
        <5> HIDE DEF p
        <5> QED
          BY <1>1, <3>1, <5>1 DEF PageRec
      <4> QED
        BY <4>1, <4>2
    <3>3. /\ p.kind = page[i].kind /\ p.late = page[i].late /\ p.next = page[i].next
          /\ p.lang = page[i].lang /\ p.loaded = page[i].loaded /\ p.err = page[i].err
          /\ p.act = page[i].act /\ p.sub = page[i].sub
      OBVIOUS
    <3>4. p.shown = s /\ p.verdict = status[s] /\ p.busy = (page[i].busy /\ ToldToWait(status[s]))
      BY <1>1 DEF PageRec
    <3> QED
      BY <3>2, <3>3, <3>4
  <2> HIDE DEF p
  <2>3. CASE ToldToWait(status[s])
    <3>1. Goes(i, n, <<x>>) /\ p.busy = page[i].busy
      BY <1>1, <1>5, <2>2, <2>3 DEF PageRec
    <3>2. \A y \in Tasks : <<x>> = <<y>> => TaskFits(page[i], y, status')
      BY <1>1, <1>3
    <3>3. ASSUME i = cur PROVE Mounts(p, <<x>>)
      <4>1. Asks(p, x) /\ p.busy = TRUE
        BY <1>1, <1>2, <1>3, <2>2, <3>1, <3>3 DEF Asks, PageRec
      <4> QED
        BY <1>1, <1>2, <1>3, <2>2, <3>3, <4>1 DEF Mounts, Latest
    <3> QED
      BY <1>1, <1>3, <1>5, <2>2, <3>1, <3>2, <3>3, AnswerOnly DEF p
  <2>4. CASE ~ToldToWait(status[s])
    <3>1. Goes(i, n, <<>>) /\ p.busy = FALSE
      BY <1>5, <2>2, <2>4
    <3>2. ASSUME i = cur PROVE Mounts(p, <<>>)
      <4>1. Panel(p) = "submission"
        BY <1>2, <1>4, <2>2, <3>2 DEF Panel
      <4> QED
        BY <1>1, <1>2, <2>1, <2>2, <2>4, <3>1, <3>2, <4>1 DEF Mounts, Latest
    <3> QED
      BY <1>1, <1>5, <2>2, <3>1, <3>2, AnswerOnly DEF p
  <2> QED
    BY <2>3, <2>4
<1>6. CASE Goes(i, n, <<>>) /\ Change(i, [page[i] EXCEPT !.busy = FALSE, !.missed = TRUE])
  <2> DEFINE p == [page[i] EXCEPT !.busy = FALSE, !.missed = TRUE]
  <2>1. /\ p \in PageRec /\ p.kind = page[i].kind /\ p.late = page[i].late
        /\ p.next = page[i].next /\ p.lang = page[i].lang /\ p.loaded = page[i].loaded
        /\ p.busy = FALSE /\ p.missed
    BY <1>1 DEF PageRec
  <2> HIDE DEF p
  <2>2. ASSUME i = cur PROVE Mounts(p, <<>>)
    BY <1>1, <1>2, <2>1, <2>2 DEF Mounts, Latest
  <2> QED
    BY <1>1, <1>6, <2>1, <2>2, AnswerOnly DEF p
<1> QED
  BY <1>5, <1>6 DEF Polled, s, x

LEMMA FetchedInv ==
  ASSUME PageInv, NEW i \in Pages, NEW n \in DOMAIN out[i], Fetched(i, n)
  PROVE  PageInv'
<1> DEFINE s == out[i][n].sub
           x == Task("timer", s)
           o == IF Alive(i) /\ ToldToWait(status[s]) THEN <<x>> ELSE <<>>
<1>1. /\ page[i] \in PageRec /\ page[i].kind = "detail" /\ <<>> \in Lists
      /\ status \in States /\ UNCHANGED <<cur, draft, status, typed, lost, typings, clicks>>
      /\ s \in Subs /\ status[s] # "none" /\ \A y : <<>> # <<y>>
  BY PageTypes, TaskThere DEF Fetched, Lists, TaskFits
<1>2. i = cur => This = page[i] /\ page[i].late = 0 /\ page[i].next = None
  BY <1>1 DEF PageInv, Mounts, PlaceInv, This
<1>3. /\ <<x>> \in Lists /\ \A y \in Tasks : <<x>> = <<y>> => y = x
      /\ i = cur => TaskFits(page[i], x, status)
  BY <1>1, <1>2, TimerTask
<1> HIDE DEF s, x
<1>4. o \in Lists /\ \A y \in Tasks : o = <<y>> => TaskFits(page[i], y, status')
  BY <1>1, <1>3 DEF Alive, Mounted
<1> HIDE DEF o
<1>5. \A p \in PageRec : \A ts : p.kind = "detail" /\ p.next = page[i].next /\ i = cur => Mounts(p, ts)
  BY <1>2 DEF Mounts
<1>6. CASE /\ status[s] # "gone" /\ Goes(i, n, o)
           /\ Change(i, [page[i] EXCEPT !.loaded = TRUE, !.shown = s, !.verdict = status[s]])
  <2> DEFINE p == [page[i] EXCEPT !.loaded = TRUE, !.shown = s, !.verdict = status[s]]
  <2>1. status[s] \in {"RUNNING", "AC", "WA"}
    BY <1>1, <1>6 DEF States
  <2>2. /\ p \in PageRec /\ p.kind = page[i].kind /\ p.late = page[i].late
        /\ p.next = page[i].next /\ p.lang = page[i].lang
    BY <1>1, <2>1 DEF PageRec
  <2> HIDE DEF p
  <2> QED
    BY <1>1, <1>4, <1>5, <1>6, <2>2, AnswerOnly DEF p
<1>7. CASE Goes(i, n, <<>>) /\ Change(i, [page[i] EXCEPT !.missed = TRUE])
  <2> DEFINE p == [page[i] EXCEPT !.missed = TRUE]
  <2>1. /\ p \in PageRec /\ p.kind = page[i].kind /\ p.late = page[i].late
        /\ p.next = page[i].next /\ p.lang = page[i].lang
    BY <1>1 DEF PageRec
  <2> HIDE DEF p
  <2> QED
    BY <1>1, <1>5, <1>7, <2>1, AnswerOnly DEF p
<1> QED
  BY <1>6, <1>7 DEF Fetched, s, x, o

LEMMA TimerFiresInv ==
  ASSUME PageInv, NEW i \in Pages, NEW n \in DOMAIN out[i], TimerFires(i, n)
  PROVE  PageInv'
<1> DEFINE s == out[i][n].sub
           x == Task("get", s)
<1>1. /\ page \in [Pages -> PageRec] /\ out \in [Pages -> Lists] /\ cur \in Pages
      /\ page[i] \in PageRec /\ status \in States
      /\ UNCHANGED <<cur, draft, status, typed, lost, typings, clicks>>
      /\ page[i].kind \in {"problem", "detail"} /\ out[i][n] \in Tasks
      /\ out[i] = <<out[i][n]>> /\ out[i][n].kind = "timer" /\ s \in Subs /\ status[s] # "none"
      /\ page[i].kind = "detail" => page[i].late = 0
  BY PageTypes, TaskThere DEF TimerFires, TaskFits
<1>2. /\ x \in Tasks /\ <<x>> \in Lists /\ x.kind = "get" /\ x.sub = s /\ <<x>> # <<>>
      /\ \A y : <<x>> = <<y>> => y = x
  BY <1>1 DEF Task, Tasks, Lists
<1>3. Goes(i, n, <<x>>) /\ out' = [out EXCEPT ![i] = <<x>>]
  BY <1>2, TaskThere DEF TimerFires
<1>4. \A p, y : x = y /\ p.kind = page[i].kind => TaskFits(p, y, status)
  BY <1>1, <1>2 DEF TaskFits
<1>5. CASE i = cur
  <2>1. Change(i, page[i])
    BY <1>1, <1>5 DEF Change, Mounted, TimerFires
  <2>2. Mounts(page[i], <<x>>)
    <3>1. CASE page[i].kind = "problem"
      <4>1. This = page[i] /\ This.loaded /\ This.busy /\ Asks(This, out[i][n])
        BY <1>1, <1>5, <3>1, WaitedFor DEF This
      <4>2. Asks(page[i], x) /\ page[i].busy = TRUE
        BY <1>1, <1>2, <4>1 DEF Asks, PageRec
      <4> QED
        BY <1>2, <3>1, <4>1, <4>2 DEF Mounts, Latest
    <3>2. CASE page[i].kind # "problem"
      BY <1>5, <3>2 DEF PageInv, Mounts, This
    <3> QED
      BY <3>1, <3>2
  <2>3. \A y \in Tasks : <<x>> = <<y>> => TaskFits(page[i], y, status')
    BY <1>1, <1>2, <1>4
  <2> HIDE DEF s, x
  <2> QED
    BY <1>1, <1>2, <1>3, <2>1, <2>2, <2>3, AnswerOnly
<1>6. CASE i # cur
  <2> DEFINE q == [page[i] EXCEPT !.late = IF @ < 2 THEN @ + 1 ELSE @]
  <2>1. page' = [page EXCEPT ![i] = q]
    BY <1>1, <1>6 DEF TimerFires, Mounted
  <2>2. /\ q \in PageRec /\ q.kind = page[i].kind
        /\ page[i].kind = "detail" => q.late = 1
    BY <1>1 DEF PageRec
  <2> HIDE DEF s, x, q
  <2>3. page' \in [Pages -> PageRec] /\ out' \in [Pages -> Lists]
    BY <1>1, <1>2, <1>3, <2>1, <2>2
  <2>4. \A j \in Pages : \A m \in DOMAIN out'[j] : out'[j][m] \in Tasks
    BY <2>3, ListFacts
  <2>5. TypeOK'
    BY <1>1, <2>3, <2>4 DEF PageInv, TypeOK, PageRec, Tasks
  <2>6. ASSUME NEW j \in Pages PROVE PlaceInv(j)'
    <3>1. PlaceInv(j) /\ PlaceInv(i)
      BY DEF PageInv
    <3>2. CASE j = i
      <4>1. page'[j] = q /\ out'[j] = <<x>>
        BY <1>1, <1>3, <2>1, <3>2
      <4>2. \A y \in Tasks : out'[j] = <<y>> => TaskFits(page'[j], y, status')
        BY <1>1, <1>2, <1>4, <2>2, <4>1
      <4>3. i <= cur /\ ~(i > cur)
        BY <1>1, <3>1, PageAssumption DEF PlaceInv, Pages
      <4> QED
        BY <1>1, <1>6, <2>2, <3>2, <4>1, <4>2, <4>3 DEF PlaceInv
    <3>3. CASE j # i
      BY <1>1, <1>3, <2>1, <3>1, <3>3 DEF PlaceInv
    <3> QED
      BY <3>2, <3>3
  <2>7. This' = This /\ out'[cur'] = out[cur]
    BY <1>1, <1>3, <1>6, <2>1 DEF This
  <2>8. Mounts(This, out[cur])' /\ DraftInv'
    BY <1>1, <2>7, SameDrafts DEF PageInv, Mounts
  <2> QED
    BY <2>3, <2>5, <2>6, <2>8 DEF PageInv
<1> QED
  BY <1>5, <1>6

-------------------------------------------------------------------------------
(* What the user does on the mounted page: it is left in the state q, with *)
(* o under way.                                                            *)

LEMMA ClickKeeps ==
  ASSUME PageInv, NEW q \in PageRec, NEW o \in Lists,
         page' = [page EXCEPT ![cur] = q], out' = [out EXCEPT ![cur] = o],
         UNCHANGED <<cur, status>>, draft' \in Drafts,
         typed' \in [Langs -> 1..MaxTyped \cup {None}], lost' \subseteq Langs,
         typings' \in 0..MaxTyped, clicks' \in 0..MaxClicks,
         q.kind = This.kind, q.late = This.late,
         \A x \in Tasks : o = <<x>> => TaskFits(This, x, status),
         Mounts(q, o), DraftInv'
  PROVE  PageInv'
<1>1. /\ page \in [Pages -> PageRec] /\ out \in [Pages -> Lists] /\ cur \in Pages
      /\ status \in States /\ This = page[cur]
  BY PageTypes DEF This
<1>2. page' \in [Pages -> PageRec] /\ out' \in [Pages -> Lists]
  BY <1>1
<1>3. \A j \in Pages : \A m \in DOMAIN out'[j] : out'[j][m] \in Tasks
  BY <1>2, ListFacts
<1>4. TypeOK'
  BY <1>1, <1>2, <1>3 DEF TypeOK, PageRec, Drafts, States, Tasks
<1>5. \A j \in Pages : page'[j].kind = page[j].kind /\ page'[j].late = page[j].late
  BY <1>1
<1>6. ASSUME NEW j \in Pages PROVE PlaceInv(j)'
  <2>1. PlaceInv(j) /\ cur' = cur /\ status' = status
    BY DEF PageInv
  <2>2. ASSUME NEW x \in Tasks, out'[j] = <<x>> PROVE TaskFits(page'[j], x, status')
    <3>1. CASE j = cur
      BY <1>1, <1>5, <2>1, <2>2, <3>1 DEF TaskFits
    <3>2. CASE j # cur
      BY <1>1, <1>5, <2>1, <2>2, <3>2 DEF TaskFits, PlaceInv
    <3> QED
      BY <3>1, <3>2
  <2>3. j > cur => out'[j] = <<>>
    BY <1>1, <2>1, PageAssumption DEF PlaceInv, Pages
  <2> QED
    BY <1>5, <2>1, <2>2, <2>3 DEF PlaceInv
<1>7. This' = q /\ out'[cur'] = o
  BY <1>1 DEF This
<1>8. Mounts(This, out[cur])'
  BY <1>7 DEF Mounts
<1> QED
  BY <1>2, <1>4, <1>6, <1>8 DEF PageInv

\* A step of the editor leaves alone what is under way.
LEMMA EditKeeps ==
  ASSUME PageInv, Ready, NEW q \in PageRec, page' = [page EXCEPT ![cur] = q],
         UNCHANGED <<cur, out, status>>, draft' \in Drafts,
         typed' \in [Langs -> 1..MaxTyped \cup {None}], lost' \subseteq Langs,
         typings' \in 0..MaxTyped, clicks' \in 0..MaxClicks,
         \A f \in {"kind", "late", "loaded", "busy", "act", "err", "sub", "shown", "run",
                   "missed", "verdict"} : q[f] = This[f],
         DraftInv'
  PROVE  PageInv'
<1>1. /\ page \in [Pages -> PageRec] /\ out \in [Pages -> Lists] /\ cur \in Pages
      /\ This = page[cur] /\ This \in PageRec
  BY PageTypes DEF This
<1>2. out' = [out EXCEPT ![cur] = out[cur]] /\ out[cur] \in Lists
  BY <1>1
<1>3. /\ q.kind = This.kind /\ q.late = This.late /\ q.loaded = This.loaded
      /\ q.busy = This.busy /\ q.act = This.act /\ q.err = This.err /\ q.sub = This.sub
      /\ q.shown = This.shown /\ q.run = This.run /\ q.missed = This.missed
      /\ q.verdict = This.verdict
  OBVIOUS
<1>4. \A x : Asks(This, x) => Asks(q, x)
  BY <1>3 DEF Asks
<1>5. Latest(This) => Latest(q)
  BY <1>3 DEF Latest, Panel
<1>6. Mounts(q, out[cur])
  BY <1>3, <1>4, <1>5 DEF PageInv, Mounts, Ready
<1>7. \A x \in Tasks : out[cur] = <<x>> => TaskFits(This, x, status)
  BY <1>1 DEF PageInv, PlaceInv
<1> QED
  BY <1>2, <1>3, <1>6, <1>7, ClickKeeps

LEMMA TypeKeeps ==
  ASSUME PageInv, Type
  PROVE  PageInv'
<1> DEFINE q == [This EXCEPT !.code = typings', !.next = None]
<1>1. /\ This \in PageRec /\ page \in [Pages -> PageRec] /\ cur \in Pages /\ draft \in Drafts
      /\ typed \in [Langs -> 1..MaxTyped \cup {None}] /\ lost \subseteq Langs
      /\ typings \in Nat /\ clicks \in 0..MaxClicks
  BY PageTypes DEF PageInv, TypeOK
<1>2. typings' \in 1..MaxTyped /\ typings' \in Codes /\ typings' \in 0..MaxTyped
  BY <1>1, CodeFacts DEF Type, PageInv, TypeOK
<1>3. q \in PageRec /\ q.lang = This.lang /\ q.next = None
  BY <1>1, <1>2 DEF PageRec
<1>4. page' = [page EXCEPT ![cur] = q]
  BY <1>1 DEF Type, This
<1>5. This' = q
  BY <1>1, <1>4 DEF Type, This
<1>6. /\ draft' = [draft EXCEPT ![This.lang] = typings']
      /\ typed' = [typed EXCEPT ![This.lang] = typings'] /\ lost' = lost \ {This.lang}
      /\ Ready /\ UNCHANGED <<cur, out, status, clicks>> /\ This.lang \in Langs
  BY <1>1 DEF Type, KeepDraft, PageRec
<1>7. draft' \in Drafts /\ typed' \in [Langs -> 1..MaxTyped \cup {None}] /\ lost' \subseteq Langs
  BY <1>1, <1>2, <1>6 DEF Drafts
<1>8. DraftInv'
  <2>1. ASSUME NEW l \in Langs, l # This.lang, typed[l] # None, l \notin lost
        PROVE  draft[l] = typed[l]
    BY <2>1 DEF PageInv, DraftInv, DraftsKept
  <2>2. \A l \in Langs : typed'[l] # None /\ l \notin lost' => draft'[l] = typed'[l]
    BY <1>1, <1>6, <2>1 DEF Drafts
  <2> QED
    BY <1>3, <1>5, <2>2 DEF DraftInv, DraftsKept
<1>9. \A f \in {"kind", "late", "loaded", "busy", "act", "err", "sub", "shown", "run",
                "missed", "verdict"} : q[f] = This[f]
  BY <1>1 DEF PageRec
<1> HIDE DEF q
<1> QED
  BY <1>1, <1>2, <1>3, <1>4, <1>6, <1>7, <1>8, <1>9, EditKeeps

LEMMA SwitchKeeps ==
  ASSUME PageInv, NEW l \in Langs, Switch(l)
  PROVE  PageInv'
<1> DEFINE q == [This EXCEPT !.lang = l, !.next = ReadDraft(l)]
<1>1. /\ This \in PageRec /\ page \in [Pages -> PageRec] /\ cur \in Pages /\ draft \in Drafts
      /\ typed \in [Langs -> 1..MaxTyped \cup {None}] /\ lost \subseteq Langs
      /\ typings \in 0..MaxTyped /\ clicks \in 0..MaxClicks
  BY PageTypes DEF PageInv, TypeOK
<1>2. clicks' \in 0..MaxClicks
  BY <1>1, PageAssumption DEF Switch, Click
<1>3. ReadDraft(l) \in Codes /\ (draft[l] # None => ReadDraft(l) = draft[l])
  BY StoredCode DEF ReadDraft
<1>4. q \in PageRec /\ q.lang = l /\ q.next = ReadDraft(l)
  BY <1>1, <1>3 DEF PageRec
<1>5. page' = [page EXCEPT ![cur] = q]
  BY <1>1 DEF Switch, This
<1>6. This' = q
  BY <1>1, <1>5 DEF Switch, This
<1>7. /\ draft' = [draft EXCEPT ![l] = This.code] /\ l # This.lang
      /\ lost' = IF This.next # None THEN lost \cup {This.lang} ELSE lost
      /\ Ready /\ UNCHANGED <<cur, out, status, typed, typings>>
      /\ This.lang \in Langs /\ This.code \in Codes
  BY <1>1 DEF Switch, KeepDraft, PageRec
<1>8. draft' \in Drafts /\ lost' \subseteq Langs
  BY <1>1, <1>7 DEF Drafts
<1>9. DraftInv'
  <2>1. ASSUME NEW k \in Langs, typed[k] # None, k \notin lost'
        PROVE  draft[k] = typed[k]
    BY <1>7, <2>1 DEF PageInv, DraftInv, DraftsKept
  <2>2. \A k \in Langs : typed'[k] # None /\ k \notin lost' /\ k # l => draft'[k] = typed'[k]
    BY <1>1, <1>7, <2>1 DEF Drafts
  <2>3. typed[l] # None /\ l \notin lost' => ReadDraft(l) = typed[l]
    BY <1>3, <2>1
  <2>4. ReadDraft(l) # None
    BY <1>3, CodeFacts
  <2> QED
    BY <1>4, <1>6, <1>7, <2>2, <2>3, <2>4 DEF DraftInv, DraftsKept
<1>10. \A f \in {"kind", "late", "loaded", "busy", "act", "err", "sub", "shown", "run",
                 "missed", "verdict"} : q[f] = This[f]
  BY <1>1 DEF PageRec
<1> HIDE DEF q
<1> QED
  BY <1>1, <1>2, <1>4, <1>5, <1>7, <1>8, <1>9, <1>10, EditKeeps

LEMMA SettleKeeps ==
  ASSUME PageInv, Settle
  PROVE  PageInv'
<1> DEFINE q == [This EXCEPT !.code = This.next, !.next = None]
<1>1. /\ This \in PageRec /\ page \in [Pages -> PageRec] /\ cur \in Pages /\ draft \in Drafts
      /\ typed \in [Langs -> 1..MaxTyped \cup {None}] /\ lost \subseteq Langs
      /\ typings \in 0..MaxTyped /\ clicks \in 0..MaxClicks
  BY PageTypes DEF PageInv, TypeOK
<1>2. /\ draft' = [draft EXCEPT ![This.lang] = This.next] /\ This.next # None
      /\ Ready /\ UNCHANGED <<cur, out, status, typed, lost, typings, clicks>>
      /\ This.lang \in Langs /\ This.next \in Codes
  BY <1>1 DEF Settle, KeepDraft, PageRec
<1>3. q \in PageRec /\ q.lang = This.lang /\ q.next = None
  BY <1>1, <1>2 DEF PageRec
<1>4. page' = [page EXCEPT ![cur] = q]
  BY <1>1 DEF Settle, This
<1>5. This' = q
  BY <1>1, <1>2, <1>4 DEF This
<1>6. draft' \in Drafts
  BY <1>1, <1>2 DEF Drafts
<1>7. DraftInv'
  <2>1. ASSUME NEW l \in Langs, typed[l] # None, l \notin lost
        PROVE  IF l = This.lang THEN This.next = typed[l] ELSE draft[l] = typed[l]
    BY <1>2, <2>1 DEF PageInv, DraftInv, DraftsKept
  <2>2. \A l \in Langs : typed'[l] # None /\ l \notin lost' => draft'[l] = typed'[l]
    BY <1>1, <1>2, <2>1 DEF Drafts
  <2> QED
    BY <1>3, <1>5, <2>2 DEF DraftInv, DraftsKept
<1>8. \A f \in {"kind", "late", "loaded", "busy", "act", "err", "sub", "shown", "run",
                "missed", "verdict"} : q[f] = This[f]
  BY <1>1 DEF PageRec
<1> HIDE DEF q
<1> QED
  BY <1>1, <1>2, <1>3, <1>4, <1>6, <1>7, <1>8, EditKeeps

\* A click on Run or Submit: the buttons are disabled, and a request goes out.
LEMMA ClickSends ==
  ASSUME PageInv, Ready, Enabled, NEW q \in PageRec, NEW k \in {"run", "submit"},
         page' = [page EXCEPT ![cur] = q], Adds(<<Task(k, 0)>>),
         UNCHANGED <<cur, status, draft, typed, lost, typings>>, clicks' \in 0..MaxClicks,
         q.kind = This.kind, q.late = This.late, q.loaded = This.loaded, q.next = This.next,
         q.lang = This.lang, q.busy = TRUE, q.err = FALSE, q.act = k
  PROVE  PageInv'
<1> DEFINE x == Task(k, 0)
<1>1. /\ This \in PageRec /\ page \in [Pages -> PageRec] /\ cur \in Pages
      /\ out \in [Pages -> Lists] /\ draft \in Drafts /\ lost \subseteq Langs
      /\ typed \in [Langs -> 1..MaxTyped \cup {None}] /\ typings \in 0..MaxTyped
  BY PageTypes DEF PageInv, TypeOK
<1>2. /\ x \in Tasks /\ <<x>> \in Lists /\ x.kind = k /\ x.sub = 0 /\ <<x>> # <<>>
      /\ \A y : <<x>> = <<y>> => y = x
  BY DEF Task, Tasks, Lists
<1>3. This.kind = "problem" /\ This.loaded /\ out[cur] = <<>>
  BY DEF PageInv, Mounts, Ready, Enabled
<1>4. out' = [out EXCEPT ![cur] = out[cur] \o <<x>>]
  BY <1>1 DEF Adds
<1> HIDE DEF x
<1>5. out[cur] \o <<x>> = <<x>>
  BY <1>1, <1>2, <1>3, ListFacts
<1>6. out' = [out EXCEPT ![cur] = <<x>>]
  BY <1>4, <1>5
<1>7. \A y \in Tasks : <<x>> = <<y>> => TaskFits(This, y, status)
  BY <1>2, <1>3 DEF TaskFits
<1>8. Asks(q, x)
  BY <1>2 DEF Asks
<1>9. Mounts(q, <<x>>)
  BY <1>2, <1>3, <1>8 DEF Mounts, Latest
<1>10. This' = q
  BY <1>1 DEF This
<1>11. DraftInv'
  BY <1>10, SameDrafts DEF PageInv
<1> QED
  BY <1>1, <1>2, <1>6, <1>7, <1>9, <1>11, ClickKeeps

LEMMA RunKeeps ==
  ASSUME PageInv, Run
  PROVE  PageInv'
<1> DEFINE q == [This EXCEPT !.busy = TRUE, !.err = FALSE, !.act = "run"]
<1>1. /\ This \in PageRec /\ page \in [Pages -> PageRec] /\ cur \in Pages
      /\ clicks \in 0..MaxClicks
  BY PageTypes DEF PageInv, TypeOK
<1>2. page' = [page EXCEPT ![cur] = q]
  BY <1>1 DEF Run, This
<1>3. /\ q \in PageRec /\ q.kind = This.kind /\ q.late = This.late /\ q.loaded = This.loaded
      /\ q.next = This.next /\ q.lang = This.lang /\ q.busy = TRUE /\ q.err = FALSE
      /\ q.act = "run"
  BY <1>1 DEF PageRec
<1>4. clicks' \in 0..MaxClicks
  BY <1>1, PageAssumption DEF Run, Click
<1> HIDE DEF q
<1> QED
  BY <1>2, <1>3, <1>4, ClickSends DEF Run

LEMMA SubmitKeeps ==
  ASSUME PageInv, Submit
  PROVE  PageInv'
<1> DEFINE q == [This EXCEPT !.busy = TRUE, !.err = FALSE, !.run = FALSE,
                             !.act = "submit", !.missed = FALSE, !.sub = 0]
<1>1. /\ This \in PageRec /\ page \in [Pages -> PageRec] /\ cur \in Pages
      /\ clicks \in 0..MaxClicks
  BY PageTypes DEF PageInv, TypeOK
<1>2. page' = [page EXCEPT ![cur] = q]
  BY <1>1 DEF Submit, This
<1>3. /\ q \in PageRec /\ q.kind = This.kind /\ q.late = This.late /\ q.loaded = This.loaded
      /\ q.next = This.next /\ q.lang = This.lang /\ q.busy = TRUE /\ q.err = FALSE
      /\ q.act = "submit"
  BY <1>1 DEF PageRec
<1>4. clicks' \in 0..MaxClicks
  BY <1>1 DEF Submit
<1> HIDE DEF q
<1> QED
  BY <1>2, <1>3, <1>4, ClickSends DEF Submit

-------------------------------------------------------------------------------
(* Another page, and the backend.                                          *)

LEMMA CleanPage ==
  /\ NoPage \in PageRec /\ NoPage.kind = "none" /\ NoPage.late = 0 /\ NoPage.next = None
  /\ NoPage.lang = 71 /\ NoPage.loaded = FALSE /\ NoPage.busy = FALSE
  /\ NoPage.act = "none" /\ NoPage.sub = 0
  BY CodeFacts DEF NoPage, PageRec

\* clearTimeout leaves a list of tasks, and adds none.
LEMMA TimerCleared ==
  ASSUME PageInv, NEW i \in Pages
  PROVE  /\ ClearTimer(i) \in Lists
         /\ \A x : ClearTimer(i) = <<x>> => out[i] = <<x>>
<1>1. out[i] \in Lists
  BY PageTypes
<1>2. CASE Timers(i) = {}
  BY <1>1, <1>2 DEF ClearTimer
<1>3. CASE Timers(i) # {}
  <2>1. \A n \in DOMAIN out[i] : n = 1 /\ RemoveAt(out[i], n) = <<>>
    BY <1>1, ListFacts
  <2>2. Timers(i) = {1} /\ 1 \in DOMAIN out[i]
    BY <1>3, <2>1 DEF Timers
  <2>3. Max(Timers(i)) = 1
    BY <2>2 DEF Max
  <2> QED
    BY <1>3, <2>1, <2>2, <2>3 DEF ClearTimer, Lists
<1> QED
  BY <1>2, <1>3

LEMMA OpenKeeps ==
  ASSUME PageInv, NEW k \in {"problem", "detail"}, NEW s \in Subs \cup {0}, Open(k, s)
  PROVE  PageInv'
<1> DEFINE new == [NoPage EXCEPT !.kind = k, !.sub = s]
           old == [NoPage EXCEPT !.kind = This.kind]
           x   == Task("load", s)
           o   == IF This.kind = "problem" THEN ClearTimer(cur) ELSE out[cur]
<1>1. /\ This \in PageRec /\ page \in [Pages -> PageRec] /\ cur \in Pages /\ status \in States
      /\ out \in [Pages -> Lists] /\ draft \in Drafts /\ lost \subseteq Langs
      /\ This = page[cur] /\ PlaceInv(cur)
  BY PageTypes DEF PageInv, This
<1>2. cur < MaxOpens /\ cur' = cur + 1 /\ cur' \in Pages /\ cur' # cur
  BY <1>1, PageAssumption DEF Open, Pages
<1>3. This.kind \in {"problem", "detail"}
  BY <1>1, PageAssumption DEF PlaceInv, Pages, PageRec
<1>4. /\ new \in PageRec /\ new.kind = k /\ new.late = 0 /\ new.next = None /\ new.lang = 71
      /\ new.loaded = FALSE /\ new.busy = FALSE /\ new.act = "none"
  BY CleanPage DEF PageRec
<1>5. old \in PageRec /\ old.kind = This.kind /\ old.late = 0
  BY <1>3, CleanPage DEF PageRec
<1>6. page' = [page EXCEPT ![cur] = old, ![cur'] = new]
  BY DEF Open
<1>7. /\ x \in Tasks /\ <<x>> \in Lists /\ x.kind = "load" /\ x.sub = s
      /\ \A y : <<x>> = <<y>> => y = x
  BY DEF Task, Tasks, Lists
<1>8. o \in Lists /\ \A y : o = <<y>> => out[cur] = <<y>>
  BY <1>1, TimerCleared
<1>9. out' = [out EXCEPT ![cur] = o, ![cur'] = <<x>>]
  BY <1>1, <1>2 DEF Open
<1>10. /\ UNCHANGED <<draft, status, typed, typings, clicks>>
       /\ lost' = IF This.next # None THEN lost \cup {This.lang} ELSE lost
       /\ k = "detail" => s \in Subs /\ status[s] # "none"
  BY DEF Open
<1> HIDE DEF new, old, x, o
<1>11. page' \in [Pages -> PageRec] /\ out' \in [Pages -> Lists]
  BY <1>1, <1>2, <1>4, <1>5, <1>6, <1>7, <1>8, <1>9
<1>12. /\ page'[cur] = old /\ page'[cur'] = new /\ out'[cur] = o /\ out'[cur'] = <<x>>
       /\ \A j \in Pages : j # cur /\ j # cur' => page'[j] = page[j] /\ out'[j] = out[j]
  BY <1>1, <1>2, <1>6, <1>9
<1>13. TypeOK'
  <2>1. \A j \in Pages : \A m \in DOMAIN out'[j] : out'[j][m] \in Tasks
    BY <1>11, ListFacts
  <2>2. lost' \subseteq Langs
    BY <1>1, <1>10 DEF PageRec
  <2> QED
    BY <1>2, <1>10, <1>11, <2>1, <2>2 DEF PageInv, TypeOK, PageRec, Tasks
<1>14. ASSUME NEW j \in Pages PROVE PlaceInv(j)'
  <2>1. PlaceInv(j) /\ cur' = cur + 1 /\ status' = status /\ j \in Nat /\ cur \in Nat
    BY <1>1, <1>2, <1>10, PageAssumption DEF PageInv, Pages
  <2>2. CASE j = cur
    <3>1. \A y \in Tasks : o = <<y>> => TaskFits(old, y, status)
      BY <1>1, <1>5, <1>8 DEF PlaceInv, TaskFits
    <3>2. page'[j] = old /\ out'[j] = o /\ j <= cur' /\ ~(j > cur') /\ j # cur'
      BY <1>2, <1>12, <2>1, <2>2
    <3> QED
      BY <1>3, <1>5, <2>1, <3>1, <3>2 DEF PlaceInv
  <2>3. CASE j = cur'
    <3>1. \A y \in Tasks : <<x>> = <<y>> => TaskFits(new, y, status)
      BY <1>4, <1>7, <1>10 DEF TaskFits
    <3> QED
      BY <1>2, <1>4, <1>12, <2>1, <2>3, <3>1 DEF PlaceInv
  <2>4. CASE j # cur /\ j # cur'
    BY <1>12, <2>1, <2>4 DEF PlaceInv
  <2> QED
    BY <2>2, <2>3, <2>4
<1>15. This' = new /\ out'[cur'] = <<x>>
  BY <1>12 DEF This
<1>16. Mounts(new, <<x>>)
  BY <1>4, <1>7 DEF Mounts, Idle, Latest
<1>17. DraftInv'
  <2>1. \A l \in Langs : typed[l] # None /\ l \notin lost' => draft[l] = typed[l]
    BY <1>10 DEF PageInv, DraftInv, DraftsKept
  <2> QED
    BY <1>4, <1>10, <1>15, <2>1 DEF DraftInv, DraftsKept
<1> QED
  BY <1>11, <1>13, <1>14, <1>15, <1>16, <1>17 DEF PageInv, Mounts

LEMMA BackendKeeps ==
  ASSUME PageInv, UNCHANGED <<cur, page, out, draft, typed, lost, typings, clicks>>,
         status' \in States, \A s \in Subs : status[s] # "none" => status'[s] # "none"
  PROVE  PageInv'
<1>1. This' = This /\ out'[cur'] = out[cur]
  BY DEF This
<1>2. TypeOK' /\ out' \in [Pages -> Lists]
  BY DEF PageInv, TypeOK, States
<1>3. \A j \in Pages : PlaceInv(j)'
  BY DEF PageInv, PlaceInv, TaskFits
<1>4. DraftInv'
  BY <1>1, SameDrafts DEF PageInv
<1> QED
  BY <1>1, <1>2, <1>3, <1>4 DEF PageInv, Mounts

-------------------------------------------------------------------------------
(* The theorems.                                                           *)

LEMMA InitPage ==
  ASSUME Init
  PROVE  PageInv
<1>1. PICK f \in {[NoPage EXCEPT !.kind = "problem"],
                  [NoPage EXCEPT !.kind = "detail", !.sub = 1]} :
        /\ page = [i \in Pages |-> IF i = 1 THEN f ELSE NoPage]
        /\ out = [i \in Pages |-> IF i = 1 THEN <<[kind |-> "load", sub |-> f.sub]>> ELSE <<>>]
        /\ status = [s \in Subs |-> IF s = f.sub THEN "RUNNING" ELSE "none"]
  BY DEF Init
<1> DEFINE x == [kind |-> "load", sub |-> f.sub]
<1>2. 1 \in Pages /\ 1 \in Subs /\ cur = 1 /\ 0 \notin Subs
  BY PageAssumption DEF Pages, Subs, Init
<1>3. /\ f \in PageRec /\ f.kind \in {"problem", "detail"} /\ f.late = 0 /\ f.next = None
      /\ f.lang = 71 /\ f.loaded = FALSE /\ f.busy = FALSE /\ f.act = "none"
      /\ f.kind = "detail" => f.sub = 1
  <2>1. CASE f = [NoPage EXCEPT !.kind = "problem"]
    BY <2>1, CleanPage DEF PageRec
  <2>2. CASE f = [NoPage EXCEPT !.kind = "detail", !.sub = 1]
    BY <1>2, <2>2, CleanPage DEF PageRec
  <2> QED
    BY <2>1, <2>2
<1>4. NoPage \in PageRec /\ NoPage.kind = "none"
  BY CleanPage
<1>5. /\ x \in Tasks /\ <<x>> \in Lists /\ <<>> \in Lists /\ x.kind = "load" /\ x.sub = f.sub
      /\ \A y : <<x>> = <<y>> => y = x
  <2>1. f.sub \in Subs \cup {0}
    BY <1>3 DEF PageRec
  <2>2. x \in Tasks /\ x.kind = "load" /\ x.sub = f.sub
    BY <2>1 DEF Tasks
  <2> HIDE DEF x
  <2> QED
    BY <2>2 DEF Lists
<1> HIDE DEF x
<1>6. page \in [Pages -> PageRec] /\ out \in [Pages -> Lists] /\ status \in States
  BY <1>1, <1>3, <1>4, <1>5 DEF States, x
<1>7. TypeOK
  <2>1. \A j \in Pages : \A m \in DOMAIN out[j] : out[j][m] \in Tasks
    BY <1>6, ListFacts
  <2>2. /\ draft \in Drafts /\ typed \in [Langs -> 1..MaxTyped \cup {None}] /\ lost = {}
        /\ typings \in 0..MaxTyped /\ clicks \in 0..MaxClicks
    BY PageAssumption DEF Init, Drafts
  <2> QED
    BY <1>2, <1>6, <2>1, <2>2 DEF TypeOK, PageRec, Tasks, Drafts, States
<1>8. ASSUME NEW j \in Pages PROVE PlaceInv(j)
  <2>1. CASE j = 1
    <3>1. page[j] = f /\ out[j] = <<x>>
      BY <1>1, <2>1 DEF x
    <3>2. f.kind = "detail" => f.sub \in Subs /\ status[f.sub] # "none"
      BY <1>1, <1>2, <1>3
    <3>3. \A y \in Tasks : out[j] = <<y>> => TaskFits(page[j], y, status)
      BY <1>5, <3>1, <3>2 DEF TaskFits
    <3> QED
      BY <1>2, <1>3, <2>1, <3>1, <3>3 DEF PlaceInv
  <2>2. CASE j # 1
    <3>1. page[j] = NoPage /\ out[j] = <<>> /\ j > cur
      BY <1>1, <1>2, <2>2 DEF Pages
    <3>2. \A y : <<>> # <<y>>
      OBVIOUS
    <3> QED
      BY <1>2, <1>4, <3>1, <3>2 DEF PlaceInv, Pages
  <2> QED
    BY <2>1, <2>2
<1>9. This = f /\ out[cur] = <<x>>
  BY <1>1, <1>2 DEF This, x
<1>10. Mounts(f, <<x>>)
  BY <1>3, <1>5 DEF Mounts, Idle, Latest
<1>11. DraftInv
  BY <1>3, <1>9 DEF DraftInv, DraftsKept, Init
<1> QED
  BY <1>6, <1>7, <1>8, <1>9, <1>10, <1>11 DEF PageInv

LEMMA PageStep ==
  ASSUME PageInv, [Next]_vars
  PROVE  PageInv'
<1>1. CASE Type
  BY <1>1, TypeKeeps
<1>2. CASE Settle
  BY <1>2, SettleKeeps
<1>3. CASE Run
  BY <1>3, RunKeeps
<1>4. CASE Submit
  BY <1>4, SubmitKeeps
<1>5. CASE \E l \in Langs : Switch(l)
  BY <1>5, SwitchKeeps
<1>6. CASE \E s \in Subs \cup {0}, k \in {"problem", "detail"} : Open(k, s)
  BY <1>6, OpenKeeps
<1>7. ASSUME NEW i \in Pages, NEW n \in DOMAIN out[i], Answers(i, n)
      PROVE  PageInv'
  BY <1>7, LoadedInv, RunAnsweredInv, SubmitAnsweredInv, PolledInv, FetchedInv, TimerFiresInv
     DEF Answers
<1>8. ASSUME NEW s \in Subs, Grade(s)
      PROVE  PageInv'
  <2>1. status \in States
    BY PageTypes
  <2>2. status' \in States /\ \A r \in Subs : status[r] # "none" => status'[r] # "none"
    BY <1>8, <2>1 DEF Grade, States
  <2> QED
    BY <1>8, <2>2, BackendKeeps DEF Grade
<1>9. CASE Gone
  <2>1. status' \in States /\ \A r \in Subs : status'[r] # "none"
    BY <1>9 DEF Gone, States
  <2> QED
    BY <1>9, <2>1, BackendKeeps DEF Gone
<1>10. CASE UNCHANGED vars
  BY <1>10, PageTypes, BackendKeeps DEF vars
<1> QED
  BY <1>1, <1>2, <1>3, <1>4, <1>5, <1>6, <1>7, <1>8, <1>9, <1>10 DEF Next

\* What PageInv says of the pages, of the panel and of the drafts.
LEMMA PageMeans ==
  ASSUME PageInv
  PROVE  PagesInv /\ ShownIsLatest /\ DraftsKept
<1>1. \A i \in Pages : Len(out[i]) <= 1
  BY PageTypes, ListFacts
<1>2. OneChain
  BY <1>1 DEF OneChain, PageInv, Mounts, Mounted, This
<1>3. LeavingEndsPolling
  BY DEF LeavingEndsPolling, PageInv, PlaceInv
<1>4. ShownIsLatest
  BY DEF ShownIsLatest, PageInv, Mounts, Mounted, Latest, This
<1> QED
  BY <1>2, <1>3, <1>4 DEF PagesInv, PageInv, DraftInv

\* Every page has one request or timer under way at a time, the buttons of the
\* mounted one are disabled exactly as long, and a page of a submission that was
\* left asks once more at most.
THEOREM PagesKept == Spec => []PagesInv
<1>1. Init => PageInv
  BY InitPage
<1>2. PageInv /\ [Next]_vars => PageInv'
  BY PageStep
<1>3. PageInv => PagesInv
  BY PageMeans
<1> QED
  BY <1>1, <1>2, <1>3, PTL DEF Spec

\* When the buttons are enabled again, the panel shows the answer to the last
\* click, never that to an earlier one.
THEOREM PanelIsLatest == Spec => []ShownIsLatest
<1>1. Init => PageInv
  BY InitPage
<1>2. PageInv /\ [Next]_vars => PageInv'
  BY PageStep
<1>3. PageInv => ShownIsLatest
  BY PageMeans
<1> QED
  BY <1>1, <1>2, <1>3, PTL DEF Spec

\* What the user typed last in a language is what its draft holds, outside the
\* two renders of a switch.
THEOREM DraftsSurvive == Spec => []DraftsKept
<1>1. Init => PageInv
  BY InitPage
<1>2. PageInv /\ [Next]_vars => PageInv'
  BY PageStep
<1>3. PageInv => DraftsKept
  BY PageMeans
<1> QED
  BY <1>1, <1>2, <1>3, PTL DEF Spec
===============================================================================
