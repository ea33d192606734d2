------------------------------ MODULE ProblemPage ------------------------------
(***************************************************************************)
(* The pages a user works on: app/problems/[slug]/page.tsx, with its       *)
(* drafts in localStorage, Run, Submit and the polling of the verdict, and *)
(* app/submissions/[id]/page.tsx, which polls as well.  One browser tab    *)
(* opens page after page; a page that was left sets no state any more, but *)
(* its requests, and what their answers set off, go on.  The backend is    *)
(* what GradingPromise lets a reader see of a submission.                  *)
(***************************************************************************)
EXTENDS Integers, FiniteSets, SequencesExt

CONSTANTS
  Langs,          \* language ids, 71 among them
  WithStarter,    \* the languages the problem has a starter code for
  MaxOpens, MaxSubs, MaxTyped, MaxClicks   \* bounds: pages, submissions, edits,
                                          \* runs and switches

ASSUME PageAssumption ==
  /\ 71 \in Langs /\ Langs \subseteq 10..99 /\ WithStarter \subseteq Langs
  /\ MaxOpens \in Nat \ {0} /\ MaxSubs \in Nat \ {0} /\ MaxTyped \in 0..9 /\ MaxClicks \in Nat

Pages == 1..MaxOpens
Subs  == 1..MaxSubs
None  == -1
\* A code is "" (0), the starter of a language (its id) or what the user typed.
Codes == {0} \cup Langs \cup 1..MaxTyped
Starter(l) == IF l \in WithStarter THEN l ELSE 0

VARIABLES
  cur,            \* the page that is mounted, the last one opened
  page,           \* the React state of every page
  out,            \* what each page has under way: requests and timers
  draft,          \* localStorage, by language
  status,         \* the submissions in the database ("none": no row)
  typed, lost,    \* history: what the user typed last; drafts cut short
  typings, clicks \* bounds

vars == <<cur, page, out, draft, status, typed, lost, typings, clicks>>

NoPage == [kind |-> "none", sub |-> 0, loaded |-> FALSE, lang |-> 71, code |-> 0, next |-> None,
           busy |-> FALSE, err |-> FALSE, run |-> FALSE, shown |-> 0, verdict |-> "none",
           act |-> "none", missed |-> FALSE, late |-> 0]
NoTask == [kind |-> "none", sub |-> 0]

\* The first page is a problem's, or that of a submission made elsewhere.
Init ==
  /\ cur = 1
  /\ \E first \in {[NoPage EXCEPT !.kind = "problem"], [NoPage EXCEPT !.kind = "detail", !.sub = 1]} :
       /\ page = [i \in Pages |-> IF i = 1 THEN first ELSE NoPage]
       /\ out = [i \in Pages |-> IF i = 1 THEN <<[kind |-> "load", sub |-> first.sub]>> ELSE <<>>]
       /\ status = [s \in Subs |-> IF s = first.sub THEN "RUNNING" ELSE "none"]
  /\ draft = [l \in Langs |-> None]
  /\ typed = [l \in Langs |-> None] /\ lost = {}
  /\ typings = 0 /\ clicks = 0

This    == page[cur]
Ready   == This.kind = "problem" /\ This.loaded
Mounted(i) == i = cur
Change(i, p) == page' = IF Mounted(i) THEN [page EXCEPT ![i] = p] ELSE page
\* Task n of page i ends, and the tasks ts begin.
Goes(i, n, ts) == out' = [out EXCEPT ![i] = RemoveAt(@, n) \o ts]
Adds(ts)    == out' = [out EXCEPT ![cur] = @ \o ts]
Task(kind, s) == [kind |-> kind, sub |-> s]
Click       == clicks < MaxClicks /\ clicks' = clicks + 1   \* bound
Final(st)   == st \in {"AC", "WA"}

ToldToWaitForAll(st) == st # "AC"
ToldToWait(st) == st \in {"PENDING", "RUNNING"}

-------------------------------------------------------------------------------
(* Drafts.                                                                 *)

Stored(l) == IF draft[l] # None THEN draft[l] ELSE Starter(l)
KeepDraft(l, c) == draft' = [draft EXCEPT ![l] = c]

\* The problem arrives: draft or starter is shown, and stored as a draft.
Loaded(i, n) ==
  /\ out[i][n].kind = "load" /\ page[i].kind = "problem"
  /\ Goes(i, n, <<>>)
  /\ \/ /\ Change(i, [page[i] EXCEPT !.loaded = TRUE, !.code = Stored(71)])
        /\ IF Mounted(i) THEN KeepDraft(71, Stored(71)) ELSE UNCHANGED draft
     \/ /\ Change(i, [page[i] EXCEPT !.err = TRUE])
        /\ UNCHANGED draft
  /\ UNCHANGED <<cur, status, typed, lost, typings, clicks>>

\* Typing re-renders the page with the new code, and the effect stores it.
Type ==
  /\ Ready /\ typings < MaxTyped
  /\ typings' = typings + 1
  /\ page' = [page EXCEPT ![cur].code = typings', ![cur].next = None]
  /\ KeepDraft(This.lang, typings')
  /\ typed' = [typed EXCEPT ![This.lang] = typings']
  /\ lost' = lost \ {This.lang}
  /\ UNCHANGED <<cur, out, status, clicks>>

\* What the first effect reads before the second one stores.
ReadDraftTooLate(l) == This.code
ReadDraft(l) == Stored(l)

\* Another language is chosen.  The first render still has the old code: one
\* effect asks for the code of the new language, the other stores the old code
\* as its draft ...
Switch(l) ==
  /\ Ready /\ l # This.lang /\ Click
  /\ page' = [page EXCEPT ![cur].lang = l, ![cur].next = ReadDraft(l)]
  /\ KeepDraft(l, This.code)
  /\ lost' = IF This.next # None THEN lost \cup {This.lang} ELSE lost
  /\ UNCHANGED <<cur, out, status, typed, typings>>

\* ... until the second render stores the right one.
Settle ==
  /\ Ready /\ This.next # None
  /\ page' = [page EXCEPT ![cur].code = This.next, ![cur].next = None]
  /\ KeepDraft(This.lang, This.next)
  /\ UNCHANGED <<cur, out, status, typed, lost, typings, clicks>>

-------------------------------------------------------------------------------
(* Run and Submit.                                                         *)

EnabledAlways == TRUE
Enabled == ~This.busy

Run ==
  /\ Ready /\ Enabled /\ Click
  /\ page' = [page EXCEPT ![cur].busy = TRUE, ![cur].err = FALSE, ![cur].act = "run"]
  /\ Adds(<<Task("run", 0)>>)
  /\ UNCHANGED <<cur, draft, status, typed, lost, typings>>

RunShownBeside(p) == [p EXCEPT !.run = TRUE, !.busy = FALSE]
RunShown(p) == [p EXCEPT !.run = TRUE, !.shown = 0, !.busy = FALSE]

RunAnswered(i, n) ==
  /\ out[i][n].kind = "run"
  /\ Goes(i, n, <<>>)
  /\ \/ Change(i, RunShown(page[i]))
     \/ Change(i, [page[i] EXCEPT !.err = TRUE, !.busy = FALSE])
  /\ UNCHANGED <<cur, draft, status, typed, lost, typings, clicks>>

NextSub == {s \in Subs : status[s] = "none" /\ \A r \in 1..s-1 : status[r] # "none"}

Submit ==
  /\ Ready /\ Enabled /\ NextSub # {}
  /\ page' = [page EXCEPT ![cur].busy = TRUE, ![cur].err = FALSE, ![cur].run = FALSE,
                          ![cur].act = "submit", ![cur].missed = FALSE, ![cur].sub = 0]
  /\ Adds(<<Task("submit", 0)>>)
  /\ UNCHANGED <<cur, draft, status, typed, lost, typings, clicks>>

\* 202: the submission is RUNNING, and is polled, from a page that was left too.
SubmitAnswered(i, n) ==
  /\ out[i][n].kind = "submit"
  /\ \/ \E s \in NextSub :
          /\ status' = [status EXCEPT ![s] = "RUNNING"]
          /\ Goes(i, n, <<Task("get", s)>>)
          /\ Change(i, [page[i] EXCEPT !.sub = s])
     \/ /\ Goes(i, n, <<>>)
        /\ Change(i, [page[i] EXCEPT !.err = TRUE, !.busy = FALSE])
        /\ UNCHANGED status
  /\ UNCHANGED <<cur, draft, typed, lost, typings, clicks>>

\* GET /submissions/:id is answered, for the problem page.
Polled(i, n) ==
  LET s == out[i][n].sub IN
  /\ out[i][n].kind = "get" /\ page[i].kind = "problem"
  /\ \/ /\ status[s] # "gone"
        /\ Goes(i, n, IF ToldToWait(status[s]) THEN <<Task("timer", s)>> ELSE <<>>)
        /\ Change(i, [page[i] EXCEPT !.shown = s, !.verdict = status[s],
                                     !.busy = @ /\ ToldToWait(status[s])])
     \/ /\ Goes(i, n, <<>>)                          \* an error ends the polling
        /\ Change(i, [page[i] EXCEPT !.busy = FALSE, !.missed = TRUE])
  /\ UNCHANGED <<cur, draft, status, typed, lost, typings, clicks>>

\* The same on the page of one submission, which looks first whether it is
\* still there.
Alive(i) == Mounted(i)

Fetched(i, n) ==
  LET s == out[i][n].sub IN
  /\ out[i][n].kind \in {"load", "get"} /\ page[i].kind = "detail"
  /\ \/ /\ status[s] # "gone"
        /\ Goes(i, n, IF Alive(i) /\ ToldToWait(status[s]) THEN <<Task("timer", s)>> ELSE <<>>)
        /\ Change(i, [page[i] EXCEPT !.loaded = TRUE, !.shown = s, !.verdict = status[s]])
     \/ Goes(i, n, <<>>) /\ Change(i, [page[i] EXCEPT !.missed = TRUE])
  /\ UNCHANGED <<cur, draft, status, typed, lost, typings, clicks>>

TimerFires(i, n) ==
  /\ out[i][n].kind = "timer"
  /\ Goes(i, n, <<Task("get", out[i][n].sub)>>)
  /\ page' = IF Mounted(i) THEN page ELSE [page EXCEPT ![i].late = IF @ < 2 THEN @ + 1 ELSE @]
  /\ UNCHANGED <<cur, draft, status, typed, lost, typings, clicks>>

-------------------------------------------------------------------------------
\* clearTimeout(pollTimer.current): the timer that was set last.
Timers(i) == {n \in DOMAIN out[i] : out[i][n].kind = "timer"}
ClearTimer(i) == IF Timers(i) = {} THEN out[i] ELSE RemoveAt(out[i], Max(Timers(i)))

\* Another page is opened, and the state of the old one is dropped: the problem
\* page clears its timer when it goes, the page of a submission leaves it.
Open(kind, s) ==
  /\ cur < MaxOpens /\ cur' = cur + 1
  /\ \/ kind = "problem" /\ s = 0
     \/ kind = "detail" /\ s \in Subs /\ status[s] # "none"
  /\ page' = [page EXCEPT ![cur] = [NoPage EXCEPT !.kind = This.kind],
                          ![cur'] = [NoPage EXCEPT !.kind = kind, !.sub = s]]
  /\ out' = [out EXCEPT ![cur'] = <<Task("load", s)>>,
       ![cur] = IF This.kind = "problem" THEN ClearTimer(cur) ELSE @]
  /\ lost' = IF This.next # None THEN lost \cup {This.lang} ELSE lost
  /\ UNCHANGED <<draft, status, typed, typings, clicks>>

\* The backend: a verdict, or the problem is deleted with its submissions.
Grade(s) ==
  /\ status[s] = "RUNNING"
  /\ \E v \in {"AC", "WA"} : status' = [status EXCEPT ![s] = v]
  /\ UNCHANGED <<cur, page, out, draft, typed, lost, typings, clicks>>
Gone ==
  /\ \E s \in Subs : status[s] # "none"
  /\ status' = [s \in Subs |-> "gone"]
  /\ UNCHANGED <<cur, page, out, draft, typed, lost, typings, clicks>>

Answers(i, n) == \/ Loaded(i, n) \/ RunAnswered(i, n) \/ SubmitAnswered(i, n)
                 \/ Polled(i, n) \/ Fetched(i, n) \/ TimerFires(i, n)

Next ==
  \/ Type \/ Settle \/ Run \/ Submit
  \/ \E l \in Langs : Switch(l)
  \/ \E s \in Subs \cup {0}, kind \in {"problem", "detail"} : Open(kind, s)
  \/ \E i \in Pages : \E n \in DOMAIN out[i] : Answers(i, n)
  \/ \E s \in Subs : Grade(s)
  \/ Gone

\* A request is answered or fails, a timer fires, and Judge0 calls back.
Fairness == /\ \A i \in Pages : WF_vars(\E n \in DOMAIN out[i] : Answers(i, n))
            /\ \A s \in Subs : WF_vars(Grade(s))

Spec == Init /\ [][Next]_vars /\ Fairness

-------------------------------------------------------------------------------
TypeOK ==
  /\ cur \in Pages /\ typings \in 0..MaxTyped /\ clicks \in 0..MaxClicks
  /\ page \in [Pages -> [kind : {"none", "problem", "detail"}, sub : Subs \cup {0},
       loaded : BOOLEAN, lang : Langs, code : Codes, next : Codes \cup {None}, busy : BOOLEAN,
       err : BOOLEAN, run : BOOLEAN, shown : Subs \cup {0}, late : 0..2,
       verdict : {"none", "RUNNING", "AC", "WA"}, act : {"none", "run", "submit"}, missed : BOOLEAN]]
  /\ \A i \in Pages : \A n \in DOMAIN out[i] :
       out[i][n] \in [kind : {"load", "run", "submit", "get", "timer"}, sub : Subs \cup {0}]
  /\ draft \in [Langs -> Codes \cup {None}] /\ typed \in [Langs -> 1..MaxTyped \cup {None}]
  /\ status \in [Subs -> {"none", "RUNNING", "AC", "WA", "gone"}] /\ lost \subseteq Langs

\* A page has one thing under way at a time, a request or the timer of the next
\* one, and Run and Submit are disabled exactly as long as there is one: never
\* two chains of polls in one page.
OneChain == \A i \in Pages :
  /\ Len(out[i]) <= 1
  /\ Mounted(i) /\ page[i].kind = "problem" /\ page[i].loaded => page[i].busy = (out[i] # <<>>)

\* The page of a submission asks at most once more after it was left.
LeavingEndsPolling == \A i \in Pages : page[i].kind = "detail" => page[i].late <= 1

\* What the pages keep: their types, one chain of polls each, and its end after
\* a page of a submission was left.
PagesInv == TypeOK /\ OneChain /\ LeavingEndsPolling

\* What ResultPanel shows, in its order of preference.
Panel(p) == IF p.err THEN "error" ELSE IF p.shown # 0 THEN "submission"
            ELSE IF p.run THEN "run" ELSE IF p.busy THEN "running" ELSE "hint"

\* When the buttons are enabled again, the panel shows the answer to the last
\* click: the output of that run, the final verdict of that submission (not of
\* an earlier one), or the error.  Only a poll that failed ends in silence.
ShownIsLatest == \A i \in Pages :
  LET p == page[i] IN
  p.kind = "problem" /\ Mounted(i) /\ ~p.busy /\ p.act # "none" /\ ~p.missed =>
    \/ Panel(p) = "error"
    \/ p.act = "run" /\ Panel(p) = "run"
    \/ p.act = "submit" /\ Panel(p) = "submission" /\ p.shown = p.sub /\ Final(p.verdict)

\* What the user typed last in a language is what its draft holds, across
\* switches, runs and visits, unless the page was left, or the language changed
\* again, between the two renders of a switch.
DraftsKept == \A l \in Langs :
  typed[l] # None /\ l \notin lost /\ ~(This.lang = l /\ This.next # None) => draft[l] = typed[l]

\* Whatever a page has under way ends, also after it was left: polling stops
\* when the verdict is there, when the submission is gone and when a poll fails.
PollingEnds == \A i \in Pages : (out[i] # <<>>) ~> (out[i] = <<>>)
===============================================================================
