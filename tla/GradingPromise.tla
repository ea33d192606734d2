---------------------------- MODULE GradingPromise ----------------------------
(***************************************************************************)
(* What the grading pipeline promises to the one who reads a submission:   *)
(* it is asked to run a fixed set of tests, each of them is judged once,   *)
(* and a final verdict is published only when all of them are judged and   *)
(* is the worst of them. A published verdict is taken back only when the   *)
(* problem is deleted, or its tests were replaced under the submission.    *)
(***************************************************************************)
EXTENDS Grader

CONSTANTS Subs, TestIds, Outcomes

VARIABLES
  asked,    \* the tests the submission was asked to pass
  judged,   \* the Judge0 status id of each test, 0 before it is judged
  stale,    \* submissions whose tests were replaced since
  result    \* the status published, "none" without a submission

vars == <<asked, judged, stale, result>>

Init ==
  /\ asked = [s \in Subs |-> {}]
  /\ judged = [s \in Subs |-> [t \in TestIds |-> 0]]
  /\ stale = {}
  /\ result = [s \in Subs |-> "none"]

Ask(s) ==
  /\ asked[s] = {}
  /\ \E ts \in SUBSET TestIds : asked' = [asked EXCEPT ![s] = ts]
  /\ UNCHANGED <<judged, stale, result>>

Publish(s) ==
  /\ result[s] = "none" /\ asked[s] # {}
  /\ result' = [result EXCEPT ![s] = "PENDING"]
  /\ UNCHANGED <<asked, judged, stale>>

Start(s) ==
  /\ result[s] = "PENDING" /\ s \notin stale
  /\ result' = [result EXCEPT ![s] = "RUNNING"]
  /\ UNCHANGED <<asked, judged, stale>>

JudgeOne(s, t) ==
  /\ t \in asked[s] /\ judged[s][t] = 0
  /\ \E id \in Outcomes : judged' = [judged EXCEPT ![s][t] = id]
  /\ UNCHANGED <<asked, stale, result>>

\* Once graded, graded: the same verdict again, until it is stale.
Grade(s) ==
  /\ result[s] # "none" /\ asked[s] # {}
  /\ \A t \in asked[s] : judged[s][t] # 0
  /\ result' = [result EXCEPT ![s] =
                  CombineVerdicts({Judge0StatusToVerdict(judged[s][t]) : t \in asked[s]})]
  /\ UNCHANGED <<asked, judged, stale>>

Reset(s) ==
  /\ s \in stale /\ result[s] # "none"
  /\ result' = [result EXCEPT ![s] = "PENDING"]
  /\ UNCHANGED <<asked, judged, stale>>

\* The tests of a problem are replaced; the submissions may go with it.
Replace ==
  /\ \E ss \in SUBSET Subs : stale' = stale \cup ss
  /\ \E gone \in SUBSET Subs : /\ \A s \in gone : asked[s] = {} \/ s \in stale'
                               /\ result' = [s \in Subs |-> IF s \in gone THEN "none"
                                                            ELSE result[s]]
  /\ UNCHANGED <<asked, judged>>

Next ==
  \/ \E s \in Subs : \/ Ask(s) \/ Publish(s) \/ Start(s) \/ Grade(s) \/ Reset(s)
                     \/ \E t \in TestIds : JudgeOne(s, t)
  \/ Replace

Spec == Init /\ [][Next]_vars
===============================================================================
