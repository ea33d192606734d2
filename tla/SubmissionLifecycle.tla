-------------------------- MODULE SubmissionLifecycle --------------------------
(***************************************************************************)
(* What the holder of a token may see of a submission of Judge0: it waits, *)
(* it is processed, it is done, it is deleted, in this order. Only a       *)
(* submission that is enqueued a second time (judge0:run_in_queue) is      *)
(* processed again after it was done, and may be deleted on the way.       *)
(***************************************************************************)
CONSTANTS Subm, MayRerun

VARIABLE seen

Init == seen \in [Subm -> {"none", "queue"}]

Moves(s, from, to) == seen[s] \in from /\ seen' = [seen EXCEPT ![s] = to]

Create(s) == Moves(s, {"none"}, "queue")
Start(s)  == Moves(s, {"queue"}, "process")
End(s)    == Moves(s, {"queue", "process"}, "final")
Delete(s) == Moves(s, {"final"} \cup (IF MayRerun THEN {"process"} ELSE {}), "deleted")
Rerun(s)  == MayRerun /\ Moves(s, {"final"}, "process")

\* (Every move changes seen[s]; to say so first lets TLC pass over the steps
\* that leave the submission alone.)
Next == \E s \in Subm : seen'[s] # seen[s] /\
          (Create(s) \/ Start(s) \/ End(s) \/ Delete(s) \/ Rerun(s))

Spec == Init /\ [][Next]_seen
=================================================================================
