----------------------------- MODULE MCJudgeService -----------------------------
(***************************************************************************)
(* Small instances of JudgeService for TLC.                                *)
(***************************************************************************)
EXTENDS JudgeService, TLC

CONSTANTS r1, r2, r3, w1, w2

\* A batch of two beside a single creation that waits for its result.
BatchAndWaitKind == [r \in Reqs |-> IF r = r1 THEN "batch" ELSE "wait"]
BatchAndWaitSize == [r \in Reqs |-> IF r = r1 THEN 2 ELSE 1]

\* Two batches of two beside it.
BatchesAndWaitKind == [r \in Reqs |-> IF r = r3 THEN "wait" ELSE "batch"]
BatchesAndWaitSize == [r \in Reqs |-> IF r = r3 THEN 1 ELSE 2]

\* The second item of the batch does not pass the validations.
SecondInvalid == {<<r1, 2>>}

\* No property and no step tells two workers apart.
WorkersAlike == Permutations(Workers)
=================================================================================
