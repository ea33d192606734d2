------------------------------ MODULE GraderReduce ------------------------------
(***************************************************************************)
(* combineVerdicts of lib/grader.ts as the code computes it: reduce over   *)
(* the list of verdicts, one element per step, from the accumulator "AC".  *)
(* Grader states the result as the worst verdict of a set; this module     *)
(* shows that the reduction returns it, whatever the order of the list.    *)
(***************************************************************************)
EXTENDS Grader, Sequences

CONSTANT MaxCases   \* length of the longest list

ASSUME ReduceAssumption == MaxCases \in Nat

VARIABLES verdicts, i, acc

vars == <<verdicts, i, acc>>

\* (A fault of the comparison.)
TakesBetter(v, a) == RANK[v] <= RANK[a]
Takes(v, a) == RANK[v] >= RANK[a]

Init ==
  /\ \E n \in 0..MaxCases : verdicts \in [1..n -> SubmissionStatus]
  /\ i = 0 /\ acc = "AC"

Reduce ==
  /\ i < Len(verdicts)
  /\ i' = i + 1
  /\ acc' = IF Takes(verdicts[i + 1], acc) THEN verdicts[i + 1] ELSE acc
  /\ UNCHANGED verdicts

Spec == Init /\ [][Reduce]_vars

Seen   == {verdicts[j] : j \in 1..i}
Result == IF Len(verdicts) = 0 THEN "PENDING" ELSE acc

\* The list is one of verdicts and the accumulator the worst of what was seen.
ReduceInv ==
  /\ \E n \in 0..MaxCases : verdicts \in [1..n -> SubmissionStatus]
  /\ i \in 0..Len(verdicts)
  /\ IsWorst(acc, Seen \cup {"AC"})

\* When the reduction is through, the value it returns is the combined verdict
\* of the set of verdicts: neither their order nor repetitions matter.
ReducesToWorst == i = Len(verdicts) => Result = CombineVerdicts(Seen)
=================================================================================
