--------------------------- MODULE GraderReduce_proofs ---------------------------
(***************************************************************************)
(* The reduction of GraderReduce returns the combined verdict, for lists   *)
(* of every length.                                                        *)
(***************************************************************************)
EXTENDS GraderReduce, TLAPS

\* The ranks of the table RANK, spelled out.
LEMMA Ranks ==
  /\ RANK["AC"] = 0 /\ RANK["PENDING"] = 1 /\ RANK["RUNNING"] = 2
  /\ RANK["WA"] = 3 /\ RANK["TLE"] = 4 /\ RANK["MLE"] = 5
  /\ RANK["RE"] = 6 /\ RANK["CE"] = 7 /\ RANK["IE"] = 8
  BY DEF RANK, SubmissionStatus, FinalVerdicts

\* Different verdicts have different ranks, so the order in which the code
\* reduces the list of verdicts does not matter.
LEMMA RankInjective ==
  ASSUME NEW v \in SubmissionStatus, NEW w \in SubmissionStatus, RANK[v] = RANK[w]
  PROVE  v = w
  BY Ranks DEF SubmissionStatus, FinalVerdicts

\* What one step of the reduction does to the worst verdict seen so far.
LEMMA WorstGrows ==
  ASSUME NEW S \in SUBSET SubmissionStatus, NEW a, IsWorst(a, S),
         NEW v \in SubmissionStatus
  PROVE  IsWorst(IF Takes(v, a) THEN v ELSE a, S \cup {v})
<1>1. \A w \in SubmissionStatus : RANK[w] \in Nat
  BY Ranks DEF SubmissionStatus, FinalVerdicts
<1> QED
  BY <1>1 DEF IsWorst, Takes

\* The accumulator starts as the worst of nothing but "AC".
LEMMA ReduceInit == Init => ReduceInv
<1> SUFFICES ASSUME Init PROVE ReduceInv
  OBVIOUS
<1>1. PICK n \in 0..MaxCases : verdicts \in [1..n -> SubmissionStatus]
  BY DEF Init
<1>2. Len(verdicts) = n
  BY <1>1, ReduceAssumption
<1>3. Seen = {}
  BY DEF Init, Seen
<1> QED
  BY <1>1, <1>2, <1>3, Ranks DEF Init, ReduceInv, IsWorst

\* Every step keeps it the worst verdict of the prefix.
LEMMA ReduceStep == ReduceInv /\ [Reduce]_vars => ReduceInv'
<1> SUFFICES ASSUME ReduceInv, [Reduce]_vars PROVE ReduceInv'
  OBVIOUS
<1>1. CASE Reduce
  <2>1. PICK n \in 0..MaxCases : verdicts \in [1..n -> SubmissionStatus]
    BY DEF ReduceInv
  <2>2. Len(verdicts) = n
    BY <2>1, ReduceAssumption
  <2>3. i \in Nat /\ i + 1 \in 1..n
    BY <1>1, <2>1, <2>2, ReduceAssumption DEF ReduceInv, Reduce
  <2>4. Seen \in SUBSET SubmissionStatus /\ verdicts[i + 1] \in SubmissionStatus
    BY <2>1, <2>3 DEF Seen
  <2>5. Seen' = Seen \cup {verdicts[i + 1]}
    <3>1. Seen' = {verdicts[j] : j \in 1..(i + 1)}
      BY <1>1 DEF Seen, Reduce
    <3>2. 1..(i + 1) = (1..i) \cup {i + 1}
      BY <2>3
    <3> QED
      BY <3>1, <3>2 DEF Seen
  <2>6. Seen \cup {"AC"} \in SUBSET SubmissionStatus
    BY <2>4 DEF SubmissionStatus, FinalVerdicts
  <2>7. IsWorst(acc', (Seen \cup {"AC"}) \cup {verdicts[i + 1]})
    BY <1>1, <2>4, <2>6, WorstGrows DEF ReduceInv, Reduce
  <2>8. (Seen \cup {"AC"}) \cup {verdicts[i + 1]} = Seen' \cup {"AC"}
    BY <2>5
  <2>9. IsWorst(acc, Seen \cup {"AC"})'
    BY <2>7, <2>8 DEF IsWorst
  <2>10. (i \in 0..Len(verdicts))'
    BY <1>1, <2>2, <2>3 DEF Reduce
  <2> QED
    BY <1>1, <2>1, <2>9, <2>10 DEF ReduceInv, Reduce
<1>2. CASE UNCHANGED vars
  BY <1>2 DEF vars, ReduceInv, Seen
<1> QED
  BY <1>1, <1>2

\* combineVerdicts returns the worst verdict of the list it is given, and
\* PENDING for an empty one, for lists of every length and in every order.
THEOREM Reducing == Spec => []ReducesToWorst
<1>1. ReduceInv => ReducesToWorst
  <2> SUFFICES ASSUME ReduceInv, i = Len(verdicts) PROVE Result = CombineVerdicts(Seen)
    BY DEF ReducesToWorst
  <2>1. PICK n \in 0..MaxCases : verdicts \in [1..n -> SubmissionStatus]
    BY DEF ReduceInv
  <2>2. Len(verdicts) = n /\ i = n /\ n \in Nat
    BY <2>1, ReduceAssumption
  <2>3. CASE n = 0
    BY <2>2, <2>3 DEF Result, Seen, CombineVerdicts
  <2>4. CASE n # 0
    <3>1. Seen \in SUBSET SubmissionStatus
      BY <2>1, <2>2 DEF Seen
    <3>2. verdicts[1] \in Seen
      BY <2>1, <2>2, <2>4 DEF Seen
    <3>3. IsWorst(CombineVerdicts(Seen), Seen \cup {"AC"}) /\ IsWorst(acc, Seen \cup {"AC"})
      <4>1. IsWorst(acc, Seen \cup {"AC"}) /\ acc \in Seen \cup {"AC"}
        BY DEF ReduceInv, IsWorst
      <4>2. CombineVerdicts(Seen) = CHOOSE v \in Seen \cup {"AC"} : IsWorst(v, Seen \cup {"AC"})
        BY <3>2 DEF CombineVerdicts
      <4> QED
        BY <4>1, <4>2
    <3>4. /\ CombineVerdicts(Seen) \in SubmissionStatus /\ acc \in SubmissionStatus
          /\ RANK[acc] <= RANK[CombineVerdicts(Seen)]
          /\ RANK[CombineVerdicts(Seen)] <= RANK[acc]
      BY <3>1, <3>3 DEF IsWorst, SubmissionStatus, FinalVerdicts
    <3>5. \A w \in SubmissionStatus : RANK[w] \in Nat
      BY Ranks DEF SubmissionStatus, FinalVerdicts
    <3>6. RANK[acc] = RANK[CombineVerdicts(Seen)]
      BY <3>4, <3>5
    <3>7. acc = CombineVerdicts(Seen)
      BY <3>4, <3>6, RankInjective
    <3> QED
      BY <2>2, <2>4, <3>7 DEF Result
  <2> QED
    BY <2>3, <2>4
<1> QED
  BY <1>1, ReduceInit, ReduceStep, PTL DEF Spec
=================================================================================
