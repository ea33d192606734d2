---------------------------- MODULE MCProblemAdmin ----------------------------
(***************************************************************************)
(* A small instance of ProblemAdmin for TLC.                               *)
(***************************************************************************)
EXTENDS ProblemAdmin

CONSTANTS p1, p2, p3, one, two, tagA

OldForms == [p \in Initial |-> [filled |-> TRUE, slug |-> IF p = p1 THEN one ELSE two,
                                langs |-> IF p = p1 THEN <<71>> ELSE <<>>, tests |-> 1, tags |-> <<>>]]

\* One tab edits, deletes or creates; the other one saves or deletes at once.
Moves32 == [t \in Tabs |-> IF t = 1 THEN 3 ELSE 2]
===============================================================================
