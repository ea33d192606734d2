------------------------------ MODULE MCIsolateJob ------------------------------
(***************************************************************************)
(* Small instances of IsolateJob for TLC.                                  *)
(***************************************************************************)
EXTENDS IsolateJob

CONSTANTS j1, j2

\* A right and a wrong output, and a right one whose memory was not measured.
SomeOutcomes ==
  {[id |-> 0, out |-> "right", measured |-> TRUE],
   [id |-> 0, out |-> "wrong", measured |-> TRUE],
   [id |-> 0, out |-> "right", measured |-> FALSE]}

\* And an empty output, and a time limit that was exceeded.
AllOutcomes == SomeOutcomes \cup
  {[id |-> 0, out |-> "nil", measured |-> TRUE],
   [id |-> 5, out |-> "wrong", measured |-> TRUE]}
=================================================================================
