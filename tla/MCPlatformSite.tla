---------------------------- MODULE MCPlatformSite ----------------------------
(***************************************************************************)
(* A small instance of PlatformSite for TLC: visitors register and ask for *)
(* problems of two days, beside submissions that are accepted or lose it.  *)
(***************************************************************************)
EXTENDS PlatformSite, TLC

CONSTANTS u1, u2, p1, p2, t1, e1, e2, n1, n2

Sub(u, p, n) == [user |-> u, problem |-> p, n |-> n]

\* The first user has two accepted submissions of one problem, the second one
\* that may still be accepted.
OldAcc  == {Sub(u1, p1, 0), Sub(u1, p1, -1)}
OldSubs == OldAcc \cup {Sub(u2, p2, 0)}

\* Nobody is registered at the start: the emails are alike, and so are the names.
NamesAlike == Permutations(Emails) \cup Permutations(Names)
===============================================================================
