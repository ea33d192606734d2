--------------------------- MODULE MCPlatformGrading ---------------------------
(***************************************************************************)
(* Small instances of PlatformGrading for TLC.                             *)
(***************************************************************************)
EXTENDS PlatformGrading

CONSTANTS s1, s2, p1, p2, t1, t2, t3, u1

\* One submission of one problem: all the concurrency is between the
\* callbacks of its tests.
OneProblemOf  == [s \in Subs |-> p1]
OneUserOf     == [s \in Subs |-> u1]
OneInitTests1 == [p \in Problems |-> {t1}]
OneInitTests2 == [p \in Problems |-> {t1, t2}]

\* Two contest submissions of one user, for two problems,
\* one of them with two tests.
TwoProblemOf == [s \in Subs |-> IF s = s1 THEN p1 ELSE p2]
ThreeInitTests == [p \in Problems |-> IF p = p1 THEN {t1, t2} ELSE {t3}]
===============================================================================
