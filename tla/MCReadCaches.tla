----------------------------- MODULE MCReadCaches -----------------------------
(***************************************************************************)
(* A small instance of ReadCaches for TLC.  Ten seconds are the first      *)
(* SUBMISSION_CACHE_DURATION with a race_condition_ttl.                    *)
(***************************************************************************)
EXTENDS ReadCaches

Lasts == [k \in Kinds |-> IF k = "show" THEN 10 ELSE 4]
===============================================================================
