----------------------------- MODULE MCRateLimiter -----------------------------
(***************************************************************************)
(* RateLimiter for TLC.  Users and tasks are only compared for equality.   *)
(***************************************************************************)
EXTENDS RateLimiter, TLC

Symmetry == Permutations(Uids) \cup Permutations(Tasks)
=============================================================================
