----------------------------- MODULE MCRateLimiter -----------------------------
(***************************************************************************)
(* RateLimiter with an hour of three seconds of two ticks.                 *)
(***************************************************************************)
EXTENDS RateLimiter, TLC

JobSymmetry == Permutations(Jobs)
===============================================================================
