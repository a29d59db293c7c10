----------------------------- MODULE MCLimiter -----------------------------
(* Three sources, a table of two, and two calls that wait up to half a     *)
(* second for the lock.                                                    *)
EXTENDS Limiter, TLC

Symmetry == Permutations(Source) \cup Permutations(Call)
=============================================================================
