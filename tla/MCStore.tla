------------------------------ MODULE MCStore ------------------------------
(* The database and its login sessions: no shares or pairs, and no time:   *)
(* the clock stays at zero.                                                *)
EXTENDS Login, TLC

Symmetry == Permutations(User) \cup Permutations(Network)
            \cup Permutations(Device) \cup Permutations(Creator)
            \cup Permutations(Visit)
=============================================================================
