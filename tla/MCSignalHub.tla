---------------------------- MODULE MCSignalHub ----------------------------
(* The signal hub from its start: no machine is connected.                 *)
EXTENDS SignalHub, TLC

Symmetry == Permutations(Device) \cup Permutations(Conn) \cup Permutations(Attempt)
=============================================================================
