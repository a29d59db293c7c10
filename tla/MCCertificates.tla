--------------------------- MODULE MCCertificates ---------------------------
(* One account and network, two machines, one token, one request that two  *)
(* calls make and repeat, and a certificate's life of two ticks.           *)
EXTENDS Certificates, TLC

Symmetry == Permutations(Device) \cup Permutations(Cert) \cup Permutations(Call)
=============================================================================
