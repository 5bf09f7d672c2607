---------------------------- MODULE MCMPSCQueue ----------------------------
(* Instances of MPSCQueue for TLC. *)
EXTENDS MPSCQueue

CONSTANTS p1, p2, n1, n2, n3, n4

TwoProducers == {p1, p2}
FourNodes == {n1, n2, n3, n4}
=============================================================================
