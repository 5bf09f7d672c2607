-------------------------- MODULE MCMPSCRingBuffer --------------------------
(* Instances of MPSCRingBuffer for TLC. *)
EXTENDS MPSCRingBuffer

CONSTANTS p1, p2, p3

ThreeProducers == {p1, p2, p3}
=============================================================================
