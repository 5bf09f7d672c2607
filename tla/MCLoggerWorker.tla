--------------------------- MODULE MCLoggerWorker ---------------------------
(* Instances of LoggerWorker for TLC. *)
EXTENDS LoggerWorker

CONSTANTS c1, c2

TwoClients == {c1, c2}
NoOverlap == {}
OverlapStop == {"stop"}
OverlapFlush == {"flush"}
=============================================================================
