--------------------------- MODULE MCEngineFrame ---------------------------
(* Instances of EngineFrame for TLC. *)
EXTENDS EngineFrame

CONSTANTS t1, t2

Threads == {t1, t2}
Buttons == {0, 1}
=============================================================================
