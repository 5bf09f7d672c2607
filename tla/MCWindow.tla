------------------------------ MODULE MCWindow ------------------------------
(* The instance of Window for TLC. *)
EXTENDS Window
=============================================================================
