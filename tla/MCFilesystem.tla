---------------------------- MODULE MCFilesystem ----------------------------
(* Instances of Filesystem for TLC. *)
EXTENDS FilesAndPaths

CONSTANTS c1, c2

\* A directory, and two files or directories in it.
Paths == 1 .. 3
Tree == [p \in Paths |-> IF p = 1 THEN 0 ELSE 1]
=============================================================================
