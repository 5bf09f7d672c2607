--------------------------- MODULE FilesAndPaths ---------------------------
(***************************************************************************)
(* All of wz::fs: the calls of Filesystem and the functions of Paths.  The *)
(* latter touch neither the disk nor each other, so they are followed      *)
(* where nothing else has happened yet, on the empty disk, and calls are   *)
(* made with no text at hand: the other interleavings show nothing more.   *)
(***************************************************************************)
EXTENDS Filesystem, Paths

AllVars == <<vars, text>>

Untouched == /\ \A c \in Client : calls[c] = 0
             /\ ~ executor
             /\ \A p \in Path : node[p] = Absent

AllInit == Init /\ TextInit

AllNext ==
    \/ text = <<>> /\ Next /\ UNCHANGED text
    \/ Untouched /\ MakeText /\ UNCHANGED vars

AllSpec == AllInit /\ [][AllNext]_AllVars /\ Fairness
=============================================================================
