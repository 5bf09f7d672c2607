------------------------------- MODULE MCAlgo -------------------------------
(* The instance of Algo for TLC. *)
EXTENDS Algo

CONSTANTS r1, r2, s1

Values == 0 .. 1
Flip == [x \in Values |-> 1 - x]
Bases == [r \in {r1, r2} |-> IF r = r1 THEN 0 ELSE 3]
Rooms == [r \in {r1, r2} |-> IF r = r1 THEN 3 ELSE 1]
Maps == [f |-> Flip, g |-> [x \in Values |-> 0]]
Keeps == [p |-> {1}, q |-> {0}]
OpLists == {<<"f">>, <<"p">>, <<"f", "g">>, <<"f", "p">>, <<"p", "q">>, <<"f", "p", "g">>}
=============================================================================
