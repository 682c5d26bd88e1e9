----------------------------- MODULE MCBleMesh -----------------------------
(* Three nodes in a line: the first and the last are out of each other's    *)
(* range and hear each other's messages through the one between them.       *)
EXTENDS BleMesh

Distance(i, j) == IF i < j THEN j - i ELSE i - j
LineHops == [<<i, j>> \in Node \X Node |-> Distance(i, j)]
LineLinks == {<<i, j>> \in Node \X Node : Distance(i, j) = 1}
=============================================================================
