------------------------------ MODULE MCChange ------------------------------
(* Instance of ChangeExecution: two submissions, of one change or of two.    *)
EXTENDS ChangeExecution

CONSTANTS p1, p2, c1, c2, key, src, other, tmp

MCChangeOf == [p \in Client |-> c1]
MCKeyOf == [p \in Client |-> key]
MCModesOf == [p \in Client |-> IF p = p1 THEN {"reserved", "open"} ELSE {"sandbox"}]
MCMaxWrites == [q \in Path |-> IF q = src THEN 2 ELSE 1]
=============================================================================
