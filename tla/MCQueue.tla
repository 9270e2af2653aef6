------------------------------ MODULE MCQueue -------------------------------
(* Instances of TaskQueue: a DAG of two nodes on two workers, listed against *)
(* the order of their dependency, and a linear task that needs both.         *)
EXTENDS TaskQueue

CONSTANTS t1, t2, n1, n2, r1, r2, pa, pb

MCTasks == <<t1, t2>>
MCNodes == [t \in {t1, t2} |-> IF t = t1 THEN <<n2, n1>> ELSE <<n1>>]
MCDeps == [t \in {t1, t2} |-> [n \in {n1, n2} |-> IF t = t1 /\ n = n2 THEN {n1} ELSE {}]]
MCResourcesOf == [t \in {t1, t2} |-> [n \in {n1, n2} |->
    IF t = t2 THEN {r1, r2} ELSE IF n = n1 THEN {r1} ELSE {r2}]]
=============================================================================
