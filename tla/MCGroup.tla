------------------------------- MODULE MCGroup -------------------------------
\* A group of two services (a1, a2) over an incumbent (lo) on the first GPU.
EXTENDS Ownership
MCDemand == {"lo", "a1", "a2"}
MCResource == {"g1", "g2"}
MCProfile == {"p", "q1", "q2"}
MCProfileOf == [lo |-> "p", a1 |-> "q1", a2 |-> "q2"]
MCRoot == [lo |-> "lo", a1 |-> "a1", a2 |-> "a1"]
MCPriority == [lo |-> 0, a1 |-> 1, a2 |-> 1]
MCNeeds == [p |-> {"g1"}, q1 |-> {"g1"}, q2 |-> {"g2"}]
MCHostMib == [p |-> 1, q1 |-> 1, q2 |-> 1]
=============================================================================
