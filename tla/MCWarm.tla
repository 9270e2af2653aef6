------------------------------- MODULE MCWarm --------------------------------
\* Two demands of one cacheable profile (w1, w2) and an incompatible one (x)
\* that needs their GPU and another.
EXTENDS Ownership
MCDemand == {"w1", "w2", "x"}
MCResource == {"g1", "g2"}
MCProfile == {"p", "q"}
MCProfileOf == [w1 |-> "p", w2 |-> "p", x |-> "q"]
MCRoot == [w1 |-> "w1", w2 |-> "w2", x |-> "x"]
MCPriority == [w1 |-> 0, w2 |-> 0, x |-> 1]
MCNeeds == [p |-> {"g1"}, q |-> {"g1", "g2"}]
MCHostMib == [p |-> 1, q |-> 1]
=============================================================================
