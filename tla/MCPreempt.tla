------------------------------ MODULE MCPreempt ------------------------------
\* An incumbent (lo) and a demand that outranks it (hi) on one GPU.
EXTENDS Ownership
MCDemand == {"lo", "hi"}
MCResource == {"g1"}
MCProfile == {"p", "q"}
MCProfileOf == [lo |-> "p", hi |-> "q"]
MCRoot == [lo |-> "lo", hi |-> "hi"]
MCPriority == [lo |-> 0, hi |-> 1]
MCNeeds == [p |-> {"g1"}, q |-> {"g1"}]
MCHostMib == [p |-> 1, q |-> 1]
=============================================================================
