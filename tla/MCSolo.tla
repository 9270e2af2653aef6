------------------------------- MODULE MCSolo --------------------------------
\* One demand that has its GPU to itself.
EXTENDS Ownership
MCDemand == {"d"}
MCResource == {"g1"}
MCProfile == {"p"}
MCProfileOf == [d |-> "p"]
MCRoot == [d |-> "d"]
MCPriority == [d |-> 0]
MCNeeds == [p |-> {"g1"}]
MCHostMib == [p |-> 1]
=============================================================================
