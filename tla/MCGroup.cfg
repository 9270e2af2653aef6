SPECIFICATION FairSpec
CONSTANTS
  None = None
  Demand <- MCDemand
  Resource <- MCResource
  Profile <- MCProfile
  ProfileOf <- MCProfileOf
  Root <- MCRoot
  Priority <- MCPriority
  Needs <- MCNeeds
  HostMib <- MCHostMib
  Warmable = {}
  HostCapacity = 3
  MaxCalls = 0
  Workspace = {}
  MaxPending = 2
  MaxPendingPerReservation = 2
  MaxTransitionWorkers = 2
  MaxDispatchWorkers = 2
  Closable = {}
  ClosureKinds = {"released"}
  Faults = {}
  MaxCrashes = 0
PROPERTIES AtomicReady PreparingEnds PreemptingEnds
