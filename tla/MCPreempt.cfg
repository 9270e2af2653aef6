SPECIFICATION Spec
CONSTANTS
  None = None
  Demand <- MCDemand
  Resource <- MCResource
  Profile <- MCProfile
  ProfileOf <- MCProfileOf
  Root <- MCRoot
  Priority <- MCPriority
  Needs <- MCNeeds
  HostMib <- MCHostMib
  Warmable = {}
  HostCapacity = 2
  MaxCalls = 1
  Workspace = {}
  MaxPending = 2
  MaxPendingPerReservation = 2
  MaxTransitionWorkers = 2
  MaxDispatchWorkers = 2
  Closable = {"lo", "hi"}
  ClosureKinds = {"released"}
  Faults = {"start", "stop"}
  MaxCrashes = 1
INVARIANTS TypeOK ReadyBacked CallsOwned Exclusive Covered
