SPECIFICATION Spec
CONSTANTS
  None = None
  Demand <- MCDemand
  Resource <- MCResource
  Profile <- MCProfile
  ProfileOf <- MCProfileOf
  Root <- MCRoot
  Priority <- MCPriority
  Needs <- MCNeeds
  HostMib <- MCHostMib
  Warmable = {"p"}
  HostCapacity = 3
  MaxCalls = 0
  Workspace = {}
  MaxPending = 2
  MaxPendingPerReservation = 2
  MaxTransitionWorkers = 2
  MaxDispatchWorkers = 2
  Closable = {"w1"}
  ClosureKinds = {"released"}
  Faults = {"probe"}
  MaxCrashes = 0
INVARIANT SingleOwner
PROPERTY NoReturn
