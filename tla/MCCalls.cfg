SPECIFICATION FairSpec
CONSTANTS
  None = None
  Demand <- MCDemand
  Resource <- MCResource
  Profile <- MCProfile
  ProfileOf <- MCProfileOf
  Root <- MCRoot
  Priority <- MCPriority
  Needs <- MCNeeds
  HostMib <- MCHostMib
  Warmable = {}
  HostCapacity = 2
  MaxCalls = 2
  Workspace = {2}
  MaxPending = 3
  MaxPendingPerReservation = 2
  MaxTransitionWorkers = 2
  MaxDispatchWorkers = 2
  Closable = {"d"}
  ClosureKinds = {"released", "cancelled"}
  Faults = {"start", "die", "expire", "wait", "idle", "repeat", "uncertain"}
  MaxCrashes = 1
PROPERTIES CallsFinal ClosedReturnsGpus QueueMoves RecoveryEnds
