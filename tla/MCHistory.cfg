SPECIFICATION Spec
CONSTANTS
  None = None
  w = w  n = n  r1 = r1  k1 = k1
  Request = {w, n}
  Workspaces = {w}
  Reservations = {r1}
  ResOf <- MCResOf
  WorkOf <- MCWorkOf
  ParentOf <- MCParentOf
  MaxCalls = 2
  Threads = {1, 2}
  Maintainers = {1}
  MaxCrashes = 1
  Faults = {"uncertain"}
  Reuse = FALSE
INVARIANTS NothingLost RunsOnce ParentSettled
PROPERTY RetiredAsArchived OutcomeKept ClosedRetired
CHECK_DEADLOCK FALSE
