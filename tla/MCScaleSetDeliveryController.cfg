CONSTANTS
  None = None
  AttemptIds = {a1, a2}
  VmIdentities = {v1}
  RunnerIds = {r1}
  JobIds = {a1, a2}
  Canceled = canceled
  Results = {canceled}
  Times = {1, 2}
  ObservationTimes = {0, 1}
  MaxAttemptRevision = 20
  MaxActive = 2
  MaxTombstones = 2
  MaxCatalogRevision = 16
  JobOf <- MCJobOf
  JobMaxMillis = 1
  MaxMessages = 6
  MaxFaults = 3
SPECIFICATION FairSpec
INVARIANT AcquiredIsReserved
INVARIANT DeletedIsReconciled
INVARIANT BridgeAcceptsEveryCall
PROPERTY LifecycleSettlesDeleted
PROPERTY ImplementsFence
PROPERTY FenceSettles
