CONSTANTS
  None = None
  AttemptIds = {a1}
  VmIdentities = {v1}
  RunnerIds = {r1}
  JobIds = {a1}
  Canceled = canceled
  Results = {canceled, succeeded}
  Times <- MCTimes
  MaxAttemptRevision = 20
  MaxActive = 2
  MaxTombstones = 2
  MaxCatalogRevision = 60
  JobOf <- MCJobOf
  JobMaxMillis = 1
  MaxTime = 0
  Offers = {}
  VmReplaceable = FALSE
SPECIFICATION FairSpec
CHECK_DEADLOCK FALSE
PROPERTY TimeoutDestroysVm
