\* Two jobs, so that messages of the first meet the attempt of the second, and one
\* of them may be offered first.  No symmetry: the property is a liveness property.
CONSTANTS
  None = None
  AttemptIds = {a1, a2}
  VmIdentities = {v1, v2}
  RunnerIds = {r1, r2}
  JobIds = {a1, a2}
  Canceled = canceled
  Results = {canceled}
  Times <- MCTimes
  MaxAttemptRevision = 20
  MaxActive = 2
  MaxTombstones = 2
  MaxCatalogRevision = 60
  JobOf <- MCJobOf
  JobMaxMillis = 1
  MaxTime = 0
  Offers = {a1}
  VmReplaceable = FALSE
SPECIFICATION FairSpec
CHECK_DEADLOCK FALSE
PROPERTY EveryAttemptEnds
