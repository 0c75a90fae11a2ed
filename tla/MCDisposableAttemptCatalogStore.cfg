\* MaxCatalogRevision stands for 10^12 and bounds the run; it lets one attempt
\* live a whole provisioned life beside two short ones.
CONSTANTS
  None = None
  AttemptIds = {a1, a2, a3}
  VmIdentities = {v1, v2}
  RunnerIds = {r1}
  JobIds = {j1}
  Canceled = canceled
  Results = {canceled}
  Times = {10}
  MaxAttemptRevision = 20
  MaxActive = 2
  MaxTombstones = 1
  MaxCatalogRevision = 22
SYMMETRY MCSymmetry
SPECIFICATION Spec
CHECK_DEADLOCK FALSE
INVARIANT AccountingNeverRefuses
INVARIANT CleanupAlwaysRetires
PROPERTY StoreSuccessorIsExact
