\* Two jobs, the second after the first retired; a third VM identity for the
\* replacement.  The clock passes the first deadline, which is now + 1.
\* CHECK_DEADLOCK is off because an idle host with no job left may stop.
CONSTANTS
  None = None
  AttemptIds = {a1, a2}
  VmIdentities = {v1, v2, v3}
  RunnerIds = {r1, r2}
  JobIds = {a1, a2}
  Canceled = canceled
  Results = {canceled, succeeded}
  Times <- MCTimes
  MaxAttemptRevision = 20
  MaxActive = 2
  MaxTombstones = 2
  MaxCatalogRevision = 60
  JobOf <- MCJobOf
  JobMaxMillis = 1
  MaxTime = 0
  Offers = {a1, a2}
  VmReplaceable = TRUE
SYMMETRY MCSymmetry
SPECIFICATION Spec
CHECK_DEADLOCK FALSE
INVARIANT AtMostOnceEffects
INVARIANT WorkersAreOwned
INVARIANT AcknowledgedIsDurable
PROPERTY ForeignVmIsSpared
PROPERTY RunningJobIsSpared
