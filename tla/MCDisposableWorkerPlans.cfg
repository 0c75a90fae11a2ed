\* MaxAttemptRevision stands for 10^12: four above the highest revision a
\* sequence of calls reaches, so that a missing no-op would show.
CONSTANTS
  None = None
  AttemptIds = {a1, a2}
  VmIdentities = {v1, v2}
  RunnerIds = {r1, r2}
  JobIds = {j1, j2}
  Canceled = canceled
  Results = {canceled, succeeded}
  Times = {10}
  MaxAttemptRevision = 20
  MaxActive = 1
  MaxTombstones = 1
  MaxCatalogRevision = 20
SYMMETRY MCSymmetry
SPECIFICATION Spec
INVARIANT TypeOK
INVARIANT HistoryFromRevision
INVARIANT TeardownBeforeComplete
INVARIANT CleanupNeverRefused
INVARIANT UnboundCloneIsDebt
INVARIANT PlansAreExecutable
INVARIANT PlansStayOwned
INVARIANT ReleaseNeedsAbsence
PROPERTY EvidenceIsPermanent
PROPERTY CleanupIsOneWay
PROPERTY RedeliveryIsIdempotent
PROPERTY SuccessorTestIsExact
