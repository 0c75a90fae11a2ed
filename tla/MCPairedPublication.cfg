CONSTANTS
  None = None
  Torn = Torn
  TornWrites = TRUE
  AttemptIds = {a1, a2}
  VmIdentities = {v1}
  RunnerIds = {r1}
  JobIds = {a1, a2}
  Canceled = canceled
  Results = {canceled}
  Times = {1}
  ObservationTimes = {0}
  MaxAttemptRevision = 20
  MaxActive = 2
  MaxTombstones = 2
  MaxCatalogRevision = 8
  JobOf <- MCJobOf
  JobMaxMillis = 1
  Deliveries <- MCDeliveries
SPECIFICATION Spec
CHECK_DEADLOCK FALSE
INVARIANT CurrentIsWhole
INVARIANT ReturnIsDurable
INVARIANT PairedCrashRecovers
PROPERTY ImplementsFence
