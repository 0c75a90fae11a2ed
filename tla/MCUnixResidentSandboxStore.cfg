CONSTANTS
  None = None
  RequestIds = {q1, q2}
  Lineages = {p1, p2}
  Sources = {s1}
  Configs <- MCConfigs
  MaxEntries = 2
  MaxLineages = 2
  MaxGeneration = 2
  MaxRevision = 5
  Clients = {c1, c2}
  Inodes = {i1, i2}
  Empty = Empty
  Torn = Torn
SYMMETRY MCSymmetry
SPECIFICATION Spec
CHECK_DEADLOCK FALSE
INVARIANT CurrentIsWhole
INVARIANT ReturnIsDurable
INVARIANT EveryStopRecovers
INVARIANT SuccessorTestIsExact
PROPERTY RecoveryStartsNothing
PROPERTY ImplementsHistory
