\* Three operations, so that one may be reused while it is accepted, retained
\* or forgotten.
CONSTANTS
  None = None
  b1 = b1
  b2 = b2
  Builds = {b1, b2}
  Generations <- MCGenerations
  Launchers <- MCFirst
  Operations = {o1, o2, o3}
SYMMETRY MCSymmetry
SPECIFICATION Spec
INVARIANT EveryStopRecovers
