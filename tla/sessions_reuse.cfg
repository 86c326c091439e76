CONSTANTS
  None = None
  Sessions = {s1, s2, s3}
  Calls = {k1, k2, k3}
  WalkLimit = 5
SPECIFICATION Spec
CHECK_DEADLOCK FALSE
SYMMETRY Symmetry
INVARIANT ReuseRevokesFamily
