CONSTANTS
  None = None
  Sessions = {s1, s2, s3, s4}
  Calls = {k1, k2, k3}
  WalkLimit = 2
SPECIFICATION Spec
CHECK_DEADLOCK FALSE
SYMMETRY Symmetry
INVARIANTS TypeOK OneLivePerFamily RedeemedOnce ReuseClosesFamily SweepClosesFamilies
PROPERTY RevocationIsFinal
