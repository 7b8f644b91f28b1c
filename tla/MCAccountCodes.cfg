CONSTANTS
  Requests = {r1, r2, r3, r4}
  Earlier = Earlier
  None = None
  MaxAborts = 1
SYMMETRY Symmetry
SPECIFICATION Spec
CHECK_DEADLOCK FALSE
INVARIANTS TypeOK CodeAccounted MissingReplicaHasCause PasswordHasProof LateRefusalHasRival
PROPERTIES SpentForGood
