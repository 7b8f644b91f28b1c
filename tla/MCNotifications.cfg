CONSTANTS
  j1 = j1
  j2 = j2
  Jobs = {j1, j2}
  Reads = {q1}
  Attempts <- MCAttempts
  MaxDeliver = 2
  MaxFaults = 2
SPECIFICATION Spec
CHECK_DEADLOCK FALSE
INVARIANTS TypeOK DuplicateHasCause NothingLost BadgeRight
PROPERTIES JobSettles
