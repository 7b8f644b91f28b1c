CONSTANTS
  Users = {u1, u2}
  Requests = {r1, r2, r3}
  TTL = 2
  MaxClock = 2
  MaxPerm = 2
  MaxPwd = 1
  None = None
SYMMETRY Symmetry
SPECIFICATION Spec
PROPERTY LogoutAllOnlyOwn
CHECK_DEADLOCK FALSE
