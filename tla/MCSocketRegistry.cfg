CONSTANTS
  Users = {u1, u2}
  Sockets = {s1, s2, s3}
  MaxMessages = 2
  Second = 2
  MaxClock = 5
  None = None
SYMMETRY Symmetry
SPECIFICATION Spec
CHECK_DEADLOCK FALSE
INVARIANTS TypeOK Mirror TabsShareLimit
PROPERTIES ImplementsPresence
