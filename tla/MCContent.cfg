CONSTANTS
  Requests = {r1, r2, r3}
  Posts = {p1}
  Questions = {q1}
  Users = {u1, u2}
  Stranger = Stranger
  None = None
  MaxAborts = 1
SYMMETRY Symmetry
SPECIFICATION Spec
CHECK_DEADLOCK FALSE
INVARIANTS TypeOK ApprovedAsItStands VerdictAnnounced RefsSound

