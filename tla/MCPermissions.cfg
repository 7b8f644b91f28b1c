CONSTANTS
  Users = {u1}
  Roles = {ra}
  Perms = {p1}
  Admins = {a1, a2}
  Guards = {g1}
  Edits = {{}, {p1}}
  MaxEra = 4
  None = None
SYMMETRY Symmetry
SPECIFICATION Spec
CHECK_DEADLOCK FALSE
INVARIANTS TypeOK NewTokenSeesChange
PROPERTIES ExcessHasCause
