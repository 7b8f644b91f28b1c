CONSTANTS
  Requests = {r1, r2, r3}
  Keys = {k1}
  Bodies = {b1, b2}
  NoKey = NoKey
  None = None
SPECIFICATION FairSpec
CHECK_DEADLOCK FALSE
INVARIANTS TypeOK SuccessIsReal OneCallUnlessFailed
PROPERTIES SettledForGood KeyReleased
