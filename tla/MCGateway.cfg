CONSTANTS
  b1 = b1
  b2 = b2
  Browsers <- MCBrowsers
  N = 3
  Menu <- MCMenu
  MaxAged = 1
  MaxFaults = 1
  None = None
  Nobody = Nobody
SPECIFICATION Spec
INVARIANTS TypeOK  ActsForCaller
PROPERTIES SignedOutHasCause SessionsAreSignIns
CHECK_DEADLOCK FALSE
