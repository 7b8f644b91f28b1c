CONSTANTS
  Requests = {r1, r2, r3, r4}
  Ips = {i1}
  Emails = {e1, e2}
  Endpoint = {2, 3}
  GatewayIp = gw
  IpLimit = 2
  EmailLimit = 1
  Window = 2
  MaxClock = 4
  MaxFailures = 2
  Unset = Unset
SYMMETRY Symmetry
SPECIFICATION LimiterSpec
CHECK_DEADLOCK FALSE
INVARIANTS LimiterTypeOK BurstBound RefusedHadLimit
