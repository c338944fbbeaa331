CONSTANTS
  Addresses = {a1, a2}
  Emails = {e1}
  GatewayIp = gw
  Requests = {r1, r2}
  Absent = Absent
  Rules <- LoginRules
  MaxClock = 2
  MaxArrivals = 3
  MaxFaults = 1
  MaxResets = 1
SPECIFICATION LimiterSpec
CHECK_DEADLOCK FALSE
SYMMETRY Symmetry
INVARIANTS NoLockout BurstBound
PROPERTIES RefusesFullWindows
