CONSTANTS
  Users = {u1, u2}
  Devices = {d1, d2}
  Procs = {p1, p2}
  Null = Null
  MaxRows = 2
  MaxTime = 1
  MaxPerm = 0
  MaxPwd = 0
  MaxLost = 0
SPECIFICATION Spec
CHECK_DEADLOCK FALSE
PROPERTY LogoutAllIsOwn
