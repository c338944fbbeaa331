CONSTANTS
  Users = {u1}
  Devices = {d1, d2}
  Procs = {p1, p2}
  Null = Null
  MaxRows = 2
  MaxTime = 1
  MaxPerm = 1
  MaxPwd = 1
  MaxLost = 1
SPECIFICATION Spec
CHECK_DEADLOCK FALSE
SYMMETRY Symmetry
INVARIANTS CookieCurrent OneRowPerDevice ResetEndsSessions
PROPERTY NoFalseRefusal
CONSTRAINT FewEvents
