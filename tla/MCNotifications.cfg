CONSTANTS
  Users = {u1, u2}
  Procs = {p1, p2}
  Null = Null
  NaN = NaN
  Limits <- LimitsMC
  DefaultLimit = 2
  MaxLimit = 2
  Moments = {1, 2}
  MaxNotes = 3
  MaxReads = 2
  MaxDeliver = 2
  MaxFaults = 1
SPECIFICATION Spec
CHECK_DEADLOCK FALSE
SYMMETRY Symmetry
CONSTRAINT Apart
INVARIANTS PushedReadIsRead BadgeSettles WalkComplete
PROPERTY OwnRowsOnly
