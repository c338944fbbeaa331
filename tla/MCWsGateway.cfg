CONSTANTS
  Users = {u1, u2}
  Sockets = {s1, s2, s3}
  Null = Null
  MaxMessages = 2
  Window = 1
  MaxTime = 2
  MaxOpens = 4
  MaxAwait = 1
SPECIFICATION Spec
CHECK_DEADLOCK FALSE
SYMMETRY Symmetry
INVARIANTS TypeOK RegistryExact NoLimiterLeak SharedRate
PROPERTY PushExact
