CONSTANTS
  Users = {u1}
  Roles = {r1}
  Perms = {p1}
  Null = Null
  Admins = {a1, a2}
  Guards = {g1}
  MaxVer = 2
  MaxEdits = 1
  MaxFaults = 1
SPECIFICATION Spec
CHECK_DEADLOCK FALSE
SYMMETRY Symmetry
INVARIANTS TypeOK ChangeReachesOldTokens
PROPERTY CurrentTokenCurrentPerms
CONSTRAINT FewEvents
