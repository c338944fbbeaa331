CONSTANTS
  Users = {u1, u2}
  Granted = {u1}
  Reqs = {r1}
  Null = Null
  MaxFaults = 1
SPECIFICATION Spec
INVARIANTS ErrorReachesClient AnswerIsTrue ActsForCaller OnlyEntitled
