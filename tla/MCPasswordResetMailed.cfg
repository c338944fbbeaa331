CONSTANTS
  Users = {u1, u2}
  Procs = {p1, p2}
  Null = Null
  MaxTokens = 2
  MaxFaults = 1
SPECIFICATION Spec
CHECK_DEADLOCK FALSE
SYMMETRY Symmetry
INVARIANT MailedCodeVerifies
