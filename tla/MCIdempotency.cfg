CONSTANTS
  Requests = {1, 2, 3}
  Keys = {k1}
  NoKey = NoKey
  Bodies = {1, 2}
  Null = Null
  ErrorBody = ErrorBody
  EmailExists = EmailExists
  MaxRestarts = 1
  MaxDbFaults = 1
SPECIFICATION FairSpec
CHECK_DEADLOCK FALSE
CONSTRAINTS InOrder FirstBody OneEvent
INVARIANTS UniqueExecutor ReplayFaithful SameAnswer
PROPERTIES Answered Settled ImplementsRegisterOnce
