CONSTANTS
  Jobs = {j1, j2}
  NoJob = NoJob
  Attempts = 3
  MaxStalled = 1
  MaxCrashes = 3
  MaxDlqFaults = 1
SPECIFICATION JobsFairSpec
CHECK_DEADLOCK FALSE
INVARIANTS FailedIsDeadLettered MailsBounded
PROPERTY ImplementsMailQueue
