CONSTANTS
  Emails = {1, 2}
  Procs = {1, 2}
  Null = Null
  MaxDeliver = 2
  MaxBatch = 2
  MaxCodes = 2
  MaxFaults = 1
  MaxCrashes = 1
SPECIFICATION FairSpec
CHECK_DEADLOCK FALSE
CONSTRAINTS FirstCode OneEvent
INVARIANTS ActiveWasMailed NoSilentLoss
PROPERTIES EventuallyMailed CodeSurvivesCrash
