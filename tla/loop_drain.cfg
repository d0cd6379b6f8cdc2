\* A signal arrives at any moment; no query fails.
SPECIFICATION LoopSpec
CONSTANTS
  Users = {u1}
  Periods = {jan}
  Workers = {w1}
  MaxJobs = 3
  Plans <- OnePlan
  ThrottleLimit = 3
  MaxAttempts = 1
  OtherClaims = 1
  MaxWait = 0
  Concurrency = 2
  ReapEvery = 2
  MaxFaults = 2
INVARIANTS
  CleanDrainHoldsNothing


