\* One worker, two jobs of two attempts; queries fail, the process drains and dies.
SPECIFICATION LoopFairSpec
CONSTANTS
  Users = {u1}
  Periods = {jan}
  Workers = {w1}
  MaxJobs = 2
  Plans <- OnePlan
  ThrottleLimit = 2
  MaxAttempts = 2
  OtherClaims = 0
  MaxWait = 0
  Concurrency = 2
  ReapEvery = 2
  MaxFaults = 1
INVARIANTS
  LoopTypeOK
  WithinConcurrency
PROPERTIES
  PollingIsFair
  EveryJobSettles
