\* One attempt per job, the column default, and three jobs.
SPECIFICATION Spec
CONSTANTS
  Users = {u1}
  Periods = {jan, feb}
  Workers = {w1, w2}
  MaxJobs = 3
  Plans <- MCPlans
  ThrottleLimit = 1
  MaxAttempts = 1
  OtherClaims = 1
  MaxWait = 2
SYMMETRY Symmetry
INVARIANTS
  NeverRunTwice
  UsedWithinAllowance
  FirstComeFirstServed
