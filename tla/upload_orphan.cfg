\* A worker dies with an upload in hand.
SPECIFICATION StagingSpec
CONSTANTS
  Users = {u1}
  Periods = {jan}
  Workers = {w1}
  MaxJobs = 2
  Plans <- MCPlans
  ThrottleLimit = 2
  MaxAttempts = 1
  OtherClaims = 1
  MaxWait = 0
  Requests = {r1, r2}
  NoObject = NoObject
INVARIANTS
  NoOrphanedUpload
