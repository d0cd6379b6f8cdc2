\* One attempt per job, limits that refuse; behaviours with and without faults.
SPECIFICATION StagingFairSpec
CONSTANTS
  Users = {u1}
  Periods = {jan}
  Workers = {w1}
  MaxJobs = 2
  Plans <- MCPlans
  ThrottleLimit = 1
  MaxAttempts = 1
  OtherClaims = 1
  MaxWait = 0
  Requests = {r1, r2}
  NoObject = NoObject
INVARIANTS
  StagingTypeOK
  WaitingUploadIsStaged
  NoOrphanWithoutFault
PROPERTIES
  UploadsAreDeleted
