\* Two attempts per job: a reaped job is run again while the worker that lost it lives.
SPECIFICATION Spec
CONSTANTS
  Users = {u1, u2}
  Periods = {jan, feb}
  Workers = {w1, w2}
  MaxJobs = 2
  Plans <- MCPlans
  ThrottleLimit = 2
  MaxAttempts = 2
  OtherClaims = 1
  MaxWait = 1
SYMMETRY Symmetry
INVARIANTS
  TypeOK
  LedgerBalances
  RefundedIffFailed
  ReportIffSucceeded
PROPERTIES
  TerminalIsFinal
  KeepsAllowancePromise
