SPECIFICATION Spec
CONSTANTS
  Users = {u1, u2}
  Requests = {r1, r2, r3, r4}
  NoUser = NoUser
  NoCustomer = NoCustomer
  Faults = TRUE
SYMMETRY RequestSymmetry
CHECK_DEADLOCK FALSE
INVARIANTS
  TypeOK
  SessionsAreLinked
  OneBillingHistory
PROPERTIES
  KeepsMirror
