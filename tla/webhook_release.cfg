\* A query fails, and then the release of the claim.
SPECIFICATION Spec
CONSTANTS
  u1 = u1
  u2 = u2
  c1 = c1
  c2 = c2
  s1 = s1
  s2 = s2
  NoUser = NoUser
  NoCustomer = NoCustomer
  Users = {u1}
  Customers = {c1, c2}
  Subs = {s1}
  CustomerOf <- OneCustomer
  HintOf <- HintU1
  Linked <- LinkedU1
  Handlers = {h1, h2}
  SameSecond = FALSE
  Faults = {"error", "release"}
  MaxEvents = 1
  MaxFaults = 2
SYMMETRY HandlerSymmetry
CHECK_DEADLOCK FALSE
INVARIANTS
  AckedIsProcessed
