\* One linked subscription; its events are reordered, fail and are retried. No symmetry (liveness).
\* The one fault is a query inside the handler's try, with or without its effect. A claim whose
\* reply is lost ("claim"), a failed release and a crash are left out: each of them breaks
\* AckedIsProcessed and EventuallyProcessed by itself or after an error.
SPECIFICATION FairSpec
CONSTANTS
  u1 = u1
  u2 = u2
  c1 = c1
  c2 = c2
  s1 = s1
  s2 = s2
  NoUser = NoUser
  NoCustomer = NoCustomer
  Users = {u1}
  Customers = {c1, c2}
  Subs = {s1}
  CustomerOf <- OneCustomer
  HintOf <- HintU1
  Linked <- LinkedU1
  Handlers = {h1, h2}
  SameSecond = FALSE
  Faults = {"error"}
  MaxEvents = 3
  MaxFaults = 1
CHECK_DEADLOCK FALSE
INVARIANTS
  Converged
  AckedIsProcessed
PROPERTIES
  NeverBackwards
  EventuallyProcessed
