\* Two customers that hint at the same user, not linked beforehand, under failed
\* queries, claims whose reply is lost, failed releases and crashes. "overlap" is left
\* out: it answers a duplicate early, which writes no row and takes retries away, and
\* LostIsOnRecord is about deliveries that do not overlap.
SPECIFICATION Spec
CONSTANTS
  u1 = u1
  u2 = u2
  c1 = c1
  c2 = c2
  s1 = s1
  s2 = s2
  NoUser = NoUser
  NoCustomer = NoCustomer
  Users = {u1, u2}
  Customers = {c1, c2}
  Subs = {s1, s2}
  CustomerOf <- TwoCustomers
  HintOf <- HintU1
  Linked <- NotLinked
  Handlers = {h1, h2}
  SameSecond = FALSE
  Faults = {"error", "claim", "release", "crash"}
  MaxEvents = 3
  MaxFaults = 2
SYMMETRY HandlerSymmetry
CHECK_DEADLOCK FALSE
INVARIANTS
  TypeOK
  LostIsOnRecord
PROPERTIES
  CustomerNeverMoves
  KeepsMirror
