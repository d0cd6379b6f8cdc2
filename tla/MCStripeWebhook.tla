--------------------------- MODULE MCStripeWebhook ---------------------------
(* Small instances: one subscription of one linked user; two subscriptions   *)
(* of one customer; two customers that nobody has linked, hinting at users.  *)
EXTENDS StripeWebhook, TLC

CONSTANTS u1, u2, c1, c2, s1, s2

OneCustomer == [s \in Subs |-> c1]
HintU1 == [s \in Subs |-> u1]
LinkedU1 == [u \in Users |-> IF u = u1 THEN c1 ELSE NoCustomer]
NotLinked == [u \in Users |-> NoCustomer]

\* A customer each, with the same hint or with crossed ones.
TwoCustomers == [s \in Subs |-> IF s = s1 THEN c1 ELSE c2]
CrossedHints == [s \in Subs |-> IF s = s1 THEN u1 ELSE u2]
\* Handlers are interchangeable; used by the runs without liveness.
HandlerSymmetry == Permutations(Handlers)
=============================================================================
