------------------------- MODULE SubscriptionMirror -------------------------
(***************************************************************************)
(* What the subscriptions table promises the rest of the program: one row  *)
(* a user, a Stripe customer that is written once and belongs to nobody    *)
(* else, and a subscription state that only ever moves forward in Stripe's *)
(* time.  0 stands for a null last_event_at.                               *)
(***************************************************************************)
EXTENDS Naturals

CONSTANTS Users, Customers, NoCustomer

VARIABLES customer, appliedAt

mirror == <<customer, appliedAt>>

Init ==
  /\ customer \in [Users -> Customers \cup {NoCustomer}]
  /\ appliedAt = [u \in Users |-> 0]

Link(u, c) ==
  /\ customer[u] = NoCustomer
  /\ \A v \in Users : customer[v] # c
  /\ customer' = [customer EXCEPT ![u] = c]
  /\ UNCHANGED appliedAt

Write(u) ==
  /\ customer[u] # NoCustomer
  /\ appliedAt' \in [Users -> Nat]
  /\ appliedAt'[u] >= appliedAt[u]
  /\ \A v \in Users \ {u} : appliedAt'[v] = appliedAt[v]
  /\ UNCHANGED customer

Next ==
  \E u \in Users :
    \/ \E c \in Customers : Link(u, c)
    \/ Write(u)

Spec == Init /\ [][Next]_mirror
=============================================================================
