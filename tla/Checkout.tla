------------------------------ MODULE Checkout ------------------------------
(***************************************************************************)
(* POST /api/stripe/checkout (apps/web/src/app/api/stripe/checkout): reuse *)
(* the user's Stripe customer or create and store one, then open a session *)
(* for it.  Stripe and the database are written one after the other, by    *)
(* any number of requests of the same user at once.                        *)
(***************************************************************************)
CONSTANTS
  Users,
  Requests,    \* checkout requests; also the names of the customers they create
  NoUser, NoCustomer,
  Faults       \* whether calls fail and processes die

ASSUME CheckoutAssumption ==
  NoUser \notin Users /\ NoCustomer \notin Requests /\ Faults \in BOOLEAN

VARIABLES
  stage,       \* where a request is
  owner,       \* its user
  customerId,  \* the customer it will open the session for
  created,     \* customers that exist at Stripe
  sessions,    \* checkout sessions at Stripe
  customer     \* subscriptions.stripe_customer_id

vars == <<stage, owner, customerId, created, sessions, customer>>

Stages == {"idle", "reading", "creating", "linking", "opening", "done", "failed"}

TypeOK ==
  /\ stage \in [Requests -> Stages]
  /\ owner \in [Requests -> Users \cup {NoUser}]
  /\ customerId \in [Requests -> Requests \cup {NoCustomer}]
  /\ created \subseteq Requests
  /\ sessions \subseteq [user : Users, customer : Requests]
  /\ customer \in [Users -> Requests \cup {NoCustomer}]

Init ==
  /\ stage = [r \in Requests |-> "idle"]
  /\ owner = [r \in Requests |-> NoUser]
  /\ customerId = [r \in Requests |-> NoCustomer]
  /\ created = {}
  /\ sessions = {}
  /\ customer = [u \in Users |-> NoCustomer]

Goto(r, next) == stage' = [stage EXCEPT ![r] = next]

\* requireUser and the configuration pass.
Begin(r, u) ==
  /\ stage[r] = "idle"
  /\ owner' = [owner EXCEPT ![r] = u]
  /\ Goto(r, "reading")
  /\ UNCHANGED <<customerId, created, sessions, customer>>

\* getSubscription.
ReadCustomer(r) ==
  /\ stage[r] = "reading"
  /\ customerId' = [customerId EXCEPT ![r] = customer[owner[r]]]
  /\ Goto(r, IF customer[owner[r]] = NoCustomer THEN "creating" ELSE "opening")
  /\ UNCHANGED <<owner, created, sessions, customer>>

CreateCustomer(r) ==
  /\ stage[r] = "creating"
  /\ created' = created \cup {r}
  /\ Goto(r, "linking")
  /\ UNCHANGED <<owner, customerId, sessions, customer>>

Replaced(u, r) == r  \* mutated form
StoresUser(u, r) == u  \* mutated form
Coalesce(u, r) == IF customer[u] = NoCustomer THEN r ELSE customer[u]

OwnCustomer(stored, r) == r  \* mutated form
Winner(stored, r) == stored

\* linkStripeCustomer, whose answer is the customer that is stored.
LinkCustomer(r) ==
  LET u == owner[r] IN
  /\ stage[r] = "linking"
  /\ customer' = [customer EXCEPT ![u] = Coalesce(u, r)]
  /\ customerId' = [customerId EXCEPT ![r] = Winner(Coalesce(u, r), r)]
  /\ Goto(r, "opening")
  /\ UNCHANGED <<owner, created, sessions>>

OpenSession(r) ==
  /\ stage[r] = "opening"
  /\ sessions' = sessions \cup {[user |-> owner[r], customer |-> customerId[r]]}
  /\ Goto(r, "done")
  /\ UNCHANGED <<owner, customerId, created, customer>>

\* 502, or the process dies: the call under way did or did not take effect.
Fails(r) ==
  /\ Faults
  /\ Goto(r, "failed")
  /\ \/ /\ stage[r] \in {"reading", "creating", "linking", "opening"}
        /\ UNCHANGED <<created, customer, sessions>>
     \/ /\ stage[r] = "creating"
        /\ created' = created \cup {r}
        /\ UNCHANGED <<customer, sessions>>
     \/ /\ stage[r] = "linking"
        /\ customer' = [customer EXCEPT ![owner[r]] = Coalesce(owner[r], r)]
        /\ UNCHANGED <<created, sessions>>
     \/ /\ stage[r] = "opening"
        /\ sessions' = sessions \cup {[user |-> owner[r], customer |-> customerId[r]]}
        /\ UNCHANGED <<created, customer>>
  /\ UNCHANGED <<owner, customerId>>

RequestStep(r) ==
  \/ \E u \in Users : Begin(r, u)
  \/ ReadCustomer(r) \/ CreateCustomer(r) \/ LinkCustomer(r) \/ OpenSession(r)
  \/ Fails(r)

Next == \E r \in Requests : RequestStep(r)

Spec == Init /\ [][Next]_vars

------------------------------------------------------------------------------
(* Properties.                                                               *)

\* A session is opened for the customer that is stored for its user, so the
\* webhook can map every event it causes without trusting metadata.
SessionsAreLinked ==
  \A s \in sessions : s.customer \in created /\ customer[s.user] = s.customer

\* "One billing history": concurrent and repeated checkouts of a user, failed
\* or not, use one Stripe customer, which is nobody else's.
OneBillingHistory ==
  \A s, t \in sessions : s.user = t.user <=> s.customer = t.customer

\* No customer of a user exists beside the stored one, once requests are over.
\* The code does not keep it: two requests may both read that there is none.
NoDuplicateCustomers ==
  \A r \in created :
    stage[r] \in {"done", "failed"} => customer[owner[r]] \in {r, NoCustomer}

\* The table keeps the promise of SubscriptionMirror.
Mirror == INSTANCE SubscriptionMirror
            WITH Customers <- Requests, appliedAt <- [u \in Users |-> 0]
KeepsMirror == Mirror!Spec
=============================================================================
