---------------------------- MODULE StripeWebhook ----------------------------
(***************************************************************************)
(* The Stripe webhook of apps/web/src/app/api/stripe/webhook/route.ts and  *)
(* the tables it writes (packages/database/src/billing.ts): Stripe changes *)
(* subscriptions and emits events; it delivers every event at least once,  *)
(* in any order, until a delivery is answered with 200; a handler claims   *)
(* the event id, maps the customer to a user, reads the subscription back  *)
(* when the event does not carry it, and applies the state to the user's   *)
(* row unless a later event is there already.                              *)
(*                                                                         *)
(* Every query of a handler is a step of its own; apply_stripe_subscription*)
(* is one step because its row exists by then and is locked FOR UPDATE.    *)
(***************************************************************************)
EXTENDS Integers, Sequences

CONSTANTS
  Users, Customers, NoUser, NoCustomer,
  Subs,         \* Stripe subscriptions
  CustomerOf,   \* the Stripe customer of a subscription
  HintOf,       \* metadata.userId of a subscription, or NoUser
  Linked,       \* the customer checkout has stored for a user beforehand
  Handlers,     \* concurrent executions of the POST handler
  SameSecond,   \* whether two changes may fall in the same second
  Faults,       \* which of "error", "claim", "release", "crash", "overlap" happen
  MaxEvents,    \* bound: events Stripe emits
  MaxFaults     \* bound: faults of one behaviour

ASSUME WebhookAssumption ==
  /\ NoUser \notin Users
  /\ NoCustomer \notin Customers
  /\ CustomerOf \in [Subs -> Customers]
  /\ HintOf \in [Subs -> Users \cup {NoUser}]
  /\ Linked \in [Users -> Customers \cup {NoCustomer}]
  /\ \A u, v \in Users : Linked[u] = Linked[v] /\ u # v => Linked[u] = NoCustomer
  /\ SameSecond \in BOOLEAN
  /\ MaxEvents \in Nat /\ MaxFaults \in Nat

VARIABLES
  stripe,      \* the status Stripe holds for a subscription
  changedAt,   \* when it last changed
  clock,       \* Stripe's clock, in the seconds of event.created
  events,      \* what Stripe has emitted, in that order
  acked,       \* events with a delivery that was answered 200
  claim,       \* stripe_events: no row, unprocessed, or the outcome
  step,        \* where a handler is
  handling,    \* the event a handler has claimed, 0 when idle
  user,        \* the user it resolved
  state,       \* the status it is about to write
  result,      \* the outcome it is about to record
  customer,    \* subscriptions.stripe_customer_id
  status,      \* subscriptions.status
  appliedAt,   \* subscriptions.last_event_at, 0 when null
  faults       \* faults so far

stripeVars == <<stripe, changedAt, clock, events>>
handlerVars == <<handling, user, state, result>>
rowVars == <<customer, status, appliedAt>>
vars == <<stripeVars, acked, claim, step, handlerVars, rowVars, faults>>

EventIds == 1..MaxEvents
NoEvent == 0
Live == {"incomplete", "active", "past_due"}
Statuses == Live \cup {"canceled"}
NoStatus == "none"
Kinds == {"checkout", "unpaid", "updated", "deleted", "invoice"}
Events == [kind : Kinds, sub : Subs, status : Statuses, at : Nat]
Outcomes == {"applied", "ignored", "stale"}
Steps == {"idle", "find", "check", "link", "hydrate", "apply", "finish",
          "release"}

TypeOK ==
  /\ stripe \in [Subs -> Statuses \cup {NoStatus}]
  /\ changedAt \in [Subs -> Nat]
  /\ clock \in Nat
  /\ events \in Seq(Events) /\ Len(events) <= MaxEvents
  /\ acked \in [EventIds -> BOOLEAN]
  /\ claim \in [EventIds -> {"free", "claimed"} \cup Outcomes]
  /\ step \in [Handlers -> Steps]
  /\ handling \in [Handlers -> {NoEvent} \cup EventIds]
  /\ user \in [Handlers -> Users \cup {NoUser}]
  /\ state \in [Handlers -> Statuses \cup {NoStatus}]
  /\ result \in [Handlers -> Outcomes]
  /\ customer \in [Users -> Customers \cup {NoCustomer}]
  /\ status \in [Users -> Statuses \cup {NoStatus}]
  /\ appliedAt \in [Users -> Nat]
  /\ faults \in 0..MaxFaults

Init ==
  /\ stripe = [s \in Subs |-> NoStatus]
  /\ changedAt = [s \in Subs |-> 0]
  /\ clock = 1
  /\ events = <<>>
  /\ acked = [e \in EventIds |-> FALSE]
  /\ claim = [e \in EventIds |-> "free"]
  /\ step = [h \in Handlers |-> "idle"]
  /\ handling = [h \in Handlers |-> NoEvent]
  /\ user = [h \in Handlers |-> NoUser]
  /\ state = [h \in Handlers |-> NoStatus]
  /\ result = [h \in Handlers |-> "ignored"]
  /\ customer = Linked
  /\ status = [u \in Users |-> NoStatus]
  /\ appliedAt = [u \in Users |-> 0]
  /\ faults = 0

------------------------------------------------------------------------------
(* Stripe, outside src/: what it changes, and the events HANDLED_EVENTS      *)
(* subscribes the endpoint to.                                               *)

Emit(kind, s, now, at) ==
  /\ Len(events) < MaxEvents
  /\ events' = Append(events, [kind |-> kind, sub |-> s, status |-> now, at |-> at])
  /\ UNCHANGED <<acked, claim, step, handlerVars, rowVars, faults>>

\* A subscription takes a new status, and Stripe says so.
Change(s, now, kind) ==
  /\ clock' \in {clock + 1} \cup (IF SameSecond THEN {clock} ELSE {})
  /\ stripe' = [stripe EXCEPT ![s] = now]
  /\ changedAt' = [changedAt EXCEPT ![s] = clock']
  /\ Emit(kind, s, now, clock')

Subscribe(s) ==
  /\ stripe[s] = NoStatus
  /\ \E now \in {"active", "incomplete"} : Change(s, now, "updated")

Update(s) ==
  /\ stripe[s] \in Live
  /\ \E now \in {"active", "past_due"} \ {stripe[s]} : Change(s, now, "updated")

End(s) ==
  /\ stripe[s] \in Live
  /\ Change(s, "canceled", "deleted")

\* A completed checkout session or an invoice: the state is not in the event.
Signal(s) ==
  /\ stripe[s] # NoStatus
  /\ \E kind \in {"invoice", IF stripe[s] = "incomplete" THEN "unpaid" ELSE "checkout"} :
       Emit(kind, s, stripe[s], clock)
  /\ UNCHANGED <<stripe, changedAt, clock>>

StripeStep == \E s \in Subs : Subscribe(s) \/ Update(s) \/ End(s) \/ Signal(s)

------------------------------------------------------------------------------
(* planEvent.                                                                *)

Ignored(e) == events[e].kind = "unpaid"
CustomerIn(e) == CustomerOf[events[e].sub]
Hint(e) ==
  IF events[e].kind \in {"checkout", "updated"} THEN HintOf[events[e].sub] ELSE NoUser
IsComplete(e) == events[e].kind \in {"updated", "deleted"}

------------------------------------------------------------------------------
(* POST and handleEvent.                                                     *)

Fault(kind) ==
  /\ kind \in Faults
  /\ faults < MaxFaults
  /\ faults' = faults + 1

Goto(h, next) == step' = [step EXCEPT ![h] = next]

Finishes(h, outcome) ==
  /\ result' = [result EXCEPT ![h] = outcome]
  /\ Goto(h, "finish")

\* Whether Stripe sends e now: it is not acknowledged, and, unless a delivery
\* has timed out at Stripe's side, no earlier one is being answered.
Deliverable(e) ==
  /\ e \in 1..Len(events)
  /\ ~acked[e]
  /\ "overlap" \in Faults \/ \A h \in Handlers : handling[h] # e

Claim(h, e) ==
  /\ step[h] = "idle"
  /\ Deliverable(e)
  /\ claim[e] = "free"
  /\ claim' = [claim EXCEPT ![e] = "claimed"]
  /\ handling' = [handling EXCEPT ![h] = e]
  /\ result' = [result EXCEPT ![h] = "ignored"]
  /\ Goto(h, IF Ignored(e) THEN "finish" ELSE "find")
  /\ UNCHANGED <<stripeVars, acked, user, state, rowVars, faults>>

\* The insert commits and its reply is lost.  claimStripeEvent is awaited before
\* the try: the handler throws, and nothing releases the claim.
ClaimLost(e) ==
  /\ Deliverable(e)
  /\ claim[e] = "free"
  /\ Fault("claim")
  /\ claim' = [claim EXCEPT ![e] = "claimed"]
  /\ UNCHANGED <<stripeVars, acked, step, handlerVars, rowVars>>

\* The insert loses: 200, duplicate.
Duplicate(e) ==
  /\ Deliverable(e)
  /\ claim[e] # "free"
  /\ acked' = [acked EXCEPT ![e] = TRUE]
  /\ UNCHANGED <<stripeVars, claim, step, handlerVars, rowVars, faults>>

\* The user is known: the event's own state, or the one to be read back.
Resolved(h, u) ==
  LET e == handling[h] IN
  /\ user' = [user EXCEPT ![h] = u]
  /\ state' = [state EXCEPT ![h] = IF IsComplete(e) THEN events[e].status ELSE NoStatus]
  /\ Goto(h, IF IsComplete(e) THEN "apply" ELSE "hydrate")
  /\ UNCHANGED result

Unknown(h) == Finishes(h, "ignored") /\ UNCHANGED <<user, state>>

\* findUserByStripeCustomer.
Find(h) ==
  LET e == handling[h]
      Owner == {u \in Users : customer[u] = CustomerIn(e)}
  IN
  /\ step[h] = "find"
  /\ \/ \E u \in Owner : Resolved(h, u)
     \/ Owner = {} /\ Hint(e) = NoUser /\ Unknown(h)
     \/ Owner = {} /\ Hint(e) # NoUser
        /\ Goto(h, "check") /\ UNCHANGED <<user, state, result>>
  /\ UNCHANGED <<stripeVars, acked, claim, handling, rowVars, faults>>

\* getSubscription of the hinted user: is there a different customer?
Check(h) ==
  LET e == handling[h] IN
  /\ step[h] = "check"
  /\ IF customer[Hint(e)] \in {NoCustomer, CustomerIn(e)}
     THEN Goto(h, "link") /\ UNCHANGED <<user, state, result>>
     ELSE Unknown(h)
  /\ UNCHANGED <<stripeVars, acked, claim, handling, rowVars, faults>>

LinkMoves(u, c) == c  \* mutated form
LinkStoresUser(u, c) == u  \* mutated form
Coalesce(u, c) == IF customer[u] = NoCustomer THEN c ELSE customer[u]

\* linkStripeCustomer; stripe_customer_id is unique, so a customer that
\* somebody else holds raises.
Link(h) ==
  LET e == handling[h]
      u == Hint(e)
      c == CustomerIn(e)
  IN
  /\ step[h] = "link"
  /\ IF Coalesce(u, c) = c /\ \E v \in Users \ {u} : customer[v] = c
     THEN Goto(h, "release") /\ UNCHANGED <<user, state, result, customer>>
     ELSE /\ customer' = [customer EXCEPT ![u] = Coalesce(u, c)]
          /\ IF customer'[u] = c THEN Resolved(h, u) ELSE Unknown(h)
  /\ UNCHANGED <<stripeVars, acked, claim, handling, status, appliedAt, faults>>

\* hydrate: the subscription as Stripe holds it now, under the event's time.
Hydrate(h) ==
  /\ step[h] = "hydrate"
  /\ state' = [state EXCEPT ![h] = stripe[events[handling[h]].sub]]
  /\ Goto(h, "apply")
  /\ UNCHANGED <<stripeVars, acked, claim, handling, user, result, rowVars, faults>>

NeverStale(u, at) == FALSE  \* mutated form
LateIsStale(u, at) == appliedAt[u] # 0 /\ appliedAt[u] > at + 1  \* mutated form
IsStale(u, at) == appliedAt[u] # 0 /\ appliedAt[u] > at

\* apply_stripe_subscription.  ok is FALSE when it commits and its reply is lost.
Apply(h, ok) ==
  LET e == handling[h]
      u == user[h]
      at == events[e].at
  IN
  /\ step[h] = "apply"
  /\ IF IsStale(u, at)
     THEN UNCHANGED rowVars
     ELSE /\ customer' = [customer EXCEPT ![u] = CustomerIn(e)]
          /\ status' = [status EXCEPT ![u] = state[h]]
          /\ appliedAt' = [appliedAt EXCEPT ![u] = at]
  /\ IF ok THEN Finishes(h, IF IsStale(u, at) THEN "stale" ELSE "applied") /\ UNCHANGED faults
           ELSE Fault("error") /\ Goto(h, "release") /\ UNCHANGED result
  /\ UNCHANGED <<stripeVars, acked, claim, handling, user, state>>

Forget(h) ==
  /\ Goto(h, "idle")
  /\ handling' = [handling EXCEPT ![h] = NoEvent]
  /\ user' = [user EXCEPT ![h] = NoUser]
  /\ state' = [state EXCEPT ![h] = NoStatus]
  /\ result' = [result EXCEPT ![h] = "ignored"]

\* finishStripeEvent, and 200.
Finish(h) ==
  /\ step[h] = "finish"
  /\ claim' = [claim EXCEPT ![handling[h]] = result[h]]
  /\ acked' = [acked EXCEPT ![handling[h]] = TRUE]
  /\ Forget(h)
  /\ UNCHANGED <<stripeVars, rowVars, faults>>

\* finishStripeEvent commits and its reply is lost.
FinishLost(h) ==
  /\ step[h] = "finish"
  /\ Fault("error")
  /\ claim' = [claim EXCEPT ![handling[h]] = result[h]]
  /\ Goto(h, "release")
  /\ UNCHANGED <<stripeVars, acked, handlerVars, rowVars>>

\* A query inside the try, or the call to Stripe, fails without an effect.  (An
\* insert of the claim that fails without an effect changes nothing.)
Throws(h) ==
  /\ step[h] \notin {"idle", "release"}
  /\ Fault("error")
  /\ Goto(h, "release")
  /\ UNCHANGED <<stripeVars, acked, claim, handlerVars, rowVars>>

ReleaseKeeps(e) == claim[e]  \* mutated form
Released(e) == IF claim[e] = "claimed" THEN "free" ELSE claim[e]

ReleaseAcks(h) ==  \* mutated form: the catch block answers 200
  /\ step[h] = "release"
  /\ claim' = [claim EXCEPT ![handling[h]] = Released(handling[h])]
  /\ acked' = [acked EXCEPT ![handling[h]] = TRUE]
  /\ Forget(h)
  /\ UNCHANGED <<stripeVars, rowVars, faults>>

\* releaseStripeEvent, and 500: Stripe will send the event again.
Release(h) ==
  /\ step[h] = "release"
  /\ claim' = [claim EXCEPT ![handling[h]] = Released(handling[h])]
  /\ Forget(h)
  /\ UNCHANGED <<stripeVars, acked, rowVars, faults>>

\* The release fails too; its rejection is swallowed.
ReleaseFails(h) ==
  /\ step[h] = "release"
  /\ Fault("release")
  /\ Forget(h)
  /\ UNCHANGED <<stripeVars, acked, claim, rowVars>>

\* The process ends, or the platform cuts the request off, at any await.
Dies(h) ==
  /\ step[h] # "idle"
  /\ Fault("crash")
  /\ Forget(h)
  /\ UNCHANGED <<stripeVars, acked, claim, rowVars>>

Progress(h) ==
  \/ Find(h) \/ Check(h) \/ Link(h) \/ Hydrate(h) \/ Apply(h, TRUE)
  \/ Finish(h) \/ Release(h)

Failure(h) ==
  \/ Apply(h, FALSE) \/ FinishLost(h) \/ Throws(h) \/ ReleaseFails(h) \/ Dies(h)

Deliver(e) == Duplicate(e) \/ \E h \in Handlers : Claim(h, e)

Next ==
  \/ StripeStep
  \/ \E e \in EventIds : Deliver(e) \/ ClaimLost(e)
  \/ \E h \in Handlers : Progress(h) \/ Failure(h)

Spec == Init /\ [][Next]_vars

\* Stripe retries what is not acknowledged; a request that is running goes on.
FairSpec ==
  /\ Spec
  /\ \A e \in EventIds : WF_vars(Deliver(e))
  /\ \A h \in Handlers : WF_vars(Progress(h))

------------------------------------------------------------------------------
(* Properties.                                                               *)

\* Action property: whatever order, duplication or retry the events come in,
\* a row is never overwritten by the state of an earlier second, the guard of
\* apply_stripe_subscription (0002_job_functions.sql).
NeverBackwards == [][\A u \in Users : appliedAt'[u] >= appliedAt[u]]_vars

\* Action property: linkStripeCustomer "refuses to move an existing customer
\* id", however the find, the check and the link of two handlers interleave,
\* and apply_stripe_subscription does not move it either.
CustomerNeverMoves ==
  [][\A u \in Users : customer[u] # NoCustomer => customer'[u] = customer[u]]_vars

\* An event Stripe will not send again has been processed, or is being: the
\* claim must not turn a retry into a duplicate while its work is undone.  The
\* code keeps it through the faults called "error" only.  It breaks when a
\* release fails, a process dies between the claim and the finish, or the claim
\* commits and its reply is lost.
AckedIsProcessed ==
  \A e \in EventIds :
    acked[e] => claim[e] \in Outcomes \/ \E h \in Handlers : handling[h] = e

\* What those faults cannot do: an event Stripe will not send again has its row in
\* stripe_events, with an outcome or visibly without one (processed_at is null),
\* so a lost event can be found and replayed.  It needs Stripe to wait for the
\* answer of one delivery before it sends the next.
LostIsOnRecord ==
  "overlap" \notin Faults => \A e \in EventIds : acked[e] => claim[e] # "free"

Processed(s) ==
  \A e \in 1..Len(events) : events[e].sub = s => claim[e] \in Outcomes

\* Once every event of a subscription has been processed, in whatever order,
\* the row of its customer says what Stripe says.
Converged ==
  \A s \in Subs, u \in Users :
    stripe[s] # NoStatus /\ Processed(s) /\ customer[u] = CustomerOf[s]
      => status[u] = stripe[s]

\* Once every event has been processed, a user one of whose subscriptions
\* Stripe holds active has the plan they pay for.  The code keeps it for one
\* subscription a customer only: the row is the user's, not a subscription's.
PayingKeepsPlan ==
  (\A s \in Subs : Processed(s)) =>
    \A s \in Subs, u \in Users :
      stripe[s] = "active" /\ customer[u] = CustomerOf[s] => status[u] = "active"

\* Liveness: Stripe retries until the event is processed, and the claim of a
\* failed attempt does not stand in the way.  Like AckedIsProcessed, it holds
\* through "error" only.
EventuallyProcessed ==
  \A e \in EventIds : e <= Len(events) ~> claim[e] \in Outcomes

\* The table keeps the promise of SubscriptionMirror.
Mirror == INSTANCE SubscriptionMirror
KeepsMirror == Mirror!Spec
=============================================================================
