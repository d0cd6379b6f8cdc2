------------------------- MODULE StripeWebhookProofs -------------------------
(***************************************************************************)
(* Proofs about StripeWebhook, for any number of users, subscriptions,     *)
(* events, handlers and faults.                                            *)
(***************************************************************************)
EXTENDS StripeWebhook, TLAPS

USE DEF EventIds, NoEvent, NoStatus, Statuses, Live, Kinds, Events, Outcomes, Steps
USE WebhookAssumption DEF WebhookAssumption

\* The handler's place in the code bounds what it holds.
HandlerOK(h) ==
  /\ step[h] # "idle" => handling[h] \in 1..Len(events)
  /\ step[h] \in {"check", "link"} => Hint(handling[h]) \in Users
  /\ step[h] \in {"hydrate", "apply"} =>
       user[h] \in Users /\ customer[user[h]] = CustomerIn(handling[h])

\* A customer belongs to one user: the unique constraint.
OneOwner ==
  \A u, v \in Users : customer[u] = customer[v] /\ u # v => customer[u] = NoCustomer

HInv ==
  /\ TypeOK
  /\ \A h \in Handlers : HandlerOK(h)
  /\ OneOwner

\* An emitted event stays as it is.
LEMMA EmitAppends ==
  ASSUME TypeOK, NEW s \in Subs, NEW kind \in Kinds, NEW now \in Statuses,
         NEW at \in Nat, Emit(kind, s, now, at)
  PROVE  /\ events' \in Seq(Events) /\ Len(events') <= MaxEvents
         /\ Len(events') = Len(events) + 1
         /\ \A e \in 1..Len(events) : events'[e] = events[e]
         /\ events'[Len(events')] =
              [kind |-> kind, sub |-> s, status |-> now, at |-> at]
<1>1. [kind |-> kind, sub |-> s, status |-> now, at |-> at] \in Events
  OBVIOUS
<1> QED BY <1>1 DEF Emit, TypeOK

\* What a step of Stripe does to the events, and all it leaves alone.
StripeEffect ==
  /\ events' \in Seq(Events) /\ Len(events') <= MaxEvents
  /\ Len(events') = Len(events) + 1
  /\ \A e \in 1..Len(events) : events'[e] = events[e]
  /\ stripe' \in [Subs -> Statuses \cup {NoStatus}]
  /\ changedAt' \in [Subs -> Nat]
  /\ clock' \in Nat
  /\ UNCHANGED <<acked, claim, step, handlerVars, rowVars, faults>>

LEMMA ChangeEffect ==
  ASSUME TypeOK, NEW s \in Subs, NEW now \in Statuses, NEW kind \in Kinds,
         Change(s, now, kind)
  PROVE  StripeEffect
<1>1. clock' \in Nat /\ Emit(kind, s, now, clock')
  BY DEF Change, TypeOK
<1>2. /\ events' \in Seq(Events) /\ Len(events') <= MaxEvents
      /\ Len(events') = Len(events) + 1
      /\ \A e \in 1..Len(events) : events'[e] = events[e]
  BY <1>1, EmitAppends
<1>3. stripe' \in [Subs -> Statuses \cup {NoStatus}] /\ changedAt' \in [Subs -> Nat]
  BY <1>1 DEF Change, TypeOK
<1> QED BY <1>1, <1>2, <1>3 DEF Emit, StripeEffect

LEMMA StripeStepEffect ==
  ASSUME TypeOK, StripeStep
  PROVE  StripeEffect
<1> SUFFICES ASSUME NEW s \in Subs,
                    Subscribe(s) \/ Update(s) \/ End(s) \/ Signal(s)
             PROVE  StripeEffect
  BY DEF StripeStep
<1>1. CASE Subscribe(s)
  BY <1>1, ChangeEffect DEF Subscribe
<1>2. CASE Update(s)
  BY <1>2, ChangeEffect DEF Update
<1>3. CASE End(s)
  BY <1>3, ChangeEffect DEF End
<1>4. CASE Signal(s)
  <2>1. stripe[s] \in Statuses /\ clock \in Nat
    BY <1>4 DEF Signal, TypeOK
  <2>2. PICK kind \in Kinds : Emit(kind, s, stripe[s], clock)
    BY <1>4 DEF Signal
  <2>3. /\ events' \in Seq(Events) /\ Len(events') <= MaxEvents
        /\ Len(events') = Len(events) + 1
        /\ \A e \in 1..Len(events) : events'[e] = events[e]
    BY <2>1, <2>2, EmitAppends
  <2> QED BY <1>4, <2>2, <2>3 DEF Emit, Signal, StripeEffect, TypeOK
<1> QED BY <1>1, <1>2, <1>3, <1>4

LEMMA HInvInit == Init => HInv
BY DEF Init, HInv, TypeOK, HandlerOK, OneOwner

LEMMA ElementOfSeq ==
  ASSUME NEW S, NEW seq \in Seq(S), NEW i \in 1..Len(seq)
  PROVE  seq[i] \in S
OBVIOUS

\* The event a busy handler has claimed.
LEMMA ClaimedEvent ==
  ASSUME HInv, NEW h \in Handlers, step[h] # "idle"
  PROVE  /\ handling[h] \in 1..Len(events) /\ handling[h] \in EventIds
         /\ events[handling[h]] \in Events
         /\ CustomerIn(handling[h]) \in Customers
         /\ Hint(handling[h]) \in Users \cup {NoUser}
<1>1. handling[h] \in 1..Len(events)
  BY DEF HInv, HandlerOK
<1>2. events[handling[h]] \in Events
  <2>1. events \in Seq(Events)
    BY DEF HInv, TypeOK
  <2> QED BY <1>1, <2>1, ElementOfSeq
<1>5. handling[h] \in EventIds
  BY <1>1 DEF HInv, TypeOK
<1>3. events[handling[h]].sub \in Subs
  BY <1>2
<1>4. CustomerIn(handling[h]) \in Customers
  BY <1>3 DEF CustomerIn
<1>6. Hint(handling[h]) \in Users \cup {NoUser}
  BY <1>3 DEF Hint
<1> QED BY <1>1, <1>2, <1>4, <1>5, <1>6

\* A handler is where it was when only others move and customers stay put.
LEMMA HandlerFrame ==
  ASSUME HInv, NEW g \in Handlers,
         UNCHANGED <<events, step[g], handling[g], user[g]>>,
         \A u \in Users : customer[u] # NoCustomer => customer'[u] = customer[u]
  PROVE  HandlerOK(g)'
<1>1. HandlerOK(g)
  BY DEF HInv
<1>2. ASSUME step[g] # "idle"
      PROVE  Hint(handling[g])' = Hint(handling[g]) /\ CustomerIn(handling[g])' = CustomerIn(handling[g])
  BY DEF Hint, CustomerIn
<1>3. ASSUME step[g] # "idle" PROVE CustomerIn(handling[g]) \in Customers
  BY <1>3, ClaimedEvent
<1>4. ASSUME step[g] \in {"hydrate", "apply"}
      PROVE  user'[g] \in Users /\ customer'[user'[g]] = CustomerIn(handling[g])'
  BY <1>1, <1>2, <1>3, <1>4 DEF HandlerOK
<1> QED BY <1>1, <1>2, <1>4 DEF HandlerOK

\* Types and the handlers' bookkeeping are kept by every step.
LEMMA HInvStep == HInv /\ [Next]_vars => HInv'
<1> SUFFICES ASSUME HInv, [Next]_vars PROVE HInv'
  OBVIOUS
<1> USE DEF HInv
<1>1. CASE StripeStep
  <2>1. StripeEffect
    BY <1>1, StripeStepEffect
  <2>2. TypeOK'
    BY <2>1 DEF StripeEffect, TypeOK, handlerVars, rowVars
  <2>3. ASSUME NEW h \in Handlers PROVE HandlerOK(h)'
    <3>1. HandlerOK(h)
      OBVIOUS
    <3>2. /\ handling'[h] = handling[h] /\ step'[h] = step[h] /\ user'[h] = user[h]
          /\ customer' = customer
      BY <2>1 DEF StripeEffect, handlerVars, rowVars
    <3>3. CASE step[h] = "idle"
      BY <3>2, <3>3 DEF HandlerOK
    <3>4. CASE step[h] # "idle"
      <4>1. handling[h] \in 1..Len(events) /\ events'[handling[h]] = events[handling[h]]
        BY <2>1, <3>1, <3>4 DEF HandlerOK, StripeEffect
      <4>2. handling[h] \in 1..Len(events')
        BY <2>1, <4>1 DEF StripeEffect, TypeOK
      <4>3. Hint(handling[h])' = Hint(handling[h]) /\ CustomerIn(handling[h])' = CustomerIn(handling[h])
        BY <3>2, <4>1 DEF Hint, CustomerIn
      <4> QED BY <3>1, <3>2, <4>2, <4>3 DEF HandlerOK
    <3> QED BY <3>3, <3>4
  <2>4. OneOwner'
    BY <2>1 DEF StripeEffect, rowVars, OneOwner
  <2> QED BY <2>2, <2>3, <2>4
<1>2. ASSUME NEW e \in EventIds, Duplicate(e) PROVE HInv'
  BY <1>2 DEF Duplicate, stripeVars, handlerVars, rowVars, TypeOK, HandlerOK, OneOwner,
              Hint, CustomerIn
<1>2a. ASSUME NEW e \in EventIds, ClaimLost(e) PROVE HInv'
  BY <1>2a DEF ClaimLost, Fault, stripeVars, handlerVars, rowVars, TypeOK, HandlerOK, OneOwner,
               Hint, CustomerIn
<1>3. ASSUME NEW e \in EventIds, NEW h \in Handlers, Claim(h, e) PROVE HInv'
  <2>1. TypeOK' /\ OneOwner'
    BY <1>3 DEF Claim, Goto, Deliverable, stripeVars, rowVars, TypeOK, OneOwner
  <2>2. HandlerOK(h)'
    BY <1>3 DEF Claim, Goto, Deliverable, stripeVars, rowVars, TypeOK, HandlerOK
  <2>3. ASSUME NEW g \in Handlers, g # h PROVE HandlerOK(g)'
    BY <1>3, <2>3, HandlerFrame DEF Claim, Goto, stripeVars, rowVars, TypeOK
  <2> QED BY <2>1, <2>2, <2>3
<1>4. ASSUME NEW h \in Handlers, Find(h) PROVE HInv'
  <2> DEFINE e == handling[h]
  <2>0. /\ step[h] = "find" /\ e \in 1..Len(events) /\ events[e] \in Events
        /\ CustomerIn(e) \in Customers /\ Hint(e) \in Users \cup {NoUser}
    BY <1>4, ClaimedEvent DEF Find
  <2>1. OneOwner'
    BY <1>4 DEF Find, rowVars, OneOwner
  <2>2. ASSUME NEW g \in Handlers, g # h PROVE HandlerOK(g)'
    BY <1>4, <2>2, HandlerFrame
    DEF Find, Resolved, Unknown, Finishes, Goto, stripeVars, rowVars, TypeOK
  <2>3. ASSUME NEW u \in Users, customer[u] = CustomerIn(e), Resolved(h, u)
        PROVE  HInv'
    <3>1. TypeOK'
      BY <1>4, <2>0, <2>3 DEF Find, Resolved, Goto, stripeVars, rowVars, TypeOK
    <3>2. HandlerOK(h)'
      BY <1>4, <2>0, <2>3 DEF Find, Resolved, Goto, stripeVars, rowVars, TypeOK, HandlerOK, CustomerIn
    <3> QED BY <2>1, <2>2, <3>1, <3>2
  <2>4. CASE Unknown(h)
    <3>1. TypeOK'
      BY <1>4, <2>4 DEF Find, Unknown, Finishes, Goto, stripeVars, rowVars, TypeOK
    <3>2. HandlerOK(h)'
      BY <1>4, <2>0, <2>4 DEF Find, Unknown, Finishes, Goto, stripeVars, rowVars, TypeOK, HandlerOK
    <3> QED BY <2>1, <2>2, <3>1, <3>2
  <2>5. CASE Hint(e) # NoUser /\ Goto(h, "check") /\ UNCHANGED <<user, state, result>>
    <3>1. TypeOK'
      BY <1>4, <2>5 DEF Find, Goto, stripeVars, rowVars, TypeOK
    <3>2. HandlerOK(h)'
      BY <1>4, <2>0, <2>5 DEF Find, Goto, stripeVars, rowVars, TypeOK, HandlerOK, Hint
    <3> QED BY <2>1, <2>2, <3>1, <3>2
  <2> QED BY <1>4, <2>3, <2>4, <2>5 DEF Find
<1>5. ASSUME NEW h \in Handlers, Check(h) PROVE HInv'
  <2>0. step[h] = "check" /\ handling[h] \in 1..Len(events)
    BY <1>5, ClaimedEvent DEF Check
  <2>1. TypeOK' /\ OneOwner'
    <3>1. \/ step' = [step EXCEPT ![h] = "link"] /\ result' = result
          \/ /\ step' = [step EXCEPT ![h] = "finish"]
             /\ result' = [result EXCEPT ![h] = "ignored"]
      BY <1>5 DEF Check, Unknown, Finishes, Goto
    <3>2. UNCHANGED <<stripeVars, acked, claim, handling, user, state, rowVars, faults>>
      BY <1>5 DEF Check, Unknown
    <3>3. step' \in [Handlers -> Steps] /\ result' \in [Handlers -> Outcomes]
      BY <3>1 DEF TypeOK
    <3> QED BY <3>2, <3>3 DEF stripeVars, rowVars, TypeOK, OneOwner
  <2>2. HandlerOK(h)'
    BY <1>5, <2>0 DEF Check, Unknown, Finishes, Goto, stripeVars, rowVars, TypeOK, HandlerOK, Hint
  <2>3. ASSUME NEW g \in Handlers, g # h PROVE HandlerOK(g)'
    BY <1>5, <2>3, HandlerFrame DEF Check, Unknown, Finishes, Goto, stripeVars, rowVars, TypeOK
  <2> QED BY <2>1, <2>2, <2>3
<1>6. ASSUME NEW h \in Handlers, Link(h) PROVE HInv'
  <2> DEFINE e == handling[h]
             u == Hint(e)
             c == CustomerIn(e)
  <2>0. /\ step[h] = "link" /\ e \in 1..Len(events) /\ events[e] \in Events
        /\ c \in Customers /\ u \in Users
    BY <1>6, ClaimedEvent DEF Link, HandlerOK
  <2>1. CASE Coalesce(u, c) = c /\ \E v \in Users \ {u} : customer[v] = c
    <3>1. /\ Goto(h, "release")
          /\ UNCHANGED <<user, state, result, customer, stripeVars, acked, claim,
                         handling, status, appliedAt, faults>>
      BY <1>6, <2>1 DEF Link
    <3>2. TypeOK' /\ OneOwner'
      BY <3>1 DEF Goto, stripeVars, TypeOK, OneOwner
    <3>3. HandlerOK(h)'
      BY <2>0, <3>1 DEF Goto, stripeVars, TypeOK, HandlerOK
    <3>4. ASSUME NEW g \in Handlers, g # h PROVE HandlerOK(g)'
      BY <3>1, <3>4, HandlerFrame DEF Goto, stripeVars, TypeOK
    <3> QED BY <3>2, <3>3, <3>4
  <2>2. CASE ~(Coalesce(u, c) = c /\ \E v \in Users \ {u} : customer[v] = c)
    <3>1. /\ customer' = [customer EXCEPT ![u] = Coalesce(u, c)]
          /\ IF customer'[u] = c THEN Resolved(h, u) ELSE Unknown(h)
          /\ UNCHANGED <<stripeVars, acked, claim, handling, status, appliedAt, faults>>
      BY <1>6, <2>2 DEF Link
    <3>2. /\ customer' \in [Users -> Customers \cup {NoCustomer}]
          /\ customer'[u] = Coalesce(u, c)
          /\ \A v \in Users : customer[v] # NoCustomer => customer'[v] = customer[v]
      BY <2>0, <3>1 DEF Coalesce, TypeOK
    <3>3. OneOwner'
      BY <2>0, <2>2, <3>1 DEF OneOwner, Coalesce, TypeOK
    <3>4. ASSUME NEW g \in Handlers, g # h PROVE HandlerOK(g)'
      BY <3>1, <3>2, <3>4, HandlerFrame
      DEF Resolved, Unknown, Finishes, Goto, stripeVars, TypeOK
    <3>5. CASE customer'[u] = c
      <4>1. Resolved(h, u)
        BY <3>1, <3>5
      <4>2. TypeOK'
        BY <2>0, <3>1, <3>2, <4>1 DEF Resolved, Goto, stripeVars, TypeOK
      <4>3. HandlerOK(h)'
        BY <2>0, <3>1, <3>2, <3>5, <4>1
        DEF Resolved, Goto, stripeVars, TypeOK, HandlerOK, CustomerIn
      <4> QED BY <3>3, <3>4, <4>2, <4>3
    <3>6. CASE customer'[u] # c
      <4>1. Unknown(h)
        BY <3>1, <3>6
      <4>2. TypeOK'
        BY <3>1, <3>2, <4>1 DEF Unknown, Finishes, Goto, stripeVars, TypeOK
      <4>3. HandlerOK(h)'
        BY <2>0, <3>1, <4>1 DEF Unknown, Finishes, Goto, stripeVars, TypeOK, HandlerOK
      <4> QED BY <3>3, <3>4, <4>2, <4>3
    <3> QED BY <3>5, <3>6
  <2> QED BY <2>1, <2>2
<1>7. ASSUME NEW h \in Handlers, Hydrate(h) PROVE HInv'
  <2>0. /\ step[h] = "hydrate" /\ handling[h] \in 1..Len(events)
        /\ events[handling[h]] \in Events
    BY <1>7, ClaimedEvent DEF Hydrate
  <2>1. TypeOK' /\ OneOwner'
    <3>1. /\ state' = [state EXCEPT ![h] = stripe[events[handling[h]].sub]]
          /\ step' = [step EXCEPT ![h] = "apply"]
          /\ UNCHANGED <<stripeVars, acked, claim, handling, user, result, rowVars, faults>>
      BY <1>7 DEF Hydrate, Goto
    <3>2. stripe[events[handling[h]].sub] \in Statuses \cup {NoStatus}
      BY <2>0 DEF TypeOK
    <3>3. /\ state' \in [Handlers -> Statuses \cup {NoStatus}]
          /\ step' \in [Handlers -> Steps]
      BY <3>1, <3>2 DEF TypeOK
    <3> QED BY <3>1, <3>3 DEF stripeVars, rowVars, TypeOK, OneOwner
  <2>2. HandlerOK(h)'
    BY <1>7, <2>0 DEF Hydrate, Goto, stripeVars, rowVars, TypeOK, HandlerOK, CustomerIn
  <2>3. ASSUME NEW g \in Handlers, g # h PROVE HandlerOK(g)'
    BY <1>7, <2>3, HandlerFrame DEF Hydrate, Goto, stripeVars, rowVars, TypeOK
  <2> QED BY <2>1, <2>2, <2>3
<1>8. ASSUME NEW h \in Handlers, NEW ok \in BOOLEAN, Apply(h, ok) PROVE HInv'
  <2>0. /\ step[h] = "apply" /\ handling[h] \in 1..Len(events)
        /\ events[handling[h]] \in Events /\ user[h] \in Users
        /\ customer[user[h]] = CustomerIn(handling[h])
    BY <1>8, ClaimedEvent DEF Apply, HandlerOK
  <2>1. /\ customer' = customer
        /\ status' \in [Users -> Statuses \cup {NoStatus}]
        /\ appliedAt' \in [Users -> Nat]
    <3>1. CASE IsStale(user[h], events[handling[h]].at)
      BY <1>8, <3>1 DEF Apply, rowVars, TypeOK
    <3>2. CASE ~IsStale(user[h], events[handling[h]].at)
      <4>1. /\ customer' = [customer EXCEPT ![user[h]] = CustomerIn(handling[h])]
            /\ status' = [status EXCEPT ![user[h]] = state[h]]
            /\ appliedAt' = [appliedAt EXCEPT ![user[h]] = events[handling[h]].at]
        BY <1>8, <3>2 DEF Apply
      <4> QED BY <2>0, <4>1 DEF TypeOK
    <3> QED BY <3>1, <3>2
  <2>2. /\ step' \in {[step EXCEPT ![h] = "finish"], [step EXCEPT ![h] = "release"]}
        /\ result' \in [Handlers -> Outcomes] /\ faults' \in 0..MaxFaults
        /\ UNCHANGED <<stripeVars, acked, claim, handling, user, state>>
    <3>1. CASE ok
      <4>1. /\ step' = [step EXCEPT ![h] = "finish"] /\ faults' = faults
            /\ UNCHANGED <<stripeVars, acked, claim, handling, user, state>>
        BY <1>8, <3>1 DEF Apply, Finishes, Goto
      <4>2. \/ result' = [result EXCEPT ![h] = "stale"]
            \/ result' = [result EXCEPT ![h] = "applied"]
        BY <1>8, <3>1 DEF Apply, Finishes
      <4> QED BY <4>1, <4>2 DEF TypeOK
    <3>2. CASE ~ok
      BY <1>8, <3>2 DEF Apply, Fault, Goto, TypeOK
    <3> QED BY <3>1, <3>2
  <2>3. TypeOK' /\ OneOwner'
    <3>1. step' \in [Handlers -> Steps]
      BY <2>2 DEF TypeOK
    <3>2. /\ UNCHANGED <<stripe, changedAt, clock, events>>
          /\ UNCHANGED <<acked, claim, handling, user, state, customer>>
      BY <2>1, <2>2 DEF stripeVars
    <3>3. TypeOK'
      BY <2>1, <2>2, <3>1, <3>2 DEF TypeOK
    <3>4. OneOwner'
      BY <2>1 DEF OneOwner
    <3> QED BY <3>3, <3>4
  <2>4. HandlerOK(h)'
    BY <2>0, <2>2 DEF stripeVars, TypeOK, HandlerOK
  <2>5. ASSUME NEW g \in Handlers, g # h PROVE HandlerOK(g)'
    BY <2>1, <2>2, <2>5, HandlerFrame DEF stripeVars, TypeOK
  <2> QED BY <2>3, <2>4, <2>5
<1>9. ASSUME NEW h \in Handlers,
             Finish(h) \/ Release(h) \/ ReleaseFails(h) \/ Dies(h)
      PROVE  HInv'
  <2>0. step[h] # "idle" /\ handling[h] \in EventIds
    BY <1>9, ClaimedEvent DEF Finish, Release, ReleaseFails, Dies
  <2>1. Forget(h) /\ UNCHANGED <<stripeVars, rowVars>>
    BY <1>9 DEF Finish, Release, ReleaseFails, Dies
  <2>2. /\ claim' \in [EventIds -> {"free", "claimed"} \cup Outcomes]
        /\ acked' \in [EventIds -> BOOLEAN] /\ faults' \in 0..MaxFaults
    <3>1. CASE Finish(h)
      BY <2>0, <3>1 DEF Finish, TypeOK
    <3>2. CASE Release(h)
      BY <2>0, <3>2 DEF Release, Released, TypeOK
    <3>3. CASE ReleaseFails(h) \/ Dies(h)
      BY <3>3 DEF ReleaseFails, Dies, Fault, TypeOK
    <3> QED BY <1>9, <3>1, <3>2, <3>3
  <2>3. TypeOK' /\ OneOwner'
    BY <2>1, <2>2 DEF Forget, Goto, stripeVars, rowVars, TypeOK, OneOwner
  <2>4. HandlerOK(h)'
    BY <2>1 DEF Forget, Goto, TypeOK, HandlerOK
  <2>5. ASSUME NEW g \in Handlers, g # h PROVE HandlerOK(g)'
    BY <2>1, <2>5, HandlerFrame DEF Forget, Goto, stripeVars, rowVars, TypeOK
  <2> QED BY <2>3, <2>4, <2>5
<1>10. ASSUME NEW h \in Handlers, FinishLost(h) \/ Throws(h) PROVE HInv'
  <2>0. step[h] # "idle" /\ handling[h] \in EventIds /\ handling[h] \in 1..Len(events)
    BY <1>10, ClaimedEvent DEF FinishLost, Throws
  <2>1. Goto(h, "release") /\ UNCHANGED <<stripeVars, acked, handlerVars, rowVars>>
    BY <1>10 DEF FinishLost, Throws
  <2>2. /\ claim' \in [EventIds -> {"free", "claimed"} \cup Outcomes]
        /\ faults' \in 0..MaxFaults
    <3>1. claim \in [EventIds -> {"free", "claimed"} \cup Outcomes] /\ result[h] \in Outcomes
      BY DEF TypeOK
    <3>2. claim' = claim \/ claim' = [claim EXCEPT ![handling[h]] = result[h]]
      BY <1>10 DEF FinishLost, Throws
    <3>3. faults' = faults + 1 /\ faults < MaxFaults /\ faults \in 0..MaxFaults
      BY <1>10 DEF FinishLost, Throws, Fault, TypeOK
    <3> QED BY <2>0, <3>1, <3>2, <3>3
  <2>3. TypeOK' /\ OneOwner'
    BY <2>1, <2>2 DEF Goto, stripeVars, handlerVars, rowVars, TypeOK, OneOwner
  <2>4. HandlerOK(h)'
    BY <2>0, <2>1 DEF Goto, stripeVars, handlerVars, rowVars, TypeOK, HandlerOK
  <2>5. ASSUME NEW g \in Handlers, g # h PROVE HandlerOK(g)'
    BY <2>1, <2>5, HandlerFrame DEF Goto, stripeVars, handlerVars, rowVars, TypeOK
  <2> QED BY <2>3, <2>4, <2>5
<1>11. CASE UNCHANGED vars
  BY <1>11 DEF vars, stripeVars, handlerVars, rowVars, TypeOK, HandlerOK, OneOwner,
               Hint, CustomerIn
<1> QED
  BY <1>1, <1>2, <1>2a, <1>3, <1>4, <1>5, <1>6, <1>7, <1>8, <1>9, <1>10, <1>11
  DEF Next, Deliver, Progress, Failure

\* Every reachable state has its types: the variables of the handlers, of
\* stripe_events and of subscriptions hold what the code can put there.
THEOREM TypeCorrect == Spec => []TypeOK
<1>1. HInv => TypeOK
  BY DEF HInv
<1> QED BY <1>1, HInvInit, HInvStep, PTL DEF Spec

LEMMA Invariant == Spec => []HInv
BY HInvInit, HInvStep, PTL DEF Spec

\* What a write of apply_stripe_subscription does: nothing when it is stale.
LEMMA ApplyEffect ==
  ASSUME HInv, NEW h \in Handlers, NEW ok \in BOOLEAN, Apply(h, ok)
  PROVE  /\ step[h] = "apply" /\ user[h] \in Users /\ handling[h] \in 1..Len(events)
         /\ events[handling[h]] \in Events
         /\ customer[user[h]] = CustomerIn(handling[h]) /\ customer' = customer
         /\ \/ /\ appliedAt[user[h]] > events[handling[h]].at
               /\ UNCHANGED <<status, appliedAt>>
            \/ /\ appliedAt[user[h]] <= events[handling[h]].at
               /\ status' = [status EXCEPT ![user[h]] = state[h]]
               /\ appliedAt' = [appliedAt EXCEPT ![user[h]] = events[handling[h]].at]
<1> DEFINE u == user[h]
           e == handling[h]
<1>1. /\ step[h] = "apply" /\ e \in 1..Len(events) /\ events[e] \in Events
      /\ u \in Users /\ customer[u] = CustomerIn(e)
  BY ClaimedEvent DEF Apply, HInv, HandlerOK
<1>2. appliedAt[u] \in Nat /\ events[e].at \in Nat
  BY <1>1 DEF HInv, TypeOK
<1>3. CASE IsStale(u, events[e].at)
  BY <1>1, <1>3 DEF Apply, IsStale, rowVars
<1>4. CASE ~IsStale(u, events[e].at)
  <2>1. /\ customer' = [customer EXCEPT ![u] = CustomerIn(e)]
        /\ status' = [status EXCEPT ![u] = state[h]]
        /\ appliedAt' = [appliedAt EXCEPT ![u] = events[e].at]
    BY <1>4 DEF Apply
  <2>2. customer' = customer
    BY <1>1, <2>1 DEF HInv, TypeOK
  <2>3. appliedAt[u] <= events[e].at
    BY <1>2, <1>4 DEF IsStale
  <2> QED BY <1>1, <2>1, <2>2, <2>3
<1> QED BY <1>3, <1>4

\* What a link does to the rows: nothing, or a first customer that is nobody else's.
LEMMA LinkEffect ==
  ASSUME HInv, NEW h \in Handlers, Link(h)
  PROVE  \/ UNCHANGED rowVars
         \/ \E u \in Users, c \in Customers :
              /\ customer[u] = NoCustomer
              /\ \A v \in Users : customer[v] # c
              /\ customer' = [customer EXCEPT ![u] = c]
              /\ UNCHANGED <<status, appliedAt>>
<1> DEFINE u == Hint(handling[h])
           c == CustomerIn(handling[h])
<1>1. step[h] = "link" /\ u \in Users /\ c \in Customers
  BY ClaimedEvent DEF Link, HInv, HandlerOK
<1>2. CASE Coalesce(u, c) = c /\ \E v \in Users \ {u} : customer[v] = c
  BY <1>2 DEF Link, rowVars
<1>3. CASE ~(Coalesce(u, c) = c /\ \E v \in Users \ {u} : customer[v] = c)
  <2>1. customer' = [customer EXCEPT ![u] = Coalesce(u, c)] /\ UNCHANGED <<status, appliedAt>>
    BY <1>3 DEF Link
  <2>2. CASE customer[u] = NoCustomer
    <3>1. \A v \in Users : customer[v] # c
      BY <1>1, <1>3, <2>2 DEF Coalesce
    <3> QED BY <1>1, <2>1, <2>2, <3>1 DEF Coalesce
  <2>3. CASE customer[u] # NoCustomer
    BY <1>1, <2>1, <2>3 DEF Coalesce, HInv, TypeOK, rowVars
  <2> QED BY <2>2, <2>3
<1> QED BY <1>2, <1>3

\* Only a link and a write change the rows.
LEMMA RowsChange ==
  ASSUME HInv, [Next]_vars
  PROVE  \/ UNCHANGED rowVars
         \/ \E h \in Handlers : Link(h) \/ \E ok \in BOOLEAN : Apply(h, ok)
<1>1. CASE StripeStep
  BY <1>1, StripeStepEffect DEF StripeEffect, HInv
<1>2. CASE \E e \in EventIds : Deliver(e) \/ ClaimLost(e)
  BY <1>2 DEF Deliver, Duplicate, Claim, ClaimLost
<1>3. ASSUME NEW h \in Handlers, Progress(h) \/ Failure(h)
      PROVE  \/ UNCHANGED rowVars
             \/ Link(h) \/ \E ok \in BOOLEAN : Apply(h, ok)
  BY <1>3 DEF Progress, Failure, Find, Check, Hydrate, Finish, Release, FinishLost,
              Throws, ReleaseFails, Dies
<1>4. CASE UNCHANGED vars
  BY <1>4 DEF vars
<1> QED BY <1>1, <1>2, <1>3, <1>4 DEF Next

\* A row does not go back in time and keeps its customer.
Forward(u) ==
  /\ appliedAt'[u] >= appliedAt[u]
  /\ customer[u] # NoCustomer => customer'[u] = customer[u]

LEMMA RowStep ==
  ASSUME HInv, [Next]_vars, NEW u \in Users
  PROVE  Forward(u)
<1>0. appliedAt \in [Users -> Nat] /\ customer \in [Users -> Customers \cup {NoCustomer}]
  BY DEF HInv, TypeOK
<1>1. CASE UNCHANGED rowVars
  BY <1>0, <1>1 DEF rowVars, Forward
<1>2. ASSUME NEW h \in Handlers, Link(h) PROVE Forward(u)
  <2>1. CASE UNCHANGED rowVars
    BY <1>0, <2>1 DEF rowVars, Forward
  <2>2. ASSUME NEW v \in Users, NEW c \in Customers, customer[v] = NoCustomer,
               customer' = [customer EXCEPT ![v] = c], UNCHANGED <<status, appliedAt>>
        PROVE  Forward(u)
    BY <1>0, <2>2 DEF Forward
  <2> QED BY <1>2, <2>1, <2>2, LinkEffect
<1>3. ASSUME NEW h \in Handlers, NEW ok \in BOOLEAN, Apply(h, ok) PROVE Forward(u)
  <2> DEFINE at == events[handling[h]].at
  <2>1. at \in Nat /\ user[h] \in Users /\ customer' = customer
    BY <1>3, ApplyEffect
  <2>2. \/ appliedAt' = appliedAt
        \/ appliedAt[user[h]] <= at /\ appliedAt' = [appliedAt EXCEPT ![user[h]] = at]
    BY <1>3, ApplyEffect
  <2>3. appliedAt'[u] >= appliedAt[u]
    BY <1>0, <2>1, <2>2
  <2> QED BY <2>1, <2>3 DEF Forward
<1> QED BY <1>1, <1>2, <1>3, RowsChange

\* The guard of apply_stripe_subscription: whatever is late, duplicated or
\* retried, the time of a row never goes back.
THEOREM RowsNeverGoBack == Spec => NeverBackwards
<1>1. HInv /\ [Next]_vars => [\A u \in Users : appliedAt'[u] >= appliedAt[u]]_vars
  BY RowStep DEF Forward
<1> QED BY <1>1, Invariant, PTL DEF Spec, NeverBackwards

\* linkStripeCustomer refuses to move a customer id, however the handlers of
\* two customers interleave, and apply_stripe_subscription writes it back.
THEOREM CustomersNeverMove == Spec => CustomerNeverMoves
<1>1. HInv /\ [Next]_vars =>
        [\A u \in Users : customer[u] # NoCustomer => customer'[u] = customer[u]]_vars
  BY RowStep DEF Forward
<1> QED BY <1>1, Invariant, PTL DEF Spec, CustomerNeverMoves

\* The table implements SubscriptionMirror: every step of a handler or of
\* Stripe links a free customer, moves one row forward, or leaves the rows.
THEOREM MirrorKept == Spec => KeepsMirror
<1>1. Init => Mirror!Init
  BY DEF Init, Mirror!Init
<1>2. ASSUME HInv, [Next]_vars PROVE [Mirror!Next]_(Mirror!mirror)
  <2>0. appliedAt \in [Users -> Nat] /\ customer \in [Users -> Customers \cup {NoCustomer}]
    BY <1>2 DEF HInv, TypeOK
  <2>1. CASE UNCHANGED rowVars
    BY <2>1 DEF rowVars, Mirror!mirror
  <2>2. ASSUME NEW h \in Handlers, Link(h) PROVE [Mirror!Next]_(Mirror!mirror)
    <3>1. CASE UNCHANGED rowVars
      BY <3>1 DEF rowVars, Mirror!mirror
    <3>2. ASSUME NEW u \in Users, NEW c \in Customers, customer[u] = NoCustomer,
                 \A v \in Users : customer[v] # c,
                 customer' = [customer EXCEPT ![u] = c], UNCHANGED <<status, appliedAt>>
          PROVE  Mirror!Next
      BY <3>2 DEF Mirror!Next, Mirror!Link
    <3> QED BY <1>2, <2>2, <3>1, <3>2, LinkEffect
  <2>3. ASSUME NEW h \in Handlers, NEW ok \in BOOLEAN, Apply(h, ok)
        PROVE  [Mirror!Next]_(Mirror!mirror)
    <3>1. /\ user[h] \in Users /\ events[handling[h]] \in Events /\ customer' = customer
          /\ customer[user[h]] = CustomerIn(handling[h]) /\ CustomerIn(handling[h]) \in Customers
      BY <1>2, <2>3, ApplyEffect, ClaimedEvent
    <3>2. CASE UNCHANGED <<status, appliedAt>>
      BY <3>1, <3>2 DEF Mirror!mirror
    <3>3. CASE /\ appliedAt[user[h]] <= events[handling[h]].at
               /\ appliedAt' = [appliedAt EXCEPT ![user[h]] = events[handling[h]].at]
      BY <2>0, <3>1, <3>3 DEF Mirror!Next, Mirror!Write
    <3> QED BY <1>2, <2>3, <3>2, <3>3, ApplyEffect
  <2> QED BY <1>2, <2>1, <2>2, <2>3, RowsChange
<1> QED BY <1>1, <1>2, Invariant, PTL DEF Spec, KeepsMirror, Mirror!Spec

------------------------------------------------------------------------------
(* Acknowledged events.                                                      *)

\* A claim without an outcome is some handler's.
Claims ==
  /\ \A e \in EventIds : claim[e] = "claimed" => \E h \in Handlers : handling[h] = e
  /\ \A e \in EventIds : acked[e] => claim[e] \in Outcomes
  /\ \A h \in Handlers : step[h] = "idle" => handling[h] = NoEvent

LEMMA ClaimsStep ==
  ASSUME Faults \cap {"claim", "release", "crash", "overlap"} = {}, HInv, Claims, [Next]_vars
  PROVE  Claims'
<1> USE DEF Claims
<1>0. /\ handling \in [Handlers -> {NoEvent} \cup EventIds] /\ result \in [Handlers -> Outcomes]
      /\ claim \in [EventIds -> {"free", "claimed"} \cup Outcomes] /\ acked \in [EventIds -> BOOLEAN]
  BY DEF HInv, TypeOK
<1>a. step \in [Handlers -> Steps] /\ \A h \in Handlers : \A next : Goto(h, next) => step' = [step EXCEPT ![h] = next]
  BY DEF HInv, TypeOK, Goto
<1>1. ASSUME UNCHANGED <<claim, acked, handling>>,
             \A h \in Handlers : step'[h] = "idle" => step[h] = "idle"
      PROVE  Claims'
  BY <1>1
<1>2. ASSUME NEW e \in EventIds, Duplicate(e) PROVE Claims'
  <2>1. /\ claim[e] \in Outcomes
        /\ UNCHANGED <<claim, handling, step>> /\ acked' = [acked EXCEPT ![e] = TRUE]
    BY <1>0, <1>2 DEF Duplicate, Deliverable, handlerVars
  <2> QED BY <1>0, <2>1
<1>3. ASSUME NEW e \in EventIds, NEW h \in Handlers, Claim(h, e) PROVE Claims'
  <2>1. /\ claim' = [claim EXCEPT ![e] = "claimed"] /\ claim[e] = "free" /\ acked' = acked
        /\ handling' = [handling EXCEPT ![h] = e] /\ step[h] = "idle"
    BY <1>3 DEF Claim
  <2>2. /\ ~ acked[e]
        /\ \A g \in Handlers : step'[g] = "idle" => g # h /\ step[g] = "idle"
    BY <1>a, <1>3, <2>1 DEF Claim
  <2>3. ASSUME NEW d \in EventIds, d # e, claim[d] = "claimed", NEW g \in Handlers, handling[g] = d
        PROVE  \E k \in Handlers : handling'[k] = d
    <3>1. CASE g # h
      BY <1>0, <2>1, <2>3, <3>1
    <3>2. CASE g = h
      BY <1>0, <2>1, <2>3, <3>2
    <3> QED BY <3>1, <3>2
  <2> QED BY <1>0, <2>1, <2>2, <2>3
<1>4. ASSUME NEW h \in Handlers, NEW outcome, outcome # "claimed", step[h] # "idle",
             claim' = [claim EXCEPT ![handling[h]] = outcome], Forget(h),
             claim[handling[h]] \in Outcomes => outcome \in Outcomes,
             \/ UNCHANGED acked
             \/ outcome \in Outcomes /\ acked' = [acked EXCEPT ![handling[h]] = TRUE]
      PROVE  Claims'
  <2>1. /\ handling[h] \in EventIds /\ handling' = [handling EXCEPT ![h] = NoEvent]
        /\ step' = [step EXCEPT ![h] = "idle"]
    BY <1>4, ClaimedEvent DEF Forget, Goto
  <2> QED BY <1>0, <1>a, <1>4, <2>1
<1>5. ASSUME NEW h \in Handlers, Finish(h) PROVE Claims'
  <2>1. result[h] \in Outcomes /\ "claimed" \notin Outcomes
    BY <1>0
  <2> QED BY <1>4, <1>5, <2>1 DEF Finish
<1>6. ASSUME NEW h \in Handlers, Release(h) PROVE Claims'
  <2>1. /\ Released(handling[h]) # "claimed"
        /\ claim[handling[h]] \in Outcomes => Released(handling[h]) \in Outcomes
    BY DEF Released
  <2> QED BY <1>4, <1>6, <2>1 DEF Release
<1>7. ASSUME NEW h \in Handlers, FinishLost(h) PROVE Claims'
  <2>1. /\ claim' = [claim EXCEPT ![handling[h]] = result[h]] /\ UNCHANGED <<handling, acked>>
        /\ result[h] \in Outcomes /\ step' = [step EXCEPT ![h] = "release"]
    BY <1>0, <1>7 DEF FinishLost, handlerVars, Goto
  <2> QED BY <1>0, <1>a, <2>1
<1>8. ASSUME NEW h \in Handlers,
             \/ Find(h) \/ Check(h) \/ Link(h) \/ Hydrate(h) \/ Throws(h)
             \/ \E ok \in BOOLEAN : Apply(h, ok)
      PROVE  Claims'
  <2>1. UNCHANGED <<claim, acked, handling>>
    BY <1>8 DEF Find, Check, Link, Hydrate, Throws, Apply, handlerVars
  <2>2. \E next \in Steps \ {"idle"} : step' = [step EXCEPT ![h] = next]
    BY <1>8 DEF Find, Check, Link, Hydrate, Throws, Apply, Resolved, Unknown, Finishes, Goto
  <2> QED BY <1>1, <1>a, <2>1, <2>2
<1>9. /\ \A h \in Handlers : ~ ReleaseFails(h) /\ ~ Dies(h)
      /\ \A e \in EventIds : ~ ClaimLost(e)
  BY DEF ReleaseFails, Dies, ClaimLost, Fault
<1>10. CASE StripeStep
  <2>1. StripeEffect
    BY <1>10, StripeStepEffect DEF HInv
  <2> QED BY <1>1, <2>1 DEF StripeEffect, handlerVars
<1>11. CASE UNCHANGED vars
  BY <1>1, <1>11 DEF vars, handlerVars
<1> QED
  BY <1>2, <1>3, <1>5, <1>6, <1>7, <1>8, <1>9, <1>10, <1>11
     DEF Next, Progress, Failure, Deliver

\* While no claim loses its reply, releases succeed, no process dies and no
\* delivery overtakes the answer of an earlier one, an event that was answered
\* 200 was processed, for any number of handlers, events and queries that fail
\* inside the handler's try.  Take away any one of the four, and the code breaks it.
THEOREM AckedWasProcessed ==
  ASSUME Faults \cap {"claim", "release", "crash", "overlap"} = {}
  PROVE  Spec => []AckedIsProcessed
<1>1. Init => Claims
  BY DEF Init, Claims
<1>2. HInv /\ Claims /\ [Next]_vars => Claims'
  BY ClaimsStep
<1>3. Claims => AckedIsProcessed
  BY DEF Claims, AckedIsProcessed
<1> QED BY <1>1, <1>2, <1>3, Invariant, PTL DEF Spec

\* An event is handled once at a time, and answered 200 at the end only.
OneDelivery ==
  /\ \A e \in EventIds : acked[e] => claim[e] # "free"
  /\ \A h \in Handlers : step[h] # "idle" => ~ acked[handling[h]]
  /\ \A h \in Handlers : step[h] = "idle" => handling[h] = NoEvent
  /\ \A g, h \in Handlers : handling[g] = handling[h] /\ g # h => handling[h] = NoEvent

LEMMA OneDeliveryStep ==
  ASSUME "overlap" \notin Faults, HInv, OneDelivery, [Next]_vars
  PROVE  OneDelivery'
<1> USE DEF OneDelivery
<1>0. /\ handling \in [Handlers -> {NoEvent} \cup EventIds] /\ result \in [Handlers -> Outcomes]
      /\ claim \in [EventIds -> {"free", "claimed"} \cup Outcomes] /\ acked \in [EventIds -> BOOLEAN]
      /\ step \in [Handlers -> Steps]
  BY DEF HInv, TypeOK
<1>a. \A h \in Handlers : \A next : Goto(h, next) => step' = [step EXCEPT ![h] = next]
  BY DEF Goto
<1>1. ASSUME UNCHANGED <<acked, handling>>,
             \A e \in EventIds : claim'[e] = claim[e] \/ claim'[e] # "free",
             \A h \in Handlers : step'[h] = "idle" <=> step[h] = "idle"
      PROVE  OneDelivery'
  BY <1>1
<1>2. ASSUME NEW e \in EventIds, Duplicate(e) PROVE OneDelivery'
  <2>1. /\ claim[e] # "free" /\ \A h \in Handlers : handling[h] # e
        /\ UNCHANGED <<claim, handling, step>> /\ acked' = [acked EXCEPT ![e] = TRUE]
    BY <1>2 DEF Duplicate, Deliverable, handlerVars
  <2> QED BY <1>0, <2>1
<1>3. ASSUME NEW e \in EventIds, ClaimLost(e) PROVE OneDelivery'
  <2>1. claim' = [claim EXCEPT ![e] = "claimed"] /\ UNCHANGED <<acked, handling, step>>
    BY <1>3 DEF ClaimLost, handlerVars
  <2> QED BY <1>0, <1>1, <2>1
<1>4. ASSUME NEW e \in EventIds, NEW h \in Handlers, Claim(h, e) PROVE OneDelivery'
  <2>1. /\ claim' = [claim EXCEPT ![e] = "claimed"] /\ acked' = acked /\ ~ acked[e]
        /\ handling' = [handling EXCEPT ![h] = e]
        /\ \A g \in Handlers : handling[g] # e
    BY <1>4 DEF Claim, Deliverable
  <2>2. \A g \in Handlers : g # h => step'[g] = step[g]
    BY <1>0, <1>4 DEF Claim, Goto
  <2>3. step'[h] # "idle"
    BY <1>0, <1>4 DEF Claim, Goto
  <2> QED BY <1>0, <2>1, <2>2, <2>3
\* A handler that lets its event go, having answered it 200 or not.
<1>5. ASSUME NEW h \in Handlers, step[h] # "idle", Forget(h),
             NEW outcome, claim' = [claim EXCEPT ![handling[h]] = outcome],
             \/ UNCHANGED acked
             \/ outcome # "free" /\ acked' = [acked EXCEPT ![handling[h]] = TRUE]
      PROVE  OneDelivery'
  <2>1. /\ handling[h] \in EventIds /\ handling' = [handling EXCEPT ![h] = NoEvent]
        /\ step' = [step EXCEPT ![h] = "idle"]
    BY <1>5, ClaimedEvent DEF Forget, Goto
  <2>2. ~ acked[handling[h]]
    BY <1>5
  <2>3. ASSUME NEW g \in Handlers, g # h, step[g] # "idle" PROVE handling[g] # handling[h] /\ handling[g] \in EventIds
    <3>1. handling[g] \in EventIds /\ handling[g] # NoEvent
      BY <2>3, ClaimedEvent
    <3> QED BY <2>1, <2>3, <3>1
  <2>4. \A e \in EventIds : acked'[e] => claim'[e] # "free"
    BY <1>0, <1>5, <2>1, <2>2
  <2>5. \A g \in Handlers : step'[g] # "idle" => ~ acked'[handling'[g]]
    BY <1>0, <1>5, <2>1, <2>3
  <2> QED BY <1>0, <2>1, <2>4, <2>5
<1>6. ASSUME NEW h \in Handlers, Finish(h) \/ Release(h) PROVE OneDelivery'
  <2>1. result[h] # "free"
    BY <1>0
  <2> QED BY <1>5, <1>6, <2>1 DEF Finish, Release
<1>7. ASSUME NEW h \in Handlers, ReleaseFails(h) \/ Dies(h) PROVE OneDelivery'
  <2>1. step[h] # "idle" /\ Forget(h) /\ UNCHANGED <<claim, acked>>
    BY <1>7 DEF ReleaseFails, Dies
  <2>2. claim' = [claim EXCEPT ![handling[h]] = claim[handling[h]]]
    BY <1>0, <2>1
  <2> QED BY <1>5, <2>1, <2>2
<1>8. ASSUME NEW h \in Handlers, FinishLost(h) PROVE OneDelivery'
  <2>1. /\ claim' = [claim EXCEPT ![handling[h]] = result[h]] /\ UNCHANGED <<handling, acked>>
        /\ step[h] = "finish" /\ step' = [step EXCEPT ![h] = "release"] /\ result[h] # "free"
    BY <1>0, <1>8 DEF FinishLost, handlerVars, Goto
  <2>2. handling[h] \in EventIds
    BY <2>1, ClaimedEvent
  <2> QED BY <1>0, <1>1, <2>1, <2>2
<1>9. ASSUME NEW h \in Handlers,
             \/ Find(h) \/ Check(h) \/ Link(h) \/ Hydrate(h) \/ Throws(h)
             \/ \E ok \in BOOLEAN : Apply(h, ok)
      PROVE  OneDelivery'
  <2>1. UNCHANGED <<claim, acked, handling>> /\ step[h] # "idle"
    BY <1>9 DEF Find, Check, Link, Hydrate, Throws, Apply, handlerVars
  <2>2. \E next \in Steps \ {"idle"} : step' = [step EXCEPT ![h] = next]
    BY <1>9 DEF Find, Check, Link, Hydrate, Throws, Apply, Resolved, Unknown, Finishes, Goto
  <2> QED BY <1>0, <1>1, <2>1, <2>2
<1>10. CASE StripeStep
  <2>1. StripeEffect
    BY <1>10, StripeStepEffect DEF HInv
  <2> QED BY <1>1, <2>1 DEF StripeEffect, handlerVars
<1>11. CASE UNCHANGED vars
  BY <1>1, <1>11 DEF vars, handlerVars
<1> QED
  BY <1>2, <1>3, <1>4, <1>6, <1>7, <1>8, <1>9, <1>10, <1>11
     DEF Next, Progress, Failure, Deliver

\* Through lost claims, failed releases, crashes and any failed query, an event
\* Stripe will not send again has a row in stripe_events: what was lost is there
\* to be found, for any number of handlers and events.
THEOREM LostEventsAreOnRecord == Spec => []LostIsOnRecord
<1> DEFINE OnRecord == "overlap" \notin Faults => OneDelivery
<1>1. Init => OnRecord
  BY DEF Init, OneDelivery
<1>2. HInv /\ OnRecord /\ [Next]_vars => OnRecord'
  BY OneDeliveryStep
<1>3. OnRecord => LostIsOnRecord
  BY DEF OneDelivery, LostIsOnRecord
<1> HIDE DEF OnRecord
<1> QED BY <1>1, <1>2, <1>3, Invariant, PTL DEF Spec

------------------------------------------------------------------------------
(* Convergence.  Seconds tell changes apart, a customer has one subscription, *)
(* and checkout has linked every customer, as it does before it opens the    *)
(* session.                                                                  *)

Assumed ==
  /\ SameSecond = FALSE
  /\ \A s, t \in Subs : CustomerOf[s] = CustomerOf[t] => s = t
  /\ \A s \in Subs : \E u \in Users : Linked[u] = CustomerOf[s]

SubOf(e) == events[e].sub

\* The row has seen the second of event e.
Covered(e) ==
  \A u \in Users : customer[u] = CustomerIn(e) => appliedAt[u] >= events[e].at

Mapped == \A s \in Subs : \E u \in Users : customer[u] = CustomerOf[s]

\* Nothing carries a time Stripe's clock has not reached.
Clocked ==
  /\ clock >= 1
  /\ \A e \in 1..Len(events) : events[e].at >= 1 /\ events[e].at <= clock
  /\ \A s \in Subs : changedAt[s] <= clock
  /\ \A u \in Users : appliedAt[u] <= clock

\* The last change of a subscription is in an event that is acted on, and what
\* carries its time or a later one carries its state: the event, ...
Announced(s) ==
  stripe[s] # NoStatus =>
    \E e \in 1..Len(events) : SubOf(e) = s /\ events[e].at = changedAt[s] /\ ~Ignored(e)

Current(e) ==
  events[e].at >= changedAt[SubOf(e)] => events[e].status = stripe[SubOf(e)]

\* ... the handler about to write, ...
Carries(h) ==
  LET e == handling[h] IN
  /\ step[h] \notin {"check", "link"}
  /\ step[h] = "apply" /\ events[e].at >= changedAt[SubOf(e)] => state[h] = stripe[SubOf(e)]
  /\ step[h] = "finish" => IF result[h] = "ignored" THEN Ignored(e) ELSE Covered(e)

\* ... and the row.
RowCurrent(u) ==
  \A s \in Subs :
    customer[u] = CustomerOf[s] /\ appliedAt[u] # 0 /\ appliedAt[u] >= changedAt[s]
      => status[u] = stripe[s]

\* What a recorded outcome means.
Recorded(e) ==
  claim[e] \in Outcomes =>
    e <= Len(events) /\ IF claim[e] = "ignored" THEN Ignored(e) ELSE Covered(e)

CInv ==
  /\ Mapped
  /\ Clocked
  /\ \A s \in Subs : Announced(s)
  /\ \A e \in 1..Len(events) : Current(e)
  /\ \A h \in Handlers : Carries(h)
  /\ \A u \in Users : RowCurrent(u)
  /\ \A e \in EventIds : Recorded(e)

LEMMA CInvInit == Assumed /\ Init => CInv
BY DEF Assumed, Init, CInv, Mapped, Clocked, Announced, Current, Carries, RowCurrent,
       Recorded

\* A change falls into a second of its own, which its event carries.
LEMMA ChangeKeepsCInv ==
  ASSUME Assumed, HInv, CInv, NEW s \in Subs, NEW now \in Statuses,
         NEW kind \in Kinds \ {"unpaid"}, Change(s, now, kind)
  PROVE  CInv'
<1> DEFINE n == Len(events')
<1>1. StripeEffect
  BY ChangeEffect DEF HInv
<1>2. /\ clock' = clock + 1 /\ clock \in Nat
      /\ stripe' = [stripe EXCEPT ![s] = now]
      /\ changedAt' = [changedAt EXCEPT ![s] = clock + 1]
      /\ Emit(kind, s, now, clock + 1)
  BY DEF Change, Assumed, HInv, TypeOK
<1>3. /\ n = Len(events) + 1
      /\ events'[n] = [kind |-> kind, sub |-> s, status |-> now, at |-> clock + 1]
  BY <1>2, EmitAppends DEF HInv
<1>4. /\ UNCHANGED <<acked, claim, step, handling, user, state, result, customer, status, appliedAt>>
      /\ \A e \in 1..Len(events) : events'[e] = events[e]
      /\ Len(events) \in Nat
  BY <1>1 DEF StripeEffect, handlerVars, rowVars, HInv, TypeOK
<1>5. /\ stripe \in [Subs -> Statuses \cup {NoStatus}] /\ changedAt \in [Subs -> Nat]
      /\ appliedAt \in [Users -> Nat]
      /\ \A e \in 1..Len(events) : events[e] \in Events
  BY ElementOfSeq DEF HInv, TypeOK
<1>6. Mapped'
  BY <1>4 DEF CInv, Mapped
<1>13. /\ n \in 1..n /\ events'[n].at = clock + 1 /\ events'[n].sub = s
       /\ events'[n].status = now /\ events'[n].kind # "unpaid"
       /\ \A e \in 1..n : e # n => e \in 1..Len(events)
  BY <1>3, <1>4
<1>7. Clocked'
  <2>1. clock' >= 1 /\ \A t \in Subs : changedAt'[t] <= clock'
    BY <1>2, <1>5 DEF CInv, Clocked
  <2>2. \A u \in Users : appliedAt'[u] <= clock'
    BY <1>2, <1>4, <1>5 DEF CInv, Clocked
  <2>3. ASSUME NEW e \in 1..n PROVE events'[e].at >= 1 /\ events'[e].at <= clock'
    <3>1. CASE e = n
      BY <1>2, <1>13, <3>1
    <3>2. CASE e # n
      <4>1. e \in 1..Len(events) /\ events'[e] = events[e] /\ events[e].at \in Nat
        BY <1>4, <1>5, <1>13, <3>2
      <4>2. events[e].at >= 1 /\ events[e].at <= clock
        BY <4>1 DEF CInv, Clocked
      <4> QED BY <1>2, <4>1, <4>2
    <3> QED BY <3>1, <3>2
  <2> QED BY <2>1, <2>2, <2>3 DEF Clocked
<1>8. ASSUME NEW t \in Subs PROVE Announced(t)'
  <2>1. CASE t = s
    <3>1. changedAt'[t] = clock + 1
      BY <1>2, <1>5, <2>1
    <3> QED BY <1>13, <2>1, <3>1 DEF Announced, SubOf, Ignored
  <2>2. CASE t # s
    BY <1>2, <1>3, <1>4, <1>5, <2>2 DEF CInv, Announced, SubOf, Ignored
  <2> QED BY <2>1, <2>2
<1>9. ASSUME NEW e \in 1..n PROVE Current(e)'
  <2>1. CASE e = n
    BY <1>2, <1>3, <1>5, <2>1 DEF Current, SubOf
  <2>2. CASE e # n
    <3>1. e \in 1..Len(events) /\ events'[e] = events[e] /\ events[e] \in Events
      BY <1>4, <1>5, <1>13, <2>2
    <3>2. events[e].at <= clock /\ Current(e)
      BY <3>1 DEF CInv, Clocked
    <3>3. CASE events[e].sub = s
      BY <1>2, <1>5, <3>1, <3>2, <3>3 DEF Current, SubOf
    <3>4. CASE events[e].sub # s
      BY <1>2, <1>5, <3>1, <3>2, <3>4 DEF Current, SubOf
    <3> QED BY <3>3, <3>4
  <2> QED BY <2>1, <2>2
<1>10. ASSUME NEW h \in Handlers PROVE Carries(h)'
  <2>1. CASE step[h] = "idle"
    BY <1>4, <2>1 DEF CInv, Carries
  <2>2. CASE step[h] # "idle"
    <3>1. handling[h] \in 1..Len(events) /\ events[handling[h]] \in Events
      BY <2>2, ClaimedEvent
    <3>2. Carries(h) /\ events[handling[h]].at <= clock /\ changedAt[s] <= clock
      BY <3>1 DEF CInv, Clocked
    <3> QED BY <1>2, <1>4, <1>5, <3>1, <3>2 DEF Carries, SubOf, Ignored, Covered, CustomerIn
  <2> QED BY <2>1, <2>2
<1>11. ASSUME NEW u \in Users PROVE RowCurrent(u)'
  BY <1>2, <1>4, <1>5 DEF CInv, Clocked, RowCurrent
<1>12. ASSUME NEW e \in EventIds PROVE Recorded(e)'
  BY <1>3, <1>4 DEF CInv, Recorded, Ignored, Covered, CustomerIn
<1> QED BY <1>6, <1>7, <1>8, <1>9, <1>10, <1>11, <1>12 DEF CInv

\* A signal carries the state of its second.
LEMMA SignalKeepsCInv ==
  ASSUME HInv, CInv, NEW s \in Subs, Signal(s)
  PROVE  CInv'
<1> DEFINE n == Len(events')
<1>1. stripe[s] \in Statuses /\ clock \in Nat
  BY DEF Signal, HInv, TypeOK
<1>2. PICK kind \in Kinds : Emit(kind, s, stripe[s], clock)
  BY DEF Signal
<1>3. /\ n = Len(events) + 1
      /\ events'[n] = [kind |-> kind, sub |-> s, status |-> stripe[s], at |-> clock]
      /\ \A e \in 1..Len(events) : events'[e] = events[e]
  BY <1>1, <1>2, EmitAppends DEF HInv
<1>4. /\ UNCHANGED <<stripe, changedAt, clock, claim, step, handling, state, result,
                     customer, status, appliedAt>>
      /\ Len(events) \in Nat
  BY <1>2 DEF Signal, Emit, handlerVars, rowVars, HInv, TypeOK
<1>6. Mapped'
  BY <1>4 DEF CInv, Mapped
<1>7. Clocked'
  BY <1>1, <1>3, <1>4 DEF CInv, Clocked
<1>8. ASSUME NEW t \in Subs PROVE Announced(t)'
  BY <1>3, <1>4 DEF CInv, Announced, SubOf, Ignored
<1>9. ASSUME NEW e \in 1..n PROVE Current(e)'
  <2>1. CASE e = n
    BY <1>3, <1>4, <2>1 DEF Current, SubOf
  <2>2. CASE e # n
    BY <1>3, <1>4, <2>2 DEF CInv, Current, SubOf
  <2> QED BY <2>1, <2>2
<1>10. ASSUME NEW h \in Handlers PROVE Carries(h)'
  <2>1. CASE step[h] = "idle"
    BY <1>4, <2>1 DEF CInv, Carries
  <2>2. CASE step[h] # "idle"
    <3>1. handling[h] \in 1..Len(events) /\ Carries(h)
      BY <2>2, ClaimedEvent DEF CInv
    <3> QED BY <1>3, <1>4, <3>1 DEF Carries, SubOf, Ignored, Covered, CustomerIn
  <2> QED BY <2>1, <2>2
<1>11. ASSUME NEW u \in Users PROVE RowCurrent(u)'
  BY <1>4 DEF CInv, RowCurrent
<1>12. ASSUME NEW e \in EventIds PROVE Recorded(e)'
  BY <1>3, <1>4 DEF CInv, Recorded, Ignored, Covered, CustomerIn
<1> QED BY <1>6, <1>7, <1>8, <1>9, <1>10, <1>11, <1>12 DEF CInv

\* While Stripe stands still and rows only move forward ...
Steady ==
  /\ UNCHANGED <<stripeVars, customer>>
  /\ appliedAt' \in [Users -> Nat]
  /\ \A u \in Users : appliedAt'[u] >= appliedAt[u] /\ appliedAt'[u] <= clock

\* ... what is true of the events and of the times stays true, ...
LEMMA SteadyKeeps ==
  ASSUME HInv, CInv, Steady
  PROVE  /\ Mapped' /\ Clocked'
         /\ \A s \in Subs : Announced(s)'
         /\ \A e \in 1..Len(events') : Current(e)'
<1>1. Mapped'
  BY DEF Steady, CInv, Mapped
<1>2. Clocked'
  BY DEF Steady, CInv, Clocked, stripeVars
<1>3. \A s \in Subs : Announced(s)'
  BY DEF Steady, CInv, Announced, SubOf, Ignored, stripeVars
<1>4. \A e \in 1..Len(events') : Current(e)'
  BY DEF Steady, CInv, Current, SubOf, stripeVars
<1> QED BY <1>1, <1>2, <1>3, <1>4

LEMMA CoveredStays ==
  ASSUME HInv, Steady, NEW e \in 1..Len(events), Covered(e)
  PROVE  Covered(e)'
<1>1. events[e] \in Events
  BY ElementOfSeq DEF HInv, TypeOK
<1>2. appliedAt \in [Users -> Nat] /\ events[e].at \in Nat
  BY <1>1 DEF HInv, TypeOK
<1> QED BY <1>2 DEF Steady, Covered, CustomerIn, stripeVars

\* ... so are the handlers that do not move, ...
LEMMA CarriesStays ==
  ASSUME HInv, CInv, Steady, NEW g \in Handlers,
         UNCHANGED <<step[g], handling[g], state[g], result[g]>>
  PROVE  Carries(g)'
<1>1. Carries(g) /\ events' = events /\ stripe' = stripe /\ changedAt' = changedAt
  BY DEF CInv, Steady, stripeVars
<1>2. CASE step[g] = "idle"
  BY <1>2 DEF Carries
<1>3. CASE step[g] # "idle"
  <2>1. handling[g] \in 1..Len(events)
    BY <1>3, ClaimedEvent
  <2> QED BY <1>1, <2>1, CoveredStays DEF Carries, SubOf, Ignored
<1> QED BY <1>2, <1>3

\* ... and what has been recorded.
LEMMA RecordedStays ==
  ASSUME HInv, CInv, Steady, NEW e \in EventIds, claim'[e] = claim[e]
  PROVE  Recorded(e)'
<1>1. Recorded(e) /\ events' = events
  BY DEF CInv, Steady, stripeVars
<1>2. CASE claim[e] \in Outcomes
  <2>1. e \in 1..Len(events)
    BY <1>1, <1>2 DEF Recorded, HInv, TypeOK
  <2> QED BY <1>1, <2>1, CoveredStays DEF Recorded, Ignored
<1>3. CASE claim[e] \notin Outcomes
  BY <1>3 DEF Recorded
<1> QED BY <1>2, <1>3

LEMMA RowsStay ==
  ASSUME HInv, CInv, UNCHANGED <<stripeVars, rowVars>>
  PROVE  Steady /\ \A u \in Users : RowCurrent(u)'
<1>1. appliedAt \in [Users -> Nat]
  BY DEF HInv, TypeOK
<1>2. Steady
  BY <1>1 DEF CInv, Clocked, Steady, rowVars
<1> QED BY <1>2 DEF CInv, RowCurrent, stripeVars, rowVars

LEMMA CInvStep == Assumed /\ HInv /\ CInv /\ [Next]_vars => CInv'
<1> SUFFICES ASSUME Assumed, HInv, CInv, [Next]_vars PROVE CInv'
  OBVIOUS
<1>1. CASE StripeStep
  <2> SUFFICES ASSUME NEW s \in Subs, Subscribe(s) \/ Update(s) \/ End(s) \/ Signal(s)
               PROVE  CInv'
    BY <1>1 DEF StripeStep
  <2>1. CASE Subscribe(s)
    BY <2>1, ChangeKeepsCInv DEF Subscribe
  <2>2. CASE Update(s)
    BY <2>2, ChangeKeepsCInv DEF Update
  <2>3. CASE End(s)
    BY <2>3, ChangeKeepsCInv DEF End
  <2>4. CASE Signal(s)
    BY <2>4, SignalKeepsCInv
  <2> QED BY <2>1, <2>2, <2>3, <2>4
\* A step of a handler that leaves rows and claims alone.
<1>2. ASSUME UNCHANGED <<stripeVars, rowVars, claim>>,
             \A h \in Handlers : Carries(h)'
      PROVE  CInv'
  <2>1. Steady /\ \A u \in Users : RowCurrent(u)'
    BY <1>2, RowsStay
  <2>2. \A e \in EventIds : Recorded(e)'
    BY <1>2, <2>1, RecordedStays
  <2> QED BY <1>2, <2>1, <2>2, SteadyKeeps DEF CInv
<1>3. ASSUME NEW e \in EventIds, Duplicate(e) PROVE CInv'
  <2>1. UNCHANGED <<stripeVars, rowVars, claim, step, handling, state, result>>
    BY <1>3 DEF Duplicate, handlerVars
  <2>2. \A h \in Handlers : Carries(h)'
    BY <2>1, RowsStay, CarriesStays
  <2> QED BY <1>2, <2>1, <2>2
<1>3a. ASSUME NEW e \in EventIds, ClaimLost(e) PROVE CInv'
  <2>1. UNCHANGED <<stripeVars, rowVars, step, handling, state, result>>
    BY <1>3a DEF ClaimLost, handlerVars
  <2>2. Steady /\ \A u \in Users : RowCurrent(u)'
    BY <2>1, RowsStay
  <2>3. \A h \in Handlers : Carries(h)'
    BY <2>1, <2>2, CarriesStays
  <2>4. ASSUME NEW f \in EventIds PROVE Recorded(f)'
    <3>1. CASE f = e
      BY <1>3a, <3>1 DEF ClaimLost, Recorded, HInv, TypeOK
    <3>2. CASE f # e
      BY <1>3a, <2>2, <3>2, RecordedStays DEF ClaimLost, HInv, TypeOK
    <3> QED BY <3>1, <3>2
  <2> QED BY <2>2, <2>3, <2>4, SteadyKeeps DEF CInv
<1>4. ASSUME NEW e \in EventIds, NEW h \in Handlers, Claim(h, e) PROVE CInv'
  <2>1. UNCHANGED <<stripeVars, rowVars, state>>
    BY <1>4 DEF Claim
  <2>2. Steady /\ \A u \in Users : RowCurrent(u)'
    BY <2>1, RowsStay
  <2>3. Carries(h)'
    BY <1>4 DEF Claim, Goto, Carries, Ignored, stripeVars, HInv, TypeOK
  <2>4. ASSUME NEW g \in Handlers, g # h PROVE Carries(g)'
    BY <1>4, <2>2, <2>4, CarriesStays DEF Claim, Goto, HInv, TypeOK
  <2>5. ASSUME NEW f \in EventIds PROVE Recorded(f)'
    <3>1. CASE f = e
      BY <1>4, <3>1 DEF Claim, Recorded, HInv, TypeOK
    <3>2. CASE f # e
      BY <1>4, <2>2, <3>2, RecordedStays DEF Claim, HInv, TypeOK
    <3> QED BY <3>1, <3>2
  <2> QED BY <2>2, <2>3, <2>4, <2>5, SteadyKeeps DEF CInv
<1>5. ASSUME NEW h \in Handlers, Find(h) PROVE CInv'
  <2> DEFINE e == handling[h]
  <2>0. /\ e \in 1..Len(events) /\ events[e] \in Events /\ events[e].sub \in Subs
        /\ step[h] = "find"
    BY <1>5, ClaimedEvent DEF Find
  <2>1. UNCHANGED <<stripeVars, rowVars, claim, handling>>
    BY <1>5 DEF Find
  <2>2. PICK u \in Users : Resolved(h, u)
    BY <1>5, <2>0 DEF Find, CInv, Mapped, CustomerIn
  <2>3. Carries(h)'
    <3>1. /\ user' = [user EXCEPT ![h] = u]
          /\ state' = [state EXCEPT ![h] = IF IsComplete(e) THEN events[e].status ELSE NoStatus]
          /\ step' = [step EXCEPT ![h] = IF IsComplete(e) THEN "apply" ELSE "hydrate"]
          /\ UNCHANGED result
      BY <2>2 DEF Resolved, Goto
    <3>2. /\ step'[h] = IF IsComplete(e) THEN "apply" ELSE "hydrate"
          /\ state'[h] = IF IsComplete(e) THEN events[e].status ELSE NoStatus
          /\ handling'[h] = e /\ UNCHANGED <<stripe, changedAt, events>>
      BY <2>1, <3>1 DEF stripeVars, HInv, TypeOK
    <3>3. SubOf(e)' = SubOf(e) /\ (handling[h])' = e
      BY <3>2 DEF SubOf
    <3>4. IsComplete(e) /\ events[e].at >= changedAt[SubOf(e)] =>
            events[e].status = stripe[SubOf(e)]
      BY <2>0 DEF CInv, Current, SubOf, IsComplete
    <3> QED BY <3>2, <3>3, <3>4 DEF Carries
  <2>4. ASSUME NEW g \in Handlers, g # h PROVE Carries(g)'
    BY <2>1, <2>2, <2>4, RowsStay, CarriesStays DEF Resolved, Goto, HInv, TypeOK
  <2> QED BY <1>2, <2>1, <2>3, <2>4
<1>6. ASSUME NEW h \in Handlers, Check(h) \/ Link(h) PROVE CInv'
  BY <1>6 DEF Check, Link, CInv, Carries
<1>7. ASSUME NEW h \in Handlers, Hydrate(h) PROVE CInv'
  <2>1. UNCHANGED <<stripeVars, rowVars, claim, handling, result>>
    BY <1>7 DEF Hydrate
  <2>2. Carries(h)'
    BY <1>7, <2>1 DEF Hydrate, Goto, Carries, SubOf, stripeVars, HInv, TypeOK
  <2>3. ASSUME NEW g \in Handlers, g # h PROVE Carries(g)'
    BY <1>7, <2>1, <2>3, RowsStay, CarriesStays DEF Hydrate, Goto, HInv, TypeOK
  <2> QED BY <1>2, <2>1, <2>2, <2>3
<1>8. ASSUME NEW h \in Handlers, NEW ok \in BOOLEAN, Apply(h, ok) PROVE CInv'
  <2> DEFINE e == handling[h]
             u == user[h]
  <2>0. /\ step[h] = "apply" /\ u \in Users /\ e \in 1..Len(events)
        /\ events[e] \in Events /\ events[e].at \in Nat /\ SubOf(e) \in Subs
        /\ customer[u] = CustomerIn(e) /\ customer' = customer
        /\ appliedAt \in [Users -> Nat] /\ status \in [Users -> Statuses \cup {NoStatus}]
    BY <1>8, ApplyEffect DEF SubOf, HInv, TypeOK
  <2>1. /\ UNCHANGED <<stripeVars, claim, handling, state>>
        /\ \/ step' = [step EXCEPT ![h] = "release"]
           \/ /\ step' = [step EXCEPT ![h] = "finish"]
              /\ result' \in {[result EXCEPT ![h] = "applied"], [result EXCEPT ![h] = "stale"]}
        /\ \A g \in Handlers \ {h} : step'[g] = step[g] /\ result'[g] = result[g]
    <3>1. CASE ok
      BY <1>8, <3>1 DEF Apply, Finishes, Goto, HInv, TypeOK
    <3>2. CASE ~ok
      BY <1>8, <3>2 DEF Apply, Fault, Goto, HInv, TypeOK
    <3> QED BY <3>1, <3>2
  <2>2. events[e].at <= clock
    BY <2>0 DEF CInv, Clocked
  <2>3. /\ appliedAt' \in [Users -> Nat]
        /\ \A v \in Users : appliedAt'[v] >= appliedAt[v] /\ appliedAt'[v] <= clock
        /\ appliedAt'[u] >= events[e].at
    <3>1. \A v \in Users : appliedAt[v] <= clock
      BY DEF CInv, Clocked
    <3>2. CASE appliedAt[u] > events[e].at /\ UNCHANGED <<status, appliedAt>>
      BY <2>0, <3>1, <3>2
    <3>3. CASE /\ appliedAt[u] <= events[e].at
               /\ appliedAt' = [appliedAt EXCEPT ![u] = events[e].at]
      BY <2>0, <2>2, <3>1, <3>3
    <3> QED BY <1>8, <3>2, <3>3, ApplyEffect
  <2>4. Steady
    BY <2>0, <2>1, <2>3 DEF Steady
  <2>5. Covered(e)'
    <3>1. \A v \in Users : customer[v] = CustomerIn(e) => v = u
      <4>1. CustomerIn(e) # NoCustomer
        BY <1>8, <2>0, ClaimedEvent
      <4> QED BY <2>0, <4>1 DEF HInv, OneOwner
    <3> QED BY <2>0, <2>1, <2>3, <3>1 DEF Covered, CustomerIn, stripeVars
  <2>6. Carries(h)'
    BY <2>0, <2>1, <2>5 DEF Carries, Covered, CustomerIn, stripeVars, HInv, TypeOK
  <2>7. ASSUME NEW g \in Handlers, g # h PROVE Carries(g)'
    BY <2>1, <2>4, <2>7, CarriesStays
  <2>8. ASSUME NEW f \in EventIds PROVE Recorded(f)'
    BY <2>1, <2>4, RecordedStays
  <2>9. ASSUME NEW v \in Users PROVE RowCurrent(v)'
    <3>0. RowCurrent(v) /\ stripe' = stripe /\ changedAt' = changedAt
      BY <2>1 DEF CInv, stripeVars
    <3>1. CASE UNCHANGED <<status, appliedAt>>
      BY <2>0, <3>0, <3>1 DEF RowCurrent
    <3>2. CASE /\ status' = [status EXCEPT ![u] = state[h]]
               /\ appliedAt' = [appliedAt EXCEPT ![u] = events[e].at]
      <4>1. CASE v # u
        BY <2>0, <3>0, <3>2, <4>1 DEF RowCurrent
      <4>2. CASE v = u
        <5>1. \A s \in Subs : customer[u] = CustomerOf[s] => s = SubOf(e)
          BY <2>0 DEF Assumed, CustomerIn, SubOf
        <5>2. events[e].at >= changedAt[SubOf(e)] => state[h] = stripe[SubOf(e)]
          BY <2>0 DEF CInv, Carries
        <5> QED BY <2>0, <3>0, <3>2, <4>2, <5>1, <5>2 DEF RowCurrent
      <4> QED BY <4>1, <4>2
    <3> QED BY <1>8, <3>1, <3>2, ApplyEffect
  <2> QED BY <2>4, <2>6, <2>7, <2>8, <2>9, SteadyKeeps DEF CInv
<1>9. ASSUME NEW h \in Handlers, Finish(h) \/ FinishLost(h) PROVE CInv'
  <2>0. step[h] = "finish" /\ handling[h] \in 1..Len(events) /\ handling[h] \in EventIds
    BY <1>9, ClaimedEvent DEF Finish, FinishLost
  <2>1. UNCHANGED <<stripeVars, rowVars>>
    BY <1>9 DEF Finish, FinishLost
  <2>2. Steady /\ \A u \in Users : RowCurrent(u)'
    BY <2>1, RowsStay
  <2>3. Carries(h)'
    BY <1>9, <2>0 DEF Finish, FinishLost, Forget, Goto, Carries, HInv, TypeOK
  <2>4. ASSUME NEW g \in Handlers, g # h PROVE Carries(g)'
    BY <1>9, <2>2, <2>4, CarriesStays DEF Finish, FinishLost, Forget, Goto, handlerVars, HInv, TypeOK
  <2>5. ASSUME NEW f \in EventIds PROVE Recorded(f)'
    <3>1. claim' = [claim EXCEPT ![handling[h]] = result[h]]
      BY <1>9 DEF Finish, FinishLost
    <3>2. CASE f = handling[h]
      <4>1. claim'[f] = result[h] /\ events' = events
        BY <2>0, <2>1, <3>1, <3>2 DEF stripeVars, HInv, TypeOK
      <4>2. IF result[h] = "ignored" THEN Ignored(f) ELSE Covered(f)
        BY <2>0, <3>2 DEF CInv, Carries
      <4>3. f <= Len(events)
        BY <2>0, <3>2
      <4> QED BY <2>0, <2>2, <3>2, <4>1, <4>2, <4>3, CoveredStays DEF Recorded, Ignored
    <3>3. CASE f # handling[h]
      BY <2>2, <3>1, <3>3, RecordedStays DEF HInv, TypeOK
    <3> QED BY <3>2, <3>3
  <2> QED BY <2>2, <2>3, <2>4, <2>5, SteadyKeeps DEF CInv
<1>10. ASSUME NEW h \in Handlers,
              Throws(h) \/ Release(h) \/ ReleaseFails(h) \/ Dies(h)
       PROVE  CInv'
  <2>0. handling[h] \in EventIds
    BY <1>10, ClaimedEvent DEF Throws, Release, ReleaseFails, Dies
  <2>1. UNCHANGED <<stripeVars, rowVars>>
    BY <1>10 DEF Throws, Release, ReleaseFails, Dies
  <2>2. Steady /\ \A u \in Users : RowCurrent(u)'
    BY <2>1, RowsStay
  <2>3. /\ step'[h] \in {"idle", "release"}
        /\ \A g \in Handlers \ {h} : /\ step'[g] = step[g] /\ handling'[g] = handling[g]
                                     /\ state'[g] = state[g] /\ result'[g] = result[g]
    BY <1>10 DEF Throws, Release, ReleaseFails, Dies, Forget, Goto, handlerVars, HInv, TypeOK
  <2>4. ASSUME NEW g \in Handlers PROVE Carries(g)'
    <3>1. CASE g = h
      BY <2>3, <3>1 DEF Carries
    <3>2. CASE g # h
      BY <2>2, <2>3, <3>2, CarriesStays
    <3> QED BY <3>1, <3>2
  <2>5. ASSUME NEW f \in EventIds PROVE Recorded(f)'
    <3>1. claim'[f] = claim[f] \/ claim'[f] = "free"
      BY <1>10, <2>0 DEF Throws, Release, ReleaseFails, Dies, Released, HInv, TypeOK
    <3>2. CASE claim'[f] = claim[f]
      BY <2>2, <3>2, RecordedStays
    <3>3. CASE claim'[f] = "free"
      BY <3>3 DEF Recorded
    <3> QED BY <3>1, <3>2, <3>3
  <2> QED BY <2>2, <2>4, <2>5, SteadyKeeps DEF CInv
<1>11. CASE UNCHANGED vars
  <2>1. /\ UNCHANGED <<stripeVars, rowVars, claim>>
        /\ UNCHANGED <<step, handling, state, result>>
    BY <1>11 DEF vars, handlerVars
  <2>2. \A h \in Handlers : Carries(h)'
    BY <2>1, RowsStay, CarriesStays
  <2> QED BY <1>2, <2>1, <2>2
<1> QED
  BY <1>1, <1>3, <1>3a, <1>4, <1>5, <1>6, <1>7, <1>8, <1>9, <1>10, <1>11
  DEF Next, Deliver, Progress, Failure

LEMMA CInvConverged == HInv /\ CInv => Converged
<1> SUFFICES ASSUME HInv, CInv, NEW s \in Subs, NEW u \in Users, stripe[s] # NoStatus,
                    Processed(s), customer[u] = CustomerOf[s]
             PROVE  status[u] = stripe[s]
  BY DEF Converged
<1>1. PICK e \in 1..Len(events) :
        SubOf(e) = s /\ events[e].at = changedAt[s] /\ ~Ignored(e)
  BY DEF CInv, Announced
<1>2. claim[e] \in Outcomes /\ e \in EventIds
  BY <1>1 DEF Processed, SubOf, HInv, TypeOK
<1>3. Covered(e)
  BY <1>1, <1>2 DEF CInv, Recorded
<1>4. appliedAt[u] >= changedAt[s]
  BY <1>1, <1>3 DEF Covered, CustomerIn, SubOf
<1>5. changedAt[s] >= 1
  BY <1>1 DEF CInv, Clocked
<1>6. appliedAt[u] # 0
  BY <1>4, <1>5 DEF HInv, TypeOK
<1> QED BY <1>4, <1>6 DEF CInv, RowCurrent

\* However Stripe's events are reordered, duplicated and retried, over any
\* number of handlers that fail and die anywhere: once all events of a
\* subscription are processed, the row of its user says what Stripe says.
\* It takes distinct seconds, one subscription a customer, and linked customers.
THEOREM RowsConverge == ASSUME Assumed PROVE Spec => []Converged
<1>1. Init => CInv
  BY CInvInit
<1>2. HInv /\ CInv /\ [Next]_vars => CInv'
  BY CInvStep
<1>3. HInv /\ CInv => Converged
  BY CInvConverged
<1> QED BY <1>1, <1>2, <1>3, Invariant, PTL DEF Spec
=============================================================================
