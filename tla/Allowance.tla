------------------------------ MODULE Allowance ------------------------------
(***************************************************************************)
(* What the allowance promises a user, apart from queues, workers and      *)
(* counters: a submission is admitted only while fewer scans than the      *)
(* plan's limit are charged to the account, and an admitted scan ends      *)
(* charged with a report delivered, or refunded with none, for good.       *)
(***************************************************************************)
EXTENDS Integers, FiniteSets

CONSTANTS
  Jobs,       \* scans that may be admitted
  Accounts,   \* a user in a billing period
  Limits,     \* the limits plans grant
  NoAccount   \* of a scan not admitted yet

VARIABLES
  outcome,    \* what has become of each scan
  account     \* what each scan was charged to

vars == <<outcome, account>>

Charged(a) == {j \in Jobs : account[j] = a /\ outcome[j] # "refunded"}

Init ==
  /\ outcome = [j \in Jobs |-> "none"]
  /\ account = [j \in Jobs |-> NoAccount]

\* The limit is checked against the scans charged, not against a counter.
Admit(j, a, limit) ==
  /\ outcome[j] = "none"
  /\ Cardinality(Charged(a)) < limit
  /\ outcome' = [outcome EXCEPT ![j] = "pending"]
  /\ account' = [account EXCEPT ![j] = a]

Deliver(j) ==
  /\ outcome[j] = "pending"
  /\ outcome' = [outcome EXCEPT ![j] = "delivered"]
  /\ UNCHANGED account

\* Several scans may be given up at once.
Refund(js) ==
  /\ \A j \in js : outcome[j] = "pending"
  /\ outcome' = [j \in Jobs |-> IF j \in js THEN "refunded" ELSE outcome[j]]
  /\ UNCHANGED account

Next ==
  \/ \E j \in Jobs, a \in Accounts, limit \in Limits : Admit(j, a, limit)
  \/ \E j \in Jobs : Deliver(j)
  \/ \E js \in SUBSET Jobs : Refund(js)

Spec == Init /\ [][Next]_vars
==============================================================================
