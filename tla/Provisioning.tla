------------------------------ MODULE Provisioning ------------------------------
(***************************************************************************)
(* scripts/stripe/provision.ts: one run after another brings an account to *)
(* one product, one price under the lookup key, one webhook endpoint and   *)
(* the default portal configuration.  A run looks for each thing before it *)
(* creates it, refuses what is ambiguous and deletes nothing.  It may end  *)
(* at any call, before Stripe acts or after; the signing secret of an      *)
(* endpoint is known only to the run that created it.                      *)
(***************************************************************************)
EXTENDS Naturals, FiniteSets

CONSTANTS
  Products, Prices, Endpoints,   \* ids Stripe may give; what is there by hand has one too
  NoId,
  MaxScriptRuns                  \* bound: how often the script is started

\* An id of Stripe says by its prefix what it is of.
ASSUME ProvisioningAssumption ==
  /\ NoId \notin Products \cup Prices
  /\ Products \cap Prices = {} /\ Products \cap Endpoints = {} /\ Prices \cap Endpoints = {}
  /\ MaxScriptRuns \in Nat

VARIABLES
  product,    \* [state, tag, current]: tag is the application in its metadata
  price,      \* [state, of, terms, lookup]: whether its terms are the contract's
  endpoint,   \* for the one URL: which of the required events it has
  portal,     \* the default configuration
  secret,     \* where the signing secret is: lost, in a run's memory, saved
  made,       \* ids the script created
  script,     \* how far the run is
  chosen,     \* [product, price] of the run
  runs

accountVars == <<product, price, endpoint, portal>>
scriptVars == <<accountVars, secret, made, script, chosen, runs>>

NoProduct == [state |-> "none", tag |-> "none", current |-> FALSE]
NoPrice == [state |-> "none", of |-> NoId, terms |-> FALSE, lookup |-> FALSE]
Contract == [state |-> "active", tag |-> "ours", current |-> TRUE]
Nothing == [product |-> NoId, price |-> NoId]

\* What an account may hold before the first run, made by hand in the
\* dashboard: a product, a price of it, an endpoint, a portal configuration.
ProvisioningStart(already) ==
  /\ \E p \in Products, q \in Prices, tag \in {"none", "other"}, terms, lookup \in BOOLEAN :
       \E some \in {"nothing", "product", "price"} :
         /\ product = [o \in Products |->
              IF o = p /\ some # "nothing" THEN [Contract EXCEPT !.tag = tag, !.current = FALSE]
              ELSE NoProduct]
         /\ price = [o \in Prices |->
              IF o = q /\ some = "price"
              THEN [state |-> "active", of |-> p, terms |-> terms, lookup |-> lookup] ELSE NoPrice]
  /\ \E e \in Endpoints : endpoint \in {[o \in Endpoints |-> IF o = e THEN has ELSE "none"] :
                                          has \in {"none", "some events"}}
  /\ portal \in {"none", "drifted"}
  /\ secret = "lost" /\ made = {} /\ script = "off" /\ chosen = Nothing
  /\ runs = already

ProvisioningInit == ProvisioningStart(0)

ScriptGoto(next) == script' = next
Refuse == ScriptGoto("refused") /\ UNCHANGED <<accountVars, secret, made, chosen>>

\* The reply of a write may be lost, and the run with it.
Wrote(next) == ScriptGoto(next) \/ ScriptGoto("failed")

------------------------------------------------------------------------------
(* ensureProductAndPrice.                                                    *)

BeginScript ==
  /\ script \in {"off", "done", "refused", "failed"} /\ runs < MaxScriptRuns
  /\ runs' = runs + 1
  /\ chosen' = Nothing
  /\ secret' = IF secret = "in memory" THEN "lost" ELSE secret
  /\ ScriptGoto("lookup")
  /\ UNCHANGED <<accountVars, made>>

\* The list has archived prices as well.
Holders == {q \in Prices : price[q].lookup}
Matches(q) == price[q].state = "active" /\ price[q].terms

LookUpPrice ==
  /\ script = "lookup"
  /\ IF Holders = {} THEN ScriptGoto("product") /\ UNCHANGED <<accountVars, secret, made, chosen>>
     ELSE \E q \in Holders :
       LET p == price[q].of IN
       IF Matches(q) /\ product[p].state = "active" /\ product[p].tag # "other"
       THEN /\ product' = [product EXCEPT ![p] = Contract]
            /\ chosen' = [product |-> p, price |-> q]
            /\ Wrote("webhook")
            /\ UNCHANGED <<price, endpoint, portal, secret, made>>
       ELSE Refuse
  /\ UNCHANGED runs

\* isOurProduct, of the active ones.
OursByName(p) == product[p].state = "active" /\ product[p].current  \* mutated form
Ours(p) == product[p].state = "active" /\ product[p].tag = "ours"

EnsureProduct ==
  /\ script = "product"
  /\ LET found == {p \in Products : Ours(p)} IN
     IF Cardinality(found) > 1 THEN Refuse
     ELSE /\ \E p \in Products :
               /\ IF found = {} THEN product[p].state = "none" /\ made' = made \cup {p}
                  ELSE p \in found /\ UNCHANGED made
               /\ product' = [product EXCEPT ![p] = Contract]
               /\ chosen' = [chosen EXCEPT !.product = p]
          /\ Wrote("price")
          /\ UNCHANGED <<price, endpoint, portal, secret>>
  /\ UNCHANGED runs

\* A price with the right terms that never had the lookup key is adopted.
EnsurePrice ==
  /\ script = "price"
  /\ LET found == {q \in Prices : Matches(q) /\ price[q].of = chosen.product} IN
     IF Cardinality(found) > 1 THEN Refuse
     ELSE /\ \E q \in Prices :
               /\ IF found = {} THEN price[q].state = "none" /\ made' = made \cup {q}
                  ELSE q \in found /\ UNCHANGED made
               /\ price' = [o \in Prices |->
                    IF o = q THEN [state |-> "active", of |-> chosen.product,
                                   terms |-> TRUE, lookup |-> TRUE]
                    ELSE [price[o] EXCEPT !.lookup = FALSE]]
               /\ chosen' = [chosen EXCEPT !.price = q]
          /\ Wrote("webhook")
          /\ UNCHANGED <<product, endpoint, portal, secret>>
  /\ UNCHANGED runs

------------------------------------------------------------------------------
(* ensureWebhook, ensurePortal, and the environment file of setup.ts.        *)

EnsureWebhook ==
  /\ script = "webhook"
  /\ LET found == {e \in Endpoints : endpoint[e] # "none"} IN
     IF Cardinality(found) > 1 THEN Refuse
     ELSE \E e \in Endpoints :
       /\ IF found = {}
          THEN /\ made' = made \cup {e}
               /\ \/ secret' = "in memory" /\ ScriptGoto("portal")
                  \/ secret' = "lost" /\ ScriptGoto("failed")
          ELSE e \in found /\ UNCHANGED <<made, secret>> /\ Wrote("portal")
       /\ endpoint' = [endpoint EXCEPT ![e] = "all events"]
       /\ UNCHANGED <<product, price, portal, chosen>>
  /\ UNCHANGED runs

\* A configuration that is created need not become the default.
EnsurePortal ==
  /\ script = "portal"
  /\ \/ portal' = "as wanted"
     \/ portal = "none" /\ UNCHANGED portal
  /\ Wrote("environment")
  /\ UNCHANGED <<product, price, endpoint, secret, made, chosen, runs>>

WriteEnvironment ==
  /\ script = "environment"
  /\ secret' = IF secret = "in memory" THEN "saved" ELSE secret
  /\ ScriptGoto("done")
  /\ UNCHANGED <<accountVars, made, chosen, runs>>

\* Any call may fail before Stripe acts, and the process may be stopped.
ScriptFails ==
  /\ script \in {"lookup", "product", "price", "webhook", "portal", "environment"}
  /\ ScriptGoto("failed")
  /\ UNCHANGED <<accountVars, secret, made, chosen, runs>>

\* The operator at the dashboard, before another run: archives what the script
\* complains of, renames a product, takes an event off an endpoint, changes
\* the portal.
Operator ==
  /\ script \in {"off", "done", "refused", "failed"} /\ runs < MaxScriptRuns
  /\ \/ \E p \in Products :
          /\ product[p].state = "active"
          /\ \E after \in {[product[p] EXCEPT !.state = "archived"],
                           [product[p] EXCEPT !.current = FALSE]} :
               product' = [product EXCEPT ![p] = after]
          /\ UNCHANGED <<price, endpoint, portal>>
     \/ \E q \in Prices :
          /\ price[q].state = "active"
          /\ price' = [price EXCEPT ![q].state = "archived"]
          /\ UNCHANGED <<product, endpoint, portal>>
     \/ \E e \in Endpoints :
          /\ endpoint[e] = "all events"
          /\ endpoint' = [endpoint EXCEPT ![e] = "some events"]
          /\ UNCHANGED <<product, price, portal>>
     \/ portal' = "drifted" /\ UNCHANGED <<product, price, endpoint>>
  /\ ScriptGoto("off")
  /\ UNCHANGED <<secret, made, chosen, runs>>

ProvisioningNext ==
  \/ BeginScript \/ LookUpPrice \/ EnsureProduct \/ EnsurePrice
  \/ EnsureWebhook \/ EnsurePortal \/ WriteEnvironment \/ ScriptFails \/ Operator

ProvisioningSpec == ProvisioningInit /\ [][ProvisioningNext]_scriptVars

------------------------------------------------------------------------------
(* Properties.                                                               *)

\* "Safe to rerun": however often runs were cut short, and whatever the
\* operator archived, renamed or edited in between (what is archived stays so:
\* unarchiving may bring an old product back beside its successor), the script has made at most one active
\* product, price and endpoint; and a run that ends well leaves customers
\* one price to be charged by: the contract's, on a product of ours, alone
\* under the lookup key.
RerunsMakeOneOfEach ==
  /\ \A p1, p2 \in made \cap {p \in Products : product[p].state = "active"} : p1 = p2
  /\ \A q1, q2 \in made \cap {q \in Prices : price[q].state = "active"} : q1 = q2
  /\ \A e1, e2 \in made \cap Endpoints : e1 = e2
  /\ script = "done" =>
       /\ Holders = {chosen.price}
       /\ Matches(chosen.price) /\ price[chosen.price].of = chosen.product
       /\ Ours(chosen.product)
       /\ {e \in Endpoints : endpoint[e] # "none"} # {}
=============================================================================
