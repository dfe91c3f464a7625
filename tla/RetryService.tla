------------------------------ MODULE RetryService ------------------------------
(***************************************************************************)
(* executeWithRetry of both services: one operation is attempted again and *)
(* again until an attempt succeeds, an attempt fails with an error that is *)
(* not in the list of retryable ones, or the retries are used up.  Any     *)
(* number of operations are at it at once.  The wait before an attempt and *)
(* the attempt are one step; how long the waits are is at the end.         *)
(***************************************************************************)
EXTENDS Naturals

CONSTANTS
  Operations,   \* the calls of executeWithRetry
  MaxRetries,   \* how often a call repeats its operation
  MaxErrors     \* bound: how many errors are met in all

ASSUME RetriesAssumption == MaxRetries \in Nat /\ MaxErrors \in Nat

VARIABLES
  try,      \* how each call stands and how many attempts of it have failed
  errors    \* the errors met so far

retryVars == <<try, errors>>

Try == [state : {"trying", "done", "refused", "exhausted", "lost"}, attempt : 0..MaxRetries]

RetryInit ==
  /\ try = [o \in Operations |-> [state |-> "trying", attempt |-> 0]]
  /\ errors = 0

AnError == errors < MaxErrors /\ errors' = errors + 1

Ends(o, state) == try' = [try EXCEPT ![o].state = state]

AttemptSucceeds(o) ==
  /\ try[o].state = "trying"
  /\ Ends(o, "done")
  /\ UNCHANGED errors

\* The error is retried, was one too many, or is not of a kind to be retried.
AttemptFails(o) ==
  /\ try[o].state = "trying"
  /\ AnError
  /\ \/ try' = [try EXCEPT ![o].attempt = @ + 1] /\ try[o].attempt < MaxRetries
     \/ Ends(o, "exhausted") /\ try[o].attempt = MaxRetries
     \/ Ends(o, "refused")

\* The process stops and with it the calls that are not over.
CallsAreLost(started) ==
  try' = [o \in Operations |->
            IF o \in started /\ try[o].state = "trying" THEN [try[o] EXCEPT !.state = "lost"]
                                                        ELSE try[o]]

-------------------------------------------------------------------------------
(* The waits, in milliseconds *)

\* The factor between two waits is times \div over.
Policy(retries, base, max, times, over) ==
  [retries |-> retries, base |-> base, max |-> max, times |-> times, over |-> over]

\* mergeOptions for each operationType: the options of the type over the defaults.
OrderPolicies == {
  Policy(5, 500, 10000, 3, 2),     \* database
  Policy(3, 1000, 15000, 2, 1),    \* rabbitmq
  Policy(3, 2000, 20000, 2, 1),    \* http
  Policy(3, 1000, 30000, 2, 1) }   \* default

\* The Inventory Service passes no options.
InventoryPolicy == Policy(3, 1000, 30000, 2, 1)

\* Math.random() in thousandths.
Draws == {0, 1, 250, 500, 999}

Smaller(a, b) == IF a < b THEN a ELSE b

\* baseDelay * backoffMultiplier ^ attempt, times over ^ attempt to stay whole.
Grown(policy, attempt) == policy.base * policy.times ^ attempt

\* Mutant of OrderDelay: the jitter is as long as the wait itself.
OrderDelayFullJitter(policy, attempt, draw) ==
  LET scale == policy.over ^ attempt
      capped == Smaller(Grown(policy, attempt), policy.max * scale)
  IN (capped * (1000 + draw)) \div (1000 * scale)

\* The Order Service caps the wait and adds the jitter then.
OrderDelay(policy, attempt, draw) ==
  LET scale == policy.over ^ attempt
      capped == Smaller(Grown(policy, attempt), policy.max * scale)
  IN (capped * (10000 + draw)) \div (10000 * scale)

\* The Inventory Service adds the jitter and caps the wait then.
InventoryDelay(policy, attempt, draw) ==
  Smaller((Grown(policy, attempt) * (10000 + draw)) \div 10000, policy.max)

-------------------------------------------------------------------------------
\* The later retry waits longer whatever the two jitters are, and no wait
\* reaches the cap, which the jitter added behind it would exceed.
OrderBacksOff(policy, draws) ==
  \A attempt \in 0..policy.retries - 1, draw, other \in draws :
    /\ OrderDelay(policy, attempt, draw) <= policy.max
    /\ attempt > 0 => OrderDelay(policy, attempt - 1, other) < OrderDelay(policy, attempt, draw)

InventoryBacksOff(policy, draws) ==
  \A attempt \in 0..policy.retries - 1, draw, other \in draws :
    /\ InventoryDelay(policy, attempt, draw) <= policy.max
    /\ attempt > 0 => InventoryDelay(policy, attempt - 1, other) < InventoryDelay(policy, attempt, draw)

PoliciesBackOff(draws) ==
  /\ \A policy \in OrderPolicies : OrderBacksOff(policy, draws)
  /\ InventoryBacksOff(InventoryPolicy, draws)

\* Without a parameter TLC evaluates it once.
WaitsGrow == PoliciesBackOff(Draws)

\* Retries are bounded and thin out the herd: no call repeats its operation
\* more than MaxRetries times, and each wait is longer than the one before in
\* every policy the services ship (retry.service.ts:67-113, 158-172 of the
\* Order Service, 61-69 of the Inventory Service).
RetriesBackOff ==
  /\ \A o \in Operations : try[o].attempt <= MaxRetries
  /\ WaitsGrow
===============================================================================
