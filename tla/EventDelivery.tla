----------------------------- MODULE EventDelivery -----------------------------
(***************************************************************************)
(* What a publish method promises its caller about the two queues an event *)
(* and its notification go to.  A publish is open until it resolves (sent) *)
(* or is rejected or cut off by a restart (failed).                        *)
(***************************************************************************)
EXTENDS Naturals

CONSTANTS
  Calls,
  MaxCopies   \* how often a message may at most be put on its queue

VARIABLES
  outcome,    \* of each publish: open, sent or failed
  events,     \* copies of its event on the other service's queue
  notices     \* copies of its notification on notification_queue

deliveryVars == <<outcome, events, notices>>

DeliveryInit ==
  /\ outcome = [c \in Calls |-> "open"]
  /\ events = [c \in Calls |-> 0]
  /\ notices = [c \in Calls |-> 0]

PutEvent(c) ==
  /\ outcome[c] = "open"
  /\ notices[c] = 0
  /\ events[c] < MaxCopies
  /\ events' = [events EXCEPT ![c] = @ + 1]
  /\ outcome' \in {outcome, [outcome EXCEPT ![c] = "failed"]}
  /\ UNCHANGED notices

\* Nobody is notified of an event that is not on its way, and the publish
\* that resolves has done both.
PutNotice(c) ==
  /\ outcome[c] = "open"
  /\ events[c] > 0
  /\ notices[c] < MaxCopies
  /\ notices' = [notices EXCEPT ![c] = @ + 1]
  /\ \E end \in {"open", "sent", "failed"} : outcome' = [outcome EXCEPT ![c] = end]
  /\ UNCHANGED events

\* An error ends one publish, a restart any number of them.
GiveUp(cut) ==
  /\ \A c \in cut : outcome[c] = "open"
  /\ outcome' = [c \in Calls |-> IF c \in cut THEN "failed" ELSE outcome[c]]
  /\ UNCHANGED <<events, notices>>

DeliveryNext ==
  \/ \E c \in Calls : PutEvent(c) \/ PutNotice(c)
  \/ \E cut \in SUBSET Calls : GiveUp(cut)

DeliverySpec == DeliveryInit /\ [][DeliveryNext]_deliveryVars
===============================================================================
