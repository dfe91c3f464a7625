----------------------------- MODULE OrderLifecycle -----------------------------
(***************************************************************************)
(* What the Order Service promises about an order, without its requests:   *)
(* the status moves along the transition table only, and an event is       *)
(* announced at most once, while the order has the status it tells of.     *)
(***************************************************************************)
EXTENDS OrderStatusRules

CONSTANT Orders

VARIABLES status, announced

\* The status an announced event tells of.
StatusOf(event) ==
  CASE event = "order.created"   -> "CONFIRMED"
    [] event = "order.cancelled" -> "CANCELLED"
    [] event = "order.delivered" -> "DELIVERED"

Init ==
  /\ status = [o \in Orders |-> "NONE"]
  /\ announced = {}

Place(o) ==
  /\ status[o] = "NONE"
  /\ status' = [status EXCEPT ![o] = "PENDING"]
  /\ UNCHANGED announced

Move(o, target) ==
  /\ IsValidStatusTransition(status[o], target)
  /\ status' = [status EXCEPT ![o] = target]
  /\ UNCHANGED announced

Announce(event, o) ==
  /\ status[o] = StatusOf(event)
  /\ <<event, o>> \notin announced
  /\ announced' = announced \cup {<<event, o>>}
  /\ UNCHANGED status

Next ==
  \E o \in Orders :
    \/ Place(o)
    \/ \E target \in Statuses : Move(o, target)
    \/ \E event \in {"order.created", "order.cancelled", "order.delivered"} : Announce(event, o)

Spec == Init /\ [][Next]_<<status, announced>>
===============================================================================
