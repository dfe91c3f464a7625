--------------------------- MODULE OrderStatusRules ---------------------------
(***************************************************************************)
(* The order status machine of the Order Service, as the pure functions of *)
(* order-status-rules.util.ts state it.  The database row of an order that *)
(* was not created yet is modelled by the status "NONE".                   *)
(***************************************************************************)

Statuses == {"PENDING", "CONFIRMED", "SHIPPED", "DELIVERED", "CANCELLED"}

OrderStatusTransitions(s) ==
  CASE s = "PENDING"   -> {"CONFIRMED", "CANCELLED"}
    [] s = "CONFIRMED" -> {"SHIPPED", "CANCELLED"}
    [] s = "SHIPPED"   -> {"DELIVERED", "CANCELLED"}
    [] OTHER           -> {}

IsValidStatusTransition(current, new) == new \in OrderStatusTransitions(current)

\* Mutant of IsCancellableStatus: only an order that is cancelled already is refused.
IsCancellableUnlessCancelled(s) == s \in Statuses \ {"CANCELLED"}

IsCancellableStatus(s) == "CANCELLED" \in OrderStatusTransitions(s)

IsFinalStatus(s) == s \in Statuses /\ OrderStatusTransitions(s) = {}
===============================================================================
