------------------------------- MODULE StockLedger -------------------------------
(***************************************************************************)
(* What the order handlers of the Inventory Service promise about the      *)
(* stock: an order's lines are reserved, released or finalized together,   *)
(* all of them or none, and a reservation never promises more than the     *)
(* stock there is.                                                         *)
(***************************************************************************)
EXTENDS Stock

CONSTANTS
  Products,
  Carts       \* the orders' lines: functions from products to quantities

VARIABLE stock

Init ==
  /\ stock \in [Products -> Row]
  /\ \A p \in Products : Balanced(stock[p])

ReserveOrder(cart) ==
  /\ CanReserveAll(stock, cart)
  /\ stock' = ReserveAll(stock, cart)

ReleaseOrder(cart) == stock' = ReleaseAll(stock, cart)

FinalizeOrder(cart) == stock' = FinalizeAll(stock, cart)

Next == \E cart \in Carts : ReserveOrder(cart) \/ ReleaseOrder(cart) \/ FinalizeOrder(cart)

Spec == Init /\ [][Next]_stock
===============================================================================
