------------------------------ MODULE MCOrderSaga ------------------------------
(* Small shops for OrderSaga. *)
EXTENDS OrderSaga, FiniteSets, TLC

CONSTANT item

MCProducts == {item}

\* Every order wants one piece of the item.
MCCart == [o \in Orders |-> item :> 1]

Shelf(quantity) ==
  [p \in MCProducts |-> WithStock([AbsentRow EXCEPT !.status = "ACTIVE"], quantity, 0)]

\* Enough for all orders, and for one of them only.
MCAmple == Shelf(Cardinality(Orders))
MCScarce == Shelf(1)

Symmetry == Permutations(Orders) \cup Permutations(Requests)
===============================================================================
