--------------------------- MODULE MCInventoryStartup ---------------------------
(* Small shops for the Inventory Service with its seeder. *)
EXTENDS InventoryStartup, TLC

CONSTANTS headphones, mouse

MCProducts == {headphones, mouse}

\* Two of one product, and an order whose second line may be short.
MCCarts == {headphones :> 2, headphones :> 1 @@ mouse :> 2}

\* Each product is missing or has a reservation that is not among the carts.
MCShop ==
  [p \in MCProducts |-> {AbsentRow, WithStock([AbsentRow EXCEPT !.status = "ACTIVE"], 2, 1)}]

MCSeeds == <<[product |-> headphones, quantity |-> 2], [product |-> mouse, quantity |-> 1]>>

\* Saves that do not fit drive the counters of a row apart without end; a run
\* follows them to the first such row.
NoneParted == \A p \in MCProducts : Balanced(stock[p])
===============================================================================
