--------------------------------- MODULE Stock ---------------------------------
(***************************************************************************)
(* The columns of an inventory_items row that the Inventory Service        *)
(* computes with, and what its order handlers do to one row and to all the *)
(* rows of an order.  A cart maps the products of an order to the quantity *)
(* ordered.  The lines of an order are an array in the code: two lines of  *)
(* one product add up to one line (lemma LinesAddUp of StockProofs).  A    *)
(* product that has no row has the status "ABSENT".                        *)
(***************************************************************************)
EXTENDS Integers

Row == [quantity : Int, reserved : Int, available : Int,
        status : {"ABSENT", "ACTIVE", "INACTIVE"}]

AbsentRow == [quantity |-> 0, reserved |-> 0, available |-> 0, status |-> "ABSENT"]

Exists(row) == row.status # "ABSENT"

AtLeastZero(n) == IF n < 0 THEN 0 ELSE n

\* What every handler leaves behind: available is recomputed, never adjusted.
WithStock(row, quantity, reserved) ==
  [quantity |-> quantity, reserved |-> reserved, available |-> quantity - reserved,
   status |-> row.status]

-------------------------------------------------------------------------------
(* One row. *)

\* Mutant of CanReserve: what is reserved already is not taken into account.
CanReserveFromQuantity(row, n) == Exists(row) /\ row.quantity >= n

CanReserve(row, n) == Exists(row) /\ row.available >= n

Reserve(row, n) == WithStock(row, row.quantity, row.reserved + n)

\* Mutant of Release: without the Math.max.
ReleaseUnclamped(row, n) == WithStock(row, row.quantity, row.reserved - n)

\* Mutant of Release: available goes up, reserved stays.
ReleaseAvailableOnly(row, n) == [row EXCEPT !.available = @ + n]

Release(row, n) == WithStock(row, row.quantity, AtLeastZero(row.reserved - n))

\* Mutant of Finalize: what is delivered stays reserved.
FinalizeQuantityOnly(row, n) == WithStock(row, AtLeastZero(row.quantity - n), row.reserved)

Finalize(row, n) ==
  WithStock(row, AtLeastZero(row.quantity - n), AtLeastZero(row.reserved - n))

\* What a reader of the catalogue can rely on: the three counters agree and
\* nothing is reserved that is not there.
Balanced(row) ==
  /\ 0 <= row.reserved
  /\ row.reserved <= row.quantity
  /\ row.available = row.quantity - row.reserved

-------------------------------------------------------------------------------
(* The rows of a whole order. *)

CanReserveAll(stock, cart) == \A p \in DOMAIN cart : CanReserve(stock[p], cart[p])

ReserveAll(stock, cart) ==
  [p \in DOMAIN stock |->
     IF p \in DOMAIN cart THEN Reserve(stock[p], cart[p]) ELSE stock[p]]

ReleaseAll(stock, cart) ==
  [p \in DOMAIN stock |->
     IF p \in DOMAIN cart /\ Exists(stock[p]) THEN Release(stock[p], cart[p]) ELSE stock[p]]

FinalizeAll(stock, cart) ==
  [p \in DOMAIN stock |->
     IF p \in DOMAIN cart /\ Exists(stock[p]) THEN Finalize(stock[p], cart[p]) ELSE stock[p]]
===============================================================================
