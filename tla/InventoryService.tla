----------------------------- MODULE InventoryService -----------------------------
(***************************************************************************)
(* The Inventory Service on its database.  The order handlers work in one  *)
(* transaction that locks the rows of an order one after the other         *)
(* (SELECT ... FOR UPDATE); there is one at a time, because the consumer   *)
(* prefetches one message.  Administrators create, update and remove items *)
(* through HTTP without a transaction: an entity is read, changed in       *)
(* memory, and saved.  save() of TypeORM loads the row again and updates   *)
(* the columns in which the entity differs from what it loaded.            *)
(*                                                                         *)
(* The history rows both write are never read back and left out.           *)
(***************************************************************************)
EXTENDS Stock

CONSTANTS
  Products,
  Carts,              \* the orders' lines: functions from products to quantities
  InitRows,           \* for each product, the rows it may start with
  LowStockThreshold,  \* 5 in the code
  Admins,             \* HTTP requests of administrators in progress at a time
  AdminOps,           \* which of "update", "rename" and "remove" they use
  NewProducts,        \* the products they create
  Quantities,         \* quantities they set
  NoProduct           \* not a product

ASSUME CartsAssumption ==
  \A cart \in Carts : DOMAIN cart \subseteq Products /\ \A p \in DOMAIN cart : cart[p] \in Nat
ASSUME InitRowsAssumption ==
  \A p \in Products : \A row \in InitRows[p] : row \in Row /\ Balanced(row)
ASSUME QuantitiesAssumption == Quantities \subseteq Nat
ASSUME ThresholdAssumption == LowStockThreshold \in Nat

VARIABLES
  stock,   \* the committed rows
  txn,     \* the transaction of the order handler in progress
  edit,    \* the entity each administrator's request is working on
  alerts   \* <<type, product>> pairs sent to notification_queue

vars == <<stock, txn, edit, alerts>>

-------------------------------------------------------------------------------
(* Transactions of the order handlers *)

NoRows == [p \in {} |-> AbsentRow]
NoCart == [p \in {} |-> 0]

NoTxn == [op |-> "none", cart |-> NoCart, todo |-> {}, rows |-> NoRows]

Active == txn.op # "none"

\* The rows the transaction wrote and therefore keeps locked.
Locked == DOMAIN txn.rows

Begin(op, cart) ==
  /\ ~Active
  /\ txn' = [op |-> op, cart |-> cart, todo |-> DOMAIN cart, rows |-> NoRows]
  /\ UNCHANGED <<stock, edit, alerts>>

WithRow(p, row) == [q \in Locked \cup {p} |-> IF q = p THEN row ELSE txn.rows[q]]

\* The loop body of reserveItems.  The low stock alert leaves the service
\* before the transaction commits.
ReserveLine(p) ==
  /\ txn.op = "reserve" /\ p \in txn.todo
  /\ CanReserve(stock[p], txn.cart[p])
  /\ LET row == Reserve(stock[p], txn.cart[p])
         low == row.available < LowStockThreshold
     IN  /\ txn' = [txn EXCEPT !.todo = @ \ {p}, !.rows = WithRow(p, row)]
         /\ alerts' = IF low THEN alerts \cup {<<"low_stock", p>>} ELSE alerts
  /\ UNCHANGED <<stock, edit>>

\* Mutant of RejectLine: the lines handled so far are committed.
RejectLineWithoutRollback(p) ==
  /\ txn.op = "reserve" /\ p \in txn.todo
  /\ ~CanReserve(stock[p], txn.cart[p])
  /\ txn' = [txn EXCEPT !.todo = {}]
  /\ UNCHANGED <<stock, edit, alerts>>

\* A product is missing or short: the whole order is rolled back.
RejectLine(p) ==
  /\ txn.op = "reserve" /\ p \in txn.todo
  /\ ~CanReserve(stock[p], txn.cart[p])
  /\ txn' = NoTxn
  /\ UNCHANGED <<stock, edit, alerts>>

\* The loop bodies of releaseReservation and finalizeDelivery; a missing
\* product is skipped.
SettleLine(p) ==
  /\ txn.op \in {"release", "finalize"} /\ p \in txn.todo
  /\ LET row == IF txn.op = "release" THEN Release(stock[p], txn.cart[p])
                                      ELSE Finalize(stock[p], txn.cart[p])
     IN  txn' = [txn EXCEPT !.todo = @ \ {p},
                            !.rows = IF Exists(stock[p]) THEN WithRow(p, row) ELSE @]
  /\ UNCHANGED <<stock, edit, alerts>>

Commit ==
  /\ Active /\ txn.todo = {}
  /\ stock' = [p \in Products |-> IF p \in Locked THEN txn.rows[p] ELSE stock[p]]
  /\ txn' = NoTxn
  /\ UNCHANGED <<edit, alerts>>

\* Mutant of Rollback: the rows are forgotten, the rest of the transaction is not.
RollbackRowsOnly ==
  /\ Active
  /\ txn' = [txn EXCEPT !.op = "none", !.rows = NoRows]
  /\ UNCHANGED <<stock, edit, alerts>>

\* A statement or an alert failed, or the service stopped.
Rollback ==
  /\ Active
  /\ txn' = NoTxn
  /\ UNCHANGED <<stock, edit, alerts>>

-------------------------------------------------------------------------------
(* Requests of administrators *)

NoEdit == [pc |-> "idle", op |-> "none", product |-> NoProduct, entity |-> AbsentRow,
           loaded |-> AbsentRow, wasOut |-> FALSE]

\* PATCH: a quantity given may not be below what is reserved; a request that
\* gives none keeps the one it read.  The body may carry a productId too:
\* Object.assign renames the entity, which is then saved as the row of q.
UpdateRead(a, p, q, quantity) ==
  /\ "update" \in AdminOps
  /\ q = p \/ "rename" \in AdminOps
  /\ edit[a] = NoEdit
  /\ stock[p].status = "ACTIVE"
  /\ quantity # stock[p].quantity => quantity >= stock[p].reserved
  /\ edit' = [edit EXCEPT ![a] =
       [pc |-> "read", op |-> "update", product |-> q,
        entity |-> WithStock(stock[p], quantity, stock[p].reserved),
        loaded |-> AbsentRow, wasOut |-> stock[p].available = 0]]
  /\ UNCHANGED <<stock, txn, alerts>>

\* DELETE is a soft delete.
RemoveRead(a, p) ==
  /\ "remove" \in AdminOps
  /\ edit[a] = NoEdit
  /\ stock[p].status = "ACTIVE"
  /\ edit' = [edit EXCEPT ![a] =
       [pc |-> "read", op |-> "remove", product |-> p,
        entity |-> [stock[p] EXCEPT !.status = "INACTIVE"],
        loaded |-> AbsentRow, wasOut |-> FALSE]]
  /\ UNCHANGED <<stock, txn, alerts>>

\* POST reads nothing; reserved and status are left to the column defaults.
CreateRead(a, p, quantity) ==
  /\ p \in NewProducts
  /\ edit[a] = NoEdit
  /\ edit' = [edit EXCEPT ![a] =
       [pc |-> "read", op |-> "create", product |-> p,
        entity |-> [quantity |-> quantity, reserved |-> 0, available |-> quantity, status |-> "ACTIVE"],
        loaded |-> AbsentRow, wasOut |-> FALSE]]
  /\ UNCHANGED <<stock, txn, alerts>>

\* save(), first half: load the row.  Columns a POST leaves out are not part
\* of the comparison with a row that exists.
SaveLoad(a) ==
  /\ edit[a].pc = "read"
  /\ LET row == stock[edit[a].product]
     IN  edit' = [edit EXCEPT ![a].pc = "loaded", ![a].loaded = row,
                    ![a].entity = IF edit[a].op = "create" /\ Exists(row)
                                  THEN [@ EXCEPT !.reserved = row.reserved, !.status = row.status]
                                  ELSE @]
  /\ UNCHANGED <<stock, txn, alerts>>

Merged(row, loaded, entity) ==
  [c \in DOMAIN row |-> IF entity[c] # loaded[c] THEN entity[c] ELSE row[c]]

\* save(), second half: UPDATE the differing columns, or INSERT a row that was
\* not there; a second INSERT violates the primary key and ends the request.
\* UPDATE waits for the row lock of the order handler.
Write(a) ==
  LET p == edit[a].product
      fails == ~Exists(edit[a].loaded) /\ Exists(stock[p])
      back == edit[a].wasOut /\ edit[a].entity.available > 0
  IN  /\ edit[a].pc = "loaded"
      /\ stock' = IF fails THEN stock
                  ELSE [stock EXCEPT ![p] = Merged(@, edit[a].loaded, edit[a].entity)]
      /\ alerts' = IF back /\ ~fails THEN alerts \cup {<<"back_in_stock", p>>} ELSE alerts
      /\ edit' = [edit EXCEPT ![a] = NoEdit]
      /\ UNCHANGED txn

\* Mutant of SaveWrite: the row of an order in progress is not locked.
SaveWriteUnlocked(a) == Write(a)

SaveWrite(a) == edit[a].product \notin Locked /\ Write(a)

-------------------------------------------------------------------------------
Init ==
  /\ stock \in [Products -> UNION {InitRows[p] : p \in Products}]
  /\ \A p \in Products : stock[p] \in InitRows[p]
  /\ txn = NoTxn
  /\ edit = [a \in Admins |-> NoEdit]
  /\ alerts = {}

HandlerNext ==
  \/ \E cart \in Carts, op \in {"reserve", "release", "finalize"} : Begin(op, cart)
  \/ \E p \in Products : ReserveLine(p) \/ RejectLine(p) \/ SettleLine(p)
  \/ Commit
  \/ Rollback

AdminNext ==
  \E a \in Admins :
    \/ \E p \in Products :
         \/ \E q \in Products, quantity \in Quantities \cup {stock[p].quantity} :
              UpdateRead(a, p, q, quantity)
         \/ \E quantity \in Quantities : CreateRead(a, p, quantity)
         \/ RemoveRead(a, p)
    \/ SaveLoad(a)
    \/ SaveWrite(a)

\* The order handlers alone, and the administrators too.  InventoryStartup adds
\* the starts of the service.
HandlerSpec == Init /\ [][HandlerNext]_vars
Spec == Init /\ [][HandlerNext \/ AdminNext]_vars

-------------------------------------------------------------------------------
(* Properties *)

TxnOK ==
  /\ txn = [op |-> txn.op, cart |-> txn.cart, todo |-> txn.todo, rows |-> txn.rows]
  /\ txn.op \in {"none", "reserve", "release", "finalize"}
  /\ IF Active THEN txn.cart \in Carts ELSE txn.cart = NoCart
  /\ txn.todo \subseteq DOMAIN txn.cart
  /\ Locked \subseteq DOMAIN txn.cart
  /\ txn.rows = [p \in Locked |-> txn.rows[p]]
  /\ \A p \in Locked : txn.rows[p] \in Row

Edit == {NoEdit} \cup
  [pc : {"read", "loaded"}, op : {"create", "update", "remove"}, product : Products,
   entity : Row, loaded : Row, wasOut : BOOLEAN]

TypeOK ==
  /\ stock \in [Products -> Row]
  /\ TxnOK
  /\ edit \in [Admins -> Edit]
  /\ alerts \subseteq {"low_stock", "back_in_stock"} \X Products

\* The rows every reader sees: nothing is reserved that is not there and the
\* counters agree, through the clamped subtractions and however a transaction
\* ends (inventory.service.ts:190-381).
StockBalance == \A p \in Products : Balanced(stock[p])

LineRow(p) ==
  CASE txn.op = "reserve"  -> Reserve(stock[p], txn.cart[p])
    [] txn.op = "release"  -> Release(stock[p], txn.cart[p])
    [] txn.op = "finalize" -> Finalize(stock[p], txn.cart[p])

\* What a transaction is about to commit is what its order does to the rows as
\* they are now, and a reservation still fits in them, although each row was
\* read when its line was handled and administrators go on saving rows: the
\* row locks keep what was read valid to the end (inventory.service.ts:197-215,
\* 256-273, 302-330 against 54 and 141).
ReadsStayValid ==
  /\ \A p \in Locked : txn.rows[p] = LineRow(p)
  /\ txn.op = "reserve" =>
       \A p \in DOMAIN txn.cart \ txn.todo : p \in Locked /\ CanReserve(stock[p], txn.cart[p])

\* A save whose entity, or the copy it is compared with, has other reservations
\* than the row by now, or was out of balance when it was read or made.
MisfitSave(a, p) ==
  /\ edit[a].pc = "loaded" /\ edit[a].product = p
  /\ \E other \in {edit[a].entity, edit[a].loaded} :
       ~Balanced(other) \/ other.reserved # stock[p].reserved

\* The counters of a row part only in such a save: no order handler does it,
\* whatever administrators do to its rows while it works, and no save that
\* overlaps with others that left the reservations alone
\* (inventory.service.ts:141 and 190-381).
MisfitSavesUnbalance ==
  [][\A p \in Products :
       Balanced(stock[p]) => Balanced(stock'[p]) \/ \E a \in Admins : MisfitSave(a, p)]_vars

\* The line-by-line transactions are the all-or-nothing operations of module
\* StockLedger: no reader sees half an order (inventory.service.ts:190-381).
Ledger == INSTANCE StockLedger
KeepsLedger == Ledger!Spec

\* The transaction skipped a product as missing that has been posted since.
AppearedSince ==
  \E p \in DOMAIN txn.cart \ (txn.todo \cup Locked) : Exists(stock[p])

\* So it is between the saves of administrators too: what a transaction changes
\* in the end is what its whole order does to the rows as they are at its
\* commit, unless a product it skipped has appeared
\* (inventory.service.ts:190-381 against 54 and 141).
CommitsAreWholeOrders ==
  [][txn' # txn /\ stock' # stock => Ledger!Next \/ AppearedSince]_vars
===============================================================================
