------------------------- MODULE InventoryServiceProofs -------------------------
(***************************************************************************)
(* For all shops, orders and administrators: the types, what the row locks *)
(* keep valid, and which saves alone unbalance a row.  And that the order  *)
(* handlers, line by line as they work, are the all-or-nothing operations  *)
(* of StockLedger and keep every row balanced.                             *)
(***************************************************************************)
EXTENDS InventoryService, StockProofs

-------------------------------------------------------------------------------
(* Types *)

\* The transaction starts and ends without rows.
LEMMA IdleTxn == ASSUME txn' = NoTxn PROVE TxnOK'
BY DEF TxnOK, NoTxn, NoRows, NoCart, Locked, Active

LEMMA InitTypes == Init => TypeOK
<1> SUFFICES ASSUME Init PROVE TypeOK
  OBVIOUS
<1>1. stock \in [Products -> Row]
  BY InitRowsAssumption DEF Init
<1>2. TxnOK
  BY DEF Init, TxnOK, NoTxn, NoRows, NoCart, Locked, Active
<1>3. edit \in [Admins -> Edit]
  BY DEF Init, Edit
<1> QED
  BY <1>1, <1>2, <1>3 DEF TypeOK, Init

\* The row a handler adds to its transaction has the type of a row.
LEMMA AddedRow ==
  ASSUME TypeOK, Active, NEW p \in txn.todo, NEW row \in Row
  PROVE  /\ WithRow(p, row) = [q \in Locked \cup {p} |-> WithRow(p, row)[q]]
         /\ \A q \in Locked \cup {p} : WithRow(p, row)[q] \in Row
         /\ DOMAIN WithRow(p, row) = Locked \cup {p}
BY DEF TypeOK, TxnOK, WithRow

LEMMA ReserveLineTypes ==
  ASSUME TypeOK, NEW p \in Products, ReserveLine(p)
  PROVE  TypeOK'
<1> DEFINE row == Reserve(stock[p], txn.cart[p])
<1>1. txn.cart \in Carts /\ p \in DOMAIN txn.cart /\ txn.cart[p] \in Nat
  BY CartsAssumption DEF TypeOK, TxnOK, ReserveLine, Active
<1>2. row \in Row
  <2>1. stock[p] \in Row
    BY DEF TypeOK
  <2> QED
    BY <1>1, <2>1, WithStockColumns DEF Reserve, Row
<1>3. TxnOK'
  <2>1. Active
    BY DEF ReserveLine, Active
  <2> DEFINE rows == WithRow(p, row)
  <2>2. /\ rows = [q \in Locked \cup {p} |-> rows[q]]
        /\ \A q \in Locked \cup {p} : rows[q] \in Row
        /\ DOMAIN rows = Locked \cup {p}
    BY <1>2, <2>1, AddedRow DEF ReserveLine
  <2>3. /\ txn'.op = txn.op /\ txn'.cart = txn.cart /\ txn'.todo = txn.todo \ {p}
        /\ txn'.rows = rows
        /\ txn' = [op |-> txn'.op, cart |-> txn'.cart, todo |-> txn'.todo, rows |-> txn'.rows]
    BY DEF ReserveLine, TypeOK, TxnOK
  <2> HIDE DEF rows
  <2> QED
    BY <1>1, <2>2, <2>3 DEF TypeOK, TxnOK, Locked, Active
<1>4. alerts' \subseteq {"low_stock", "back_in_stock"} \X Products
  BY DEF ReserveLine, TypeOK
<1> QED
  BY <1>3, <1>4 DEF TypeOK, ReserveLine

LEMMA SettleLineTypes ==
  ASSUME TypeOK, NEW p \in Products, SettleLine(p)
  PROVE  TypeOK'
<1> DEFINE row == IF txn.op = "release" THEN Release(stock[p], txn.cart[p])
                                        ELSE Finalize(stock[p], txn.cart[p])
<1>1. txn.cart \in Carts /\ p \in DOMAIN txn.cart /\ txn.cart[p] \in Nat
  BY CartsAssumption DEF TypeOK, TxnOK, SettleLine, Active
<1>2. row \in Row
  <2>1. stock[p] \in Row
    BY DEF TypeOK
  <2> QED
    BY <1>1, <2>1, WithStockColumns DEF Release, Finalize, AtLeastZero, Row
<1>3. TxnOK'
  <2>1. Active
    BY DEF SettleLine, Active
  <2> DEFINE rows == IF Exists(stock[p]) THEN WithRow(p, row) ELSE txn.rows
  <2>2. /\ rows = [q \in DOMAIN rows |-> rows[q]]
        /\ \A q \in DOMAIN rows : rows[q] \in Row
        /\ DOMAIN rows \subseteq Locked \cup {p} /\ Locked \subseteq DOMAIN rows
    <3>1. CASE Exists(stock[p])
      <4>1. rows = WithRow(p, row)
        BY <3>1
      <4>2. p \in txn.todo
        BY DEF SettleLine
      <4> HIDE DEF rows, row
      <4> QED
        BY <1>2, <2>1, <4>1, <4>2, AddedRow
    <3>2. CASE ~Exists(stock[p])
      BY <3>2 DEF TypeOK, TxnOK, Locked
    <3> QED
      BY <3>1, <3>2
  <2>3. /\ txn'.op = txn.op /\ txn'.cart = txn.cart /\ txn'.todo = txn.todo \ {p}
        /\ txn'.rows = rows
        /\ txn' = [op |-> txn'.op, cart |-> txn'.cart, todo |-> txn'.todo, rows |-> txn'.rows]
    BY DEF SettleLine, TypeOK, TxnOK
  <2> HIDE DEF rows
  <2> QED
    BY <1>1, <2>2, <2>3 DEF TypeOK, TxnOK, Locked, Active
<1> QED
  BY <1>3 DEF TypeOK, SettleLine

LEMMA CommitTypes == ASSUME TypeOK, Commit PROVE TypeOK'
<1>1. stock' \in [Products -> Row]
  BY DEF TypeOK, TxnOK, Commit
<1>2. TxnOK'
  BY IdleTxn DEF Commit
<1> QED
  BY <1>1, <1>2 DEF TypeOK, Commit

\* The handlers, whatever they do, keep the types.
LEMMA HandlerTypes == ASSUME TypeOK, HandlerNext PROVE TypeOK'
<1>1. ASSUME NEW cart \in Carts, NEW op \in {"reserve", "release", "finalize"}, Begin(op, cart)
      PROVE  TypeOK'
  <2>1. TxnOK'
    BY <1>1 DEF Begin, TxnOK, NoRows, Locked, Active
  <2> QED
    BY <1>1, <2>1 DEF TypeOK, Begin
<1>2. ASSUME NEW p \in Products, RejectLine(p) PROVE TypeOK'
  BY <1>2, IdleTxn DEF TypeOK, RejectLine
<1>3. CASE Rollback
  BY <1>3, IdleTxn DEF TypeOK, Rollback
<1> QED
  BY <1>1, <1>2, <1>3, ReserveLineTypes, SettleLineTypes, CommitTypes DEF HandlerNext

\* An entity differs from a row in columns that have the row's types.
LEMMA MergedIsRow ==
  ASSUME NEW row \in Row, NEW loaded \in Row, NEW entity \in Row
  PROVE  Merged(row, loaded, entity) \in Row
BY DEF Merged, Row

\* A request of an administrator that goes on to e' in its slot.
LEMMA EditTypes ==
  ASSUME TypeOK, NEW a \in Admins, NEW e \in Edit, edit' = [edit EXCEPT ![a] = e]
  PROVE  edit' \in [Admins -> Edit]
BY DEF TypeOK

LEMMA AdminTypes == ASSUME TypeOK, AdminNext PROVE TypeOK'
<1> USE DEF TypeOK
<1>1. ASSUME NEW a \in Admins, NEW p \in Products, NEW q \in Products, NEW quantity \in Int,
             UpdateRead(a, p, q, quantity)
      PROVE  TypeOK'
  <2>1. WithStock(stock[p], quantity, stock[p].reserved) \in Row /\ AbsentRow \in Row
    BY WithStockColumns DEF Row, AbsentRow
  <2>2. PICK e \in Edit : edit' = [edit EXCEPT ![a] = e]
    BY <1>1, <2>1 DEF UpdateRead, Edit
  <2> QED
    BY <1>1, <2>2, EditTypes DEF UpdateRead, TxnOK, Locked, Active
<1>2. ASSUME NEW a \in Admins, NEW p \in Products, RemoveRead(a, p)
      PROVE  TypeOK'
  <2>1. [stock[p] EXCEPT !.status = "INACTIVE"] \in Row /\ AbsentRow \in Row
    BY DEF Row, AbsentRow
  <2>2. PICK e \in Edit : edit' = [edit EXCEPT ![a] = e]
    BY <1>2, <2>1 DEF RemoveRead, Edit
  <2> QED
    BY <1>2, <2>2, EditTypes DEF RemoveRead, TxnOK, Locked, Active
<1>3. ASSUME NEW a \in Admins, NEW p \in Products, NEW quantity \in Nat, CreateRead(a, p, quantity)
      PROVE  TypeOK'
  <2>1. /\ [quantity |-> quantity, reserved |-> 0, available |-> quantity, status |-> "ACTIVE"] \in Row
        /\ AbsentRow \in Row
    BY DEF Row, AbsentRow
  <2>2. PICK e \in Edit : edit' = [edit EXCEPT ![a] = e]
    BY <1>3, <2>1 DEF CreateRead, Edit
  <2> QED
    BY <1>3, <2>2, EditTypes DEF CreateRead, TxnOK, Locked, Active
<1>4. ASSUME NEW a \in Admins, SaveLoad(a) PROVE TypeOK'
  <2>1. /\ edit[a].product \in Products /\ edit[a].op \in {"create", "update", "remove"}
        /\ edit[a].entity \in Row /\ edit[a].wasOut \in BOOLEAN
        /\ edit[a] = [pc |-> edit[a].pc, op |-> edit[a].op, product |-> edit[a].product,
                      entity |-> edit[a].entity, loaded |-> edit[a].loaded,
                      wasOut |-> edit[a].wasOut]
    BY <1>4 DEF SaveLoad, Edit, NoEdit
  <2> DEFINE row == stock[edit[a].product]
             entity == IF edit[a].op = "create" /\ Exists(row)
                       THEN [edit[a].entity EXCEPT !.reserved = row.reserved, !.status = row.status]
                       ELSE edit[a].entity
             e == [edit[a] EXCEPT !.pc = "loaded", !.loaded = row, !.entity = entity]
  <2>2. row \in Row /\ entity \in Row
    BY <2>1 DEF Row
  <2>3. edit' = [edit EXCEPT ![a] = e]
    BY <1>4, <2>1 DEF SaveLoad
  <2>4. e \in Edit
    <3> HIDE DEF row, entity
    <3> QED
      BY <2>1, <2>2 DEF Edit
  <2> QED
    BY <1>4, <2>3, <2>4, EditTypes DEF SaveLoad, TxnOK, Locked, Active
<1>5. ASSUME NEW a \in Admins, SaveWrite(a) PROVE TypeOK'
  <2> DEFINE p == edit[a].product
  <2>1. p \in Products /\ edit[a].entity \in Row /\ edit[a].loaded \in Row
    BY <1>5 DEF SaveWrite, Write, Edit, NoEdit
  <2>2. stock' \in [Products -> Row]
    BY <1>5, <2>1, MergedIsRow DEF SaveWrite, Write
  <2>3. alerts' \subseteq {"low_stock", "back_in_stock"} \X Products
    BY <1>5, <2>1 DEF SaveWrite, Write
  <2>4. edit' \in [Admins -> Edit]
    BY <1>5, EditTypes DEF SaveWrite, Write, Edit
  <2> QED
    BY <1>5, <2>2, <2>3, <2>4 DEF SaveWrite, Write, TxnOK, Locked, Active
<1> QED
  BY <1>1, <1>2, <1>3, <1>4, <1>5, QuantitiesAssumption DEF AdminNext, Row

\* Handlers and administrators together keep every variable in its type
\* (inventory.service.ts:32-424).
THEOREM Typing == Spec => []TypeOK
<1>1. ASSUME TypeOK, [HandlerNext \/ AdminNext]_vars PROVE TypeOK'
  <2>1. CASE UNCHANGED vars
    BY <1>1, <2>1 DEF TypeOK, TxnOK, Locked, Active, vars
  <2> QED
    BY <1>1, <2>1, HandlerTypes, AdminTypes
<1> QED
  BY InitTypes, <1>1, PTL DEF Spec

-------------------------------------------------------------------------------
(* Rows that are read under a lock.  A handler holds the locks of the rows   *)
(* it wrote, and an administrator's UPDATE waits for them, so what the       *)
(* transaction computed from a row is what it would compute from it now.     *)

ReadInv == TypeOK /\ ReadsStayValid

LEMMA CartLines ==
  ASSUME TypeOK, Active
  PROVE  /\ txn.todo \subseteq DOMAIN txn.cart /\ DOMAIN txn.cart \subseteq Products
         /\ \A p \in DOMAIN txn.cart : txn.cart[p] \in Nat
BY CartsAssumption DEF TypeOK, TxnOK, Active

LEMMA ReserveLineReads ==
  ASSUME ReadInv, NEW p \in Products, ReserveLine(p)
  PROVE  ReadsStayValid'
<1>1. /\ p \in txn.todo /\ txn.op = "reserve" /\ Active
      /\ CanReserve(stock[p], txn.cart[p]) /\ stock' = stock
  BY DEF ReserveLine, Active
<1>2. /\ txn'.op = txn.op /\ txn'.cart = txn.cart /\ txn'.todo = txn.todo \ {p}
      /\ txn'.rows = WithRow(p, Reserve(stock[p], txn.cart[p]))
  BY DEF ReserveLine, ReadInv, TypeOK, TxnOK
<1>3. p \in DOMAIN txn.cart
  BY <1>1, CartLines DEF ReadInv
<1>4. Locked' = Locked \cup {p}
  BY <1>2 DEF Locked, WithRow
<1>5. \A q \in Locked \cup {p} : txn'.rows[q] = LineRow(q)'
  BY <1>1, <1>2 DEF WithRow, LineRow, ReadInv, ReadsStayValid, Locked
<1>6. \A q \in DOMAIN txn'.cart \ txn'.todo :
        q \in Locked' /\ CanReserve(stock'[q], txn'.cart[q])
  BY <1>1, <1>2, <1>4 DEF ReadInv, ReadsStayValid
<1> QED
  BY <1>4, <1>5, <1>6 DEF ReadsStayValid

LEMMA SettleLineReads ==
  ASSUME ReadInv, NEW p \in Products, SettleLine(p)
  PROVE  /\ ReadsStayValid'
         /\ Locked' = IF Exists(stock[p]) THEN Locked \cup {p} ELSE Locked
<1> DEFINE row == IF txn.op = "release" THEN Release(stock[p], txn.cart[p])
                                        ELSE Finalize(stock[p], txn.cart[p])
<1>1. /\ p \in txn.todo /\ txn.op \in {"release", "finalize"} /\ Active /\ stock' = stock
  BY DEF SettleLine, Active
<1>2. /\ txn'.op = txn.op /\ txn'.cart = txn.cart /\ txn'.todo = txn.todo \ {p}
      /\ txn'.rows = IF Exists(stock[p]) THEN WithRow(p, row) ELSE txn.rows
  BY DEF SettleLine, ReadInv, TypeOK, TxnOK
<1>3. Locked' = IF Exists(stock[p]) THEN Locked \cup {p} ELSE Locked
  BY <1>2 DEF Locked, WithRow
<1>4. \A q \in Locked' : txn'.rows[q] = LineRow(q)'
  <2>1. CASE Exists(stock[p])
    BY <1>1, <1>2, <1>3, <2>1 DEF WithRow, LineRow, ReadInv, ReadsStayValid, Locked
  <2>2. CASE ~Exists(stock[p])
    BY <1>1, <1>2, <1>3, <2>2 DEF LineRow, ReadInv, ReadsStayValid
  <2> QED
    BY <2>1, <2>2
<1> QED
  BY <1>1, <1>2, <1>3, <1>4 DEF ReadsStayValid

\* What has no transaction in progress has nothing to keep valid.
LEMMA NoTxnReads == ASSUME txn' = NoTxn PROVE ReadsStayValid'
BY DEF ReadsStayValid, Locked, NoTxn, NoRows

LEMMA HandlerReads ==
  ASSUME ReadInv, HandlerNext
  PROVE  /\ ReadsStayValid'
         /\ Commit \/ UNCHANGED stock
<1>1. ASSUME NEW cart \in Carts, NEW op \in {"reserve", "release", "finalize"}, Begin(op, cart)
      PROVE  ReadsStayValid' /\ UNCHANGED stock
  BY <1>1 DEF Begin, ReadsStayValid, Locked, NoRows
<1>2. ASSUME NEW p \in Products, ReserveLine(p) \/ SettleLine(p)
      PROVE  ReadsStayValid' /\ UNCHANGED stock
  BY <1>2, ReserveLineReads, SettleLineReads DEF ReserveLine, SettleLine
<1>3. ASSUME NEW p \in Products, RejectLine(p)
      PROVE  ReadsStayValid' /\ UNCHANGED stock
  BY <1>3, NoTxnReads DEF RejectLine
<1>4. Rollback => ReadsStayValid' /\ UNCHANGED stock
  BY NoTxnReads DEF Rollback
<1>5. Commit => ReadsStayValid'
  BY NoTxnReads DEF Commit
<1> QED
  BY <1>1, <1>2, <1>3, <1>4, <1>5 DEF HandlerNext

\* The requests of administrators change no row but the one they save, and it
\* is not locked.
LEMMA RequestWrites ==
  ASSUME TypeOK, AdminNext
  PROVE  /\ UNCHANGED txn
         /\ \/ UNCHANGED stock
            \/ \E a \in Admins :
                 /\ edit[a].pc = "loaded" /\ edit[a].product \in Products \ Locked
                 /\ edit[a].loaded \in Row /\ edit[a].entity \in Row
                 /\ stock' = [stock EXCEPT ![edit[a].product] =
                                Merged(@, edit[a].loaded, edit[a].entity)]
<1>1. ASSUME NEW a \in Admins, SaveWrite(a), stock' # stock
      PROVE  /\ edit[a].pc = "loaded" /\ edit[a].product \in Products \ Locked
             /\ edit[a].loaded \in Row /\ edit[a].entity \in Row
             /\ stock' = [stock EXCEPT ![edit[a].product] =
                            Merged(@, edit[a].loaded, edit[a].entity)]
  BY <1>1 DEF SaveWrite, Write, TypeOK, Edit, NoEdit
<1>2. ASSUME NEW a \in Admins,
             \/ \E p, q \in Products : \E n \in Quantities \cup {stock[p].quantity} : UpdateRead(a, p, q, n)
             \/ \E p \in Products : \E n \in Quantities : CreateRead(a, p, n)
             \/ \E p \in Products : RemoveRead(a, p)
             \/ SaveLoad(a)
      PROVE  UNCHANGED <<stock, txn>>
  BY <1>2 DEF UpdateRead, CreateRead, RemoveRead, SaveLoad
<1>3. ASSUME NEW a \in Admins, SaveWrite(a) PROVE UNCHANGED txn
  BY <1>3 DEF SaveWrite, Write
<1> QED
  BY <1>1, <1>2, <1>3 DEF AdminNext

LEMMA RequestReads ==
  ASSUME ReadInv, AdminNext
  PROVE  ReadsStayValid'
<1>1. \A p \in Locked : stock'[p] = stock[p]
  <2>1. Locked \subseteq Products
    BY CartsAssumption DEF ReadInv, TypeOK, TxnOK, NoCart
  <2> QED
    BY <2>1, RequestWrites DEF ReadInv, TypeOK
<1>2. txn' = txn
  BY RequestWrites DEF ReadInv
<1> QED
  BY <1>1, <1>2 DEF ReadInv, ReadsStayValid, Locked, LineRow

LEMMA ReadsInit == Init => ReadInv
BY InitTypes DEF Init, ReadInv, ReadsStayValid, Locked, NoTxn, NoRows

LEMMA ReadsNext ==
  ASSUME ReadInv, [HandlerNext \/ AdminNext]_vars
  PROVE  ReadInv'
<1>1. CASE UNCHANGED vars
  BY <1>1 DEF vars, ReadInv, TypeOK, TxnOK, Locked, Active, ReadsStayValid, LineRow
<1> QED
  BY <1>1, HandlerTypes, AdminTypes, HandlerReads, RequestReads DEF ReadInv

\* What was read under a row lock holds until the commit, whatever the
\* administrators save meanwhile (inventory.service.ts:197-215, 256-273,
\* 302-330 against 54 and 141).
THEOREM ReadsHoldUntilCommit == Spec => []ReadsStayValid
<1>1. ReadInv => ReadsStayValid
  BY DEF ReadInv
<1> QED
  BY ReadsInit, ReadsNext, <1>1, PTL DEF Spec

-------------------------------------------------------------------------------
(* Who unbalances a row. *)

\* Merged takes quantity and available of one of three balanced rows that have
\* the same reservations.
LEMMA MergedIsBalanced ==
  ASSUME NEW row \in Row, NEW loaded \in Row, NEW entity \in Row,
         Balanced(row), Balanced(loaded), Balanced(entity),
         loaded.reserved = row.reserved, entity.reserved = row.reserved
  PROVE  Balanced(Merged(row, loaded, entity))
BY DEF Merged, Row, Balanced

\* The row a handler commits is balanced if the one it read is.
LEMMA CommittedIsBalanced ==
  ASSUME ReadInv, Commit, NEW p \in Products, Balanced(stock[p])
  PROVE  Balanced(stock'[p])
<1>1. stock'[p] = IF p \in Locked THEN txn.rows[p] ELSE stock[p]
  BY DEF Commit
<1>2. ASSUME p \in Locked PROVE Balanced(LineRow(p))
  <2>1. p \in DOMAIN txn.cart /\ txn.cart[p] \in Nat /\ stock[p] \in Row /\ txn.todo = {}
    BY <1>2, CartLines DEF ReadInv, TypeOK, TxnOK, Commit
  <2>2. txn.op = "reserve" => CanReserve(stock[p], txn.cart[p])
    BY <2>1 DEF ReadInv, ReadsStayValid
  <2>3. txn.op \in {"reserve", "release", "finalize"}
    BY DEF ReadInv, TypeOK, TxnOK, Commit, Active
  <2> QED
    BY <2>1, <2>2, <2>3 DEF LineRow, CanReserve, Reserve, Release, Finalize, AtLeastZero, WithStock,
                            Balanced, Row
<1> QED
  BY <1>1, <1>2 DEF ReadInv, ReadsStayValid

LEMMA OnlyMisfitSaves ==
  ASSUME ReadInv, [HandlerNext \/ AdminNext]_vars, NEW p \in Products, Balanced(stock[p])
  PROVE  Balanced(stock'[p]) \/ \E a \in Admins : MisfitSave(a, p)
<1>1. CASE UNCHANGED stock
  BY <1>1
<1>2. CASE Commit
  BY <1>2, CommittedIsBalanced
<1>3. ASSUME NEW a \in Admins,
             edit[a].pc = "loaded", edit[a].product \in Products,
             edit[a].loaded \in Row, edit[a].entity \in Row,
             stock' = [stock EXCEPT ![edit[a].product] = Merged(@, edit[a].loaded, edit[a].entity)],
             ~MisfitSave(a, p)
      PROVE  Balanced(stock'[p])
  <2>1. CASE edit[a].product # p
    BY <1>3, <2>1 DEF ReadInv, TypeOK
  <2>2. CASE edit[a].product = p
    <3>1. /\ Balanced(edit[a].loaded) /\ edit[a].loaded.reserved = stock[p].reserved
          /\ Balanced(edit[a].entity) /\ edit[a].entity.reserved = stock[p].reserved
      BY <1>3, <2>2 DEF MisfitSave
    <3>2. stock[p] \in Row /\ stock'[p] = Merged(stock[p], edit[a].loaded, edit[a].entity)
      BY <1>3, <2>2 DEF ReadInv, TypeOK
    <3> QED
      BY <1>3, <3>1, <3>2, MergedIsBalanced
  <2> QED
    BY <2>1, <2>2
<1>4. AdminNext => \/ UNCHANGED stock
                   \/ \E a \in Admins :
                        /\ edit[a].pc = "loaded" /\ edit[a].product \in Products
                        /\ edit[a].loaded \in Row /\ edit[a].entity \in Row
                        /\ stock' = [stock EXCEPT ![edit[a].product] =
                                       Merged(@, edit[a].loaded, edit[a].entity)]
  BY RequestWrites DEF ReadInv
<1>5. HandlerNext => Commit \/ UNCHANGED stock
  BY HandlerReads
<1> QED
  BY <1>1, <1>2, <1>3, <1>4, <1>5 DEF vars

\* The counters of a row part only in a save whose entity or loaded copy does
\* not fit the row any more: neither an order handler nor overlapping saves
\* that left the reservations alone do it, for any number of administrators
\* (inventory.service.ts:54, 141 and 190-381).
THEOREM SavesAloneUnbalance == Spec => MisfitSavesUnbalance
<1>1. ReadInv /\ [HandlerNext \/ AdminNext]_vars =>
        [\A p \in Products :
           Balanced(stock[p]) => Balanced(stock'[p]) \/ \E a \in Admins : MisfitSave(a, p)]_vars
  BY OnlyMisfitSaves
<1> QED
  BY ReadsInit, ReadsNext, <1>1, PTL DEF Spec, MisfitSavesUnbalance

-------------------------------------------------------------------------------
(* Whole orders.  A commit writes the rows that are locked, and these are    *)
(* all lines of the order but those whose product was missing.               *)

MissingSkipped ==
  Locked = {p \in DOMAIN txn.cart \ txn.todo : txn.op = "reserve" \/ Exists(stock[p])}

\* StockLedger means by its operators what module Stock means by them.
LEMMA LedgerOperators ==
  ASSUME NEW cart
  PROVE  /\ Ledger!CanReserveAll(stock, cart) <=> CanReserveAll(stock, cart)
         /\ Ledger!ReserveAll(stock, cart) = ReserveAll(stock, cart)
         /\ Ledger!ReleaseAll(stock, cart) = ReleaseAll(stock, cart)
         /\ Ledger!FinalizeAll(stock, cart) = FinalizeAll(stock, cart)
BY DEF CanReserveAll, CanReserve, Exists, Ledger!CanReserveAll, Ledger!CanReserve, Ledger!Exists,
       ReserveAll, Reserve, WithStock, Ledger!ReserveAll, Ledger!Reserve, Ledger!WithStock,
       ReleaseAll, Release, AtLeastZero, Ledger!ReleaseAll, Ledger!Release, Ledger!AtLeastZero,
       FinalizeAll, Finalize, Ledger!FinalizeAll, Ledger!Finalize

\* A transaction that handled every line commits the effect of the whole order.
LEMMA CommitIsWholeOrder ==
  ASSUME ReadInv, MissingSkipped, Commit
  PROVE  \E cart \in Carts :
           \/ Ledger!ReserveOrder(cart)
           \/ Ledger!ReleaseOrder(cart)
           \/ Ledger!FinalizeOrder(cart)
<1> DEFINE cart == txn.cart
<1>1. /\ Active /\ txn.todo = {} /\ txn.op \in {"reserve", "release", "finalize"}
      /\ cart \in Carts /\ DOMAIN stock = Products /\ DOMAIN cart \subseteq Products
  BY CartLines DEF Commit, Active, ReadInv, TypeOK, TxnOK
<1>2. \A p \in Products : stock'[p] = IF p \in Locked THEN LineRow(p) ELSE stock[p]
  BY DEF Commit, ReadInv, ReadsStayValid
<1>3. stock' = [p \in Products |-> stock'[p]]
  BY DEF Commit
<1>4. \A p \in Products : p \in Locked <=> p \in DOMAIN cart /\ (txn.op = "reserve" \/ Exists(stock[p]))
  BY <1>1 DEF MissingSkipped
<1>5. CASE txn.op = "reserve"
  <2>1. CanReserveAll(stock, cart)
    BY <1>1, <1>5 DEF CanReserveAll, ReadInv, ReadsStayValid
  <2>2. stock' = ReserveAll(stock, cart)
    BY <1>1, <1>2, <1>3, <1>4, <1>5 DEF ReserveAll, LineRow
  <2> QED
    BY <1>1, <2>1, <2>2, LedgerOperators DEF Ledger!ReserveOrder
<1>6. CASE txn.op = "release"
  <2>1. stock' = ReleaseAll(stock, cart)
    BY <1>1, <1>2, <1>3, <1>4, <1>6 DEF ReleaseAll, LineRow
  <2> QED
    BY <1>1, <2>1, LedgerOperators DEF Ledger!ReleaseOrder
<1>7. CASE txn.op = "finalize"
  <2>1. stock' = FinalizeAll(stock, cart)
    BY <1>1, <1>2, <1>3, <1>4, <1>7 DEF FinalizeAll, LineRow
  <2> QED
    BY <1>1, <2>1, LedgerOperators DEF Ledger!FinalizeOrder
<1> QED
  BY <1>1, <1>5, <1>6, <1>7

\* A locked row exists, and its line is done.
LockedExist == \A p \in Locked : p \in DOMAIN txn.cart \ txn.todo /\ Exists(stock[p])

LEMMA LockedExistStep ==
  ASSUME ReadInv, LockedExist, [HandlerNext \/ AdminNext]_vars
  PROVE  LockedExist'
<1>1. CASE UNCHANGED vars
  BY <1>1 DEF vars, LockedExist, Locked
<1>2. ASSUME NEW p \in Products, ReserveLine(p) \/ SettleLine(p) PROVE LockedExist'
  <2>1. /\ p \in txn.todo /\ p \in DOMAIN txn.cart /\ stock' = stock
        /\ txn'.cart = txn.cart /\ txn'.todo = txn.todo \ {p}
    BY <1>2, CartLines DEF ReserveLine, SettleLine, Active, ReadInv, TypeOK, TxnOK
  <2>2. CASE ReserveLine(p)
    <3>1. Locked' = Locked \cup {p} /\ Exists(stock[p])
      BY <2>2 DEF ReserveLine, CanReserve, ReadInv, TypeOK, TxnOK, Locked, WithRow
    <3> QED
      BY <2>1, <3>1 DEF LockedExist
  <2>3. CASE SettleLine(p)
    <3>1. Locked' = IF Exists(stock[p]) THEN Locked \cup {p} ELSE Locked
      BY <2>3, SettleLineReads
    <3> QED
      BY <2>1, <3>1 DEF LockedExist
  <2> QED
    BY <1>2, <2>2, <2>3
<1>3. ASSUME txn'.rows = NoRows PROVE LockedExist'
  BY <1>3 DEF LockedExist, Locked, NoRows
<1>4. ASSUME NEW cart \in Carts, NEW op \in {"reserve", "release", "finalize"}, Begin(op, cart)
      PROVE  LockedExist'
  BY <1>3, <1>4 DEF Begin
<1>5. ASSUME NEW p \in Products, RejectLine(p) PROVE LockedExist'
  BY <1>3, <1>5 DEF RejectLine, NoTxn
<1>6. Commit \/ Rollback => LockedExist'
  BY <1>3 DEF Commit, Rollback, NoTxn
<1>7. AdminNext => LockedExist'
  <2> SUFFICES ASSUME AdminNext PROVE LockedExist'
    OBVIOUS
  <2>1. txn' = txn /\ Locked \subseteq Products
    BY RequestWrites, CartsAssumption DEF ReadInv, TypeOK, TxnOK, NoCart
  <2>2. \A p \in Locked : stock'[p] = stock[p]
    BY <2>1, RequestWrites DEF ReadInv, TypeOK
  <2> QED
    BY <2>1, <2>2 DEF LockedExist, Locked
<1> QED
  BY <1>1, <1>2, <1>4, <1>5, <1>6, <1>7 DEF HandlerNext

LEMMA WholeOrderStep ==
  ASSUME ReadInv, LockedExist, [HandlerNext \/ AdminNext]_vars
  PROVE  [txn' # txn /\ stock' # stock => Ledger!Next \/ AppearedSince]_vars
<1> SUFFICES ASSUME txn' # txn, stock' # stock, ~AppearedSince PROVE Ledger!Next
  OBVIOUS
<1>1. Commit
  BY HandlerReads, RequestWrites DEF ReadInv, vars
<1>2. MissingSkipped
  <2>1. txn.todo = {}
    BY <1>1 DEF Commit
  <2>2. \A p \in DOMAIN txn.cart : p \notin Locked => txn.op # "reserve" /\ ~Exists(stock[p])
    BY <2>1 DEF AppearedSince, ReadInv, ReadsStayValid
  <2> QED
    BY <2>1, <2>2 DEF MissingSkipped, LockedExist
<1>3. PICK cart \in Carts :
         \/ Ledger!ReserveOrder(cart)
         \/ Ledger!ReleaseOrder(cart)
         \/ Ledger!FinalizeOrder(cart)
  BY <1>1, <1>2, CommitIsWholeOrder
<1> QED
  BY <1>3 DEF Ledger!Next

\* Whatever the administrators save while a transaction works, its commit is
\* what its whole order does to the rows as they are by then, unless a product
\* it skipped has appeared (inventory.service.ts:190-381 against 54 and 141).
THEOREM OrdersAreWhole == Spec => CommitsAreWholeOrders
<1>1. Init => LockedExist
  BY DEF Init, LockedExist, Locked, NoTxn, NoRows
<1> QED
  BY ReadsInit, ReadsNext, LockedExistStep, WholeOrderStep, <1>1, PTL DEF Spec, CommitsAreWholeOrders

-------------------------------------------------------------------------------
(* The order handlers alone.  Which lines a transaction may skip is part of  *)
(* the invariant too; without it nothing is known of the rows that Commit    *)
(* leaves alone.                                                             *)

HandlerInv == ReadInv /\ StockBalance /\ MissingSkipped

\* A line is skipped only where its product is missing.
LEMMA SettleLineSkips ==
  ASSUME HandlerInv, NEW p \in Products, ReserveLine(p) \/ SettleLine(p)
  PROVE  MissingSkipped'
<1>1. /\ p \in txn.todo /\ p \in DOMAIN txn.cart /\ stock' = stock
      /\ txn'.op = txn.op /\ txn'.cart = txn.cart /\ txn'.todo = txn.todo \ {p}
  BY CartLines DEF ReserveLine, SettleLine, Active, HandlerInv, ReadInv, TypeOK, TxnOK
<1>2. CASE ReserveLine(p)
  <2>1. Locked' = Locked \cup {p} /\ txn.op = "reserve"
    BY <1>2 DEF ReserveLine, HandlerInv, ReadInv, TypeOK, TxnOK, Locked, WithRow
  <2> QED
    BY <1>1, <2>1 DEF HandlerInv, MissingSkipped
<1>3. CASE SettleLine(p)
  <2>1. /\ Locked' = IF Exists(stock[p]) THEN Locked \cup {p} ELSE Locked
        /\ txn.op # "reserve"
    BY <1>3, SettleLineReads DEF HandlerInv, SettleLine
  <2> QED
    BY <1>1, <2>1 DEF HandlerInv, MissingSkipped
<1> QED
  BY <1>2, <1>3

\* Every step of a handler keeps the invariant and is a step of the ledger or
\* invisible to it.
LEMMA HandlerStep ==
  ASSUME HandlerInv, [HandlerNext]_vars
  PROVE  HandlerInv' /\ [Ledger!Next]_stock
<1>1. ReadInv'
  BY ReadsNext DEF HandlerInv
<1>2. CASE UNCHANGED vars
  BY <1>1, <1>2 DEF vars, HandlerInv, StockBalance, MissingSkipped, Locked
<1>3. CASE Commit
  <2>1. MissingSkipped'
    BY <1>3 DEF Commit, MissingSkipped, Locked, NoTxn, NoRows, NoCart
  <2>2. StockBalance'
    BY <1>3, CommittedIsBalanced DEF HandlerInv, StockBalance
  <2>3. PICK cart \in Carts :
           \/ Ledger!ReserveOrder(cart)
           \/ Ledger!ReleaseOrder(cart)
           \/ Ledger!FinalizeOrder(cart)
    BY <1>3, CommitIsWholeOrder DEF HandlerInv
  <2>4. Ledger!Next
    BY <2>3 DEF Ledger!Next
  <2> QED
    BY <1>1, <2>1, <2>2, <2>4 DEF HandlerInv
<1>4. CASE HandlerNext /\ ~Commit
  <2>1. UNCHANGED stock
    BY <1>4, HandlerReads DEF HandlerInv
  <2>2. MissingSkipped'
    <3>1. ASSUME NEW cart \in Carts, NEW op \in {"reserve", "release", "finalize"}, Begin(op, cart)
          PROVE  MissingSkipped'
      BY <3>1 DEF Begin, MissingSkipped, Locked, NoRows
    <3>2. ASSUME NEW p \in Products, RejectLine(p) PROVE MissingSkipped'
      BY <3>2 DEF RejectLine, MissingSkipped, Locked, NoTxn, NoRows, NoCart
    <3>3. Rollback => MissingSkipped'
      BY DEF Rollback, MissingSkipped, Locked, NoTxn, NoRows, NoCart
    <3> QED
      BY <1>4, <3>1, <3>2, <3>3, SettleLineSkips DEF HandlerNext
  <2> QED
    BY <1>1, <2>1, <2>2 DEF HandlerInv, StockBalance
<1> QED
  BY <1>2, <1>3, <1>4

LEMMA HandlerInit == Init => HandlerInv /\ Ledger!Init
<1> SUFFICES ASSUME Init PROVE HandlerInv /\ Ledger!Init
  OBVIOUS
<1>1. ReadInv
  BY ReadsInit
<1>2. StockBalance
  BY InitRowsAssumption DEF Init, StockBalance
<1>3. MissingSkipped
  BY DEF Init, MissingSkipped, Locked, NoTxn, NoRows, NoCart
<1>4. Ledger!Init
  BY <1>1, <1>2 DEF Ledger!Init, Ledger!Row, Ledger!Balanced, ReadInv, TypeOK, StockBalance, Row, Balanced
<1> QED
  BY <1>1, <1>2, <1>3, <1>4 DEF HandlerInv

\* Whatever the handlers do, for every set of products and orders, a reader
\* never sees a reservation that is not covered or counters that disagree
\* (inventory.service.ts:190-381).
THEOREM HandlersKeepBalance == HandlerSpec => []StockBalance
<1>1. HandlerInv => StockBalance
  BY DEF HandlerInv
<1> QED
  BY HandlerInit, HandlerStep, <1>1, PTL DEF HandlerSpec

\* The line-by-line transactions implement the all-or-nothing ledger
\* (inventory.service.ts:190-381).
THEOREM HandlersKeepLedger == HandlerSpec => KeepsLedger
BY HandlerInit, HandlerStep, PTL DEF HandlerSpec, KeepsLedger, Ledger!Spec
===============================================================================
