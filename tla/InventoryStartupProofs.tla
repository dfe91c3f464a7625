------------------------- MODULE InventoryStartupProofs -------------------------
(***************************************************************************)
(* For every shop, list of seeds and number of restarts: no start of the   *)
(* service changes an item that is there, and a seeding that was not cut   *)
(* short leaves the whole list.                                            *)
(***************************************************************************)
EXTENDS InventoryStartup, InventoryServiceProofs

-------------------------------------------------------------------------------
(* Requests never take away a row: they save entities that exist. *)

EditsExist == \A a \in Admins : edit[a] # NoEdit => Exists(edit[a].entity)

LEMMA SaveWriteKeepsRows ==
  ASSUME TypeOK, EditsExist, NEW a \in Admins, SaveWrite(a),
         NEW p \in Products, Exists(stock[p])
  PROVE  Exists(stock'[p])
<1> DEFINE q == edit[a].product
           row == Merged(stock[q], edit[a].loaded, edit[a].entity)
<1>1. /\ q \in Products /\ stock[q] \in Row /\ edit[a].loaded \in Row /\ edit[a].entity \in Row
      /\ Exists(edit[a].entity)
  BY DEF TypeOK, SaveWrite, Write, Edit, NoEdit, EditsExist
<1>2. row.status = IF edit[a].entity.status # edit[a].loaded.status
                   THEN edit[a].entity.status ELSE stock[q].status
  BY <1>1 DEF Merged, Row
<1>3. stock' = stock \/ stock' = [stock EXCEPT ![q] = row]
  BY DEF SaveWrite, Write
<1>4. q = p => Exists(row)
  BY <1>1, <1>2 DEF Exists
<1> HIDE DEF row, q
<1> QED
  BY <1>1, <1>3, <1>4 DEF TypeOK

\* A slot that is given the entity e, and what the others hold is kept.
LEMMA EditsStayExistent ==
  ASSUME TypeOK, EditsExist, NEW a \in Admins, NEW e, e # NoEdit => Exists(e.entity),
         edit' = [edit EXCEPT ![a] = e]
  PROVE  EditsExist'
BY DEF TypeOK, EditsExist

LEMMA RequestKeepsRows ==
  ASSUME TypeOK, EditsExist, AdminNext
  PROVE  EditsExist' /\ \A p \in Products : Exists(stock[p]) => Exists(stock'[p])
<1>1. ASSUME NEW a \in Admins, NEW p \in Products, NEW q \in Products, NEW quantity \in Int,
             UpdateRead(a, p, q, quantity)
      PROVE  EditsExist' /\ stock' = stock
  <2> DEFINE e == [pc |-> "read", op |-> "update", product |-> q,
                   entity |-> WithStock(stock[p], quantity, stock[p].reserved),
                   loaded |-> AbsentRow, wasOut |-> stock[p].available = 0]
  <2>1. edit' = [edit EXCEPT ![a] = e] /\ Exists(e.entity)
    BY <1>1 DEF UpdateRead, WithStock, Exists
  <2> HIDE DEF e
  <2> QED
    BY <1>1, <2>1, EditsStayExistent DEF UpdateRead
<1>2. ASSUME NEW a \in Admins, NEW p \in Products, RemoveRead(a, p)
      PROVE  EditsExist' /\ stock' = stock
  <2> DEFINE e == [pc |-> "read", op |-> "remove", product |-> p,
                   entity |-> [stock[p] EXCEPT !.status = "INACTIVE"],
                   loaded |-> AbsentRow, wasOut |-> FALSE]
  <2>1. edit' = [edit EXCEPT ![a] = e] /\ Exists(e.entity)
    BY <1>2 DEF RemoveRead, TypeOK, Row, Exists
  <2> HIDE DEF e
  <2> QED
    BY <1>2, <2>1, EditsStayExistent DEF RemoveRead
<1>3. ASSUME NEW a \in Admins, NEW p \in Products, NEW quantity \in Nat,
             CreateRead(a, p, quantity)
      PROVE  EditsExist' /\ stock' = stock
  <2> DEFINE e == [pc |-> "read", op |-> "create", product |-> p,
                   entity |-> [quantity |-> quantity, reserved |-> 0, available |-> quantity,
                               status |-> "ACTIVE"],
                   loaded |-> AbsentRow, wasOut |-> FALSE]
  <2>1. edit' = [edit EXCEPT ![a] = e] /\ Exists(e.entity)
    BY <1>3 DEF CreateRead, Exists
  <2> HIDE DEF e
  <2> QED
    BY <1>3, <2>1, EditsStayExistent DEF CreateRead
<1>4. ASSUME NEW a \in Admins, SaveLoad(a) PROVE EditsExist' /\ stock' = stock
  <2> DEFINE row == stock[edit[a].product]
             entity == IF edit[a].op = "create" /\ Exists(row)
                       THEN [edit[a].entity EXCEPT !.reserved = row.reserved, !.status = row.status]
                       ELSE edit[a].entity
             e == [edit[a] EXCEPT !.pc = "loaded", !.loaded = row, !.entity = entity]
  <2>1. /\ edit[a] \in Edit /\ edit[a] # NoEdit /\ edit[a].entity \in Row
        /\ Exists(edit[a].entity)
    BY <1>4 DEF SaveLoad, TypeOK, Edit, NoEdit, EditsExist
  <2>2. edit' = [edit EXCEPT ![a] = e]
    BY <1>4, <2>1 DEF SaveLoad, Edit, NoEdit
  <2>3. Exists(entity)
    BY <2>1 DEF Exists, Row
  <2>4. e.entity = entity
    BY <2>1 DEF Edit, NoEdit
  <2> HIDE DEF e, entity, row
  <2> QED
    BY <1>4, <2>2, <2>3, <2>4, EditsStayExistent DEF SaveLoad
<1>5. ASSUME NEW a \in Admins, SaveWrite(a)
      PROVE  EditsExist' /\ \A p \in Products : Exists(stock[p]) => Exists(stock'[p])
  BY <1>5, SaveWriteKeepsRows, EditsStayExistent DEF SaveWrite, Write
<1> QED
  BY <1>1, <1>2, <1>3, <1>4, <1>5, QuantitiesAssumption DEF AdminNext, TypeOK, Row

\* Nor do orders: they change rows that exist.
LEMMA OrderKeepsRows ==
  ASSUME ReadInv, LockedExist, HandlerNext
  PROVE  /\ edit' = edit
         /\ \A p \in Products : Exists(stock'[p]) <=> Exists(stock[p])
<1>1. edit' = edit
  BY DEF HandlerNext, Begin, ReserveLine, RejectLine, SettleLine, Commit, Rollback
<1>2. CASE UNCHANGED stock
  BY <1>1, <1>2
<1>3. CASE Commit
  <2> SUFFICES ASSUME NEW p \in Products PROVE Exists(stock'[p]) <=> Exists(stock[p])
    BY <1>1
  <2>1. stock'[p] = IF p \in Locked THEN txn.rows[p] ELSE stock[p]
    BY <1>3 DEF Commit
  <2>2. ASSUME p \in Locked PROVE Exists(LineRow(p))
    <3>1. Exists(stock[p]) /\ stock[p] \in Row /\ txn.op \in {"reserve", "release", "finalize"}
      BY <1>3, <2>2 DEF LockedExist, ReadInv, TypeOK, TxnOK, Commit, Active
    <3> QED
      BY <3>1 DEF LineRow, Reserve, Release, Finalize, WithStock, Exists, Row
  <2> QED
    BY <2>1, <2>2 DEF ReadInv, ReadsStayValid, LockedExist
<1> QED
  BY <1>2, <1>3, HandlerReads

-------------------------------------------------------------------------------
(* The seeder.  The invariant says which seeds are saved while it runs, and  *)
(* what a start finds that follows a seeding.                                *)

ListSaved == \A i \in DOMAIN Seeds : ~Missing(Seeds[i].product)
NothingSaved == \A p \in Products : Missing(p)

SeedingInv ==
  /\ ReadInv /\ LockedExist /\ EditsExist /\ saved \in Nat
  /\ phase \in {"starting", "seeding", "open"}
  /\ phase = "starting" /\ catalogue = "seeded" => ListSaved \/ NothingSaved
  /\ phase = "seeding" =>
       /\ saved <= Len(Seeds)
       /\ \A i \in 1..saved : ~Missing(Seeds[i].product)
       /\ \A i \in saved + 1..Len(Seeds) : Missing(Seeds[i].product)
       /\ saved = 0 => NothingSaved
  /\ phase = "open" /\ catalogue = "seeded" => ListSaved

\* The seeds are a list of distinct products.
LEMMA SeedList ==
  /\ Len(Seeds) \in Nat /\ DOMAIN Seeds = 1..Len(Seeds)
  /\ \A i \in DOMAIN Seeds : Seeds[i].product \in Products /\ Seeds[i].quantity \in Nat
  /\ \A i, j \in DOMAIN Seeds : Seeds[i].product = Seeds[j].product => i = j
<1> DEFINE Seed == [product : Products, quantity : Nat]
<1>1. Seeds \in Seq(Seed)
  BY SeedsAssumption
<1>2. /\ Len(Seeds) \in Nat /\ DOMAIN Seeds = 1..Len(Seeds)
      /\ \A i \in 1..Len(Seeds) : Seeds[i] \in Seed
  <2> HIDE DEF Seed
  <2> QED
    BY <1>1
<1>3. \A i \in DOMAIN Seeds : Seeds[i].product \in Products /\ Seeds[i].quantity \in Nat
  BY <1>2
<1>4. \A i, j \in DOMAIN Seeds : Seeds[i].product = Seeds[j].product => i = j
  BY SeedsAssumption
<1> QED
  BY <1>2, <1>3, <1>4

LEMMA StartupStarts == StartupInit => SeedingInv
<1> SUFFICES ASSUME StartupInit PROVE SeedingInv
  OBVIOUS
<1>1. ReadInv /\ LockedExist /\ EditsExist
  BY ReadsInit DEF StartupInit, Init, LockedExist, Locked, NoTxn, NoRows, EditsExist
<1> QED
  BY <1>1 DEF SeedingInv, StartupInit

\* A row that is seeded was missing, and exists from then on.
LEMMA SeedItemSteps ==
  ASSUME SeedingInv, SeedItem
  PROVE  /\ SeedingInv'
         /\ \A p \in Products : Exists(stock[p]) => stock'[p] = stock[p]
<1> DEFINE i == saved + 1
           p == Seeds[i].product
           row == SeedRow(stock[p], Seeds[i].quantity)
<1>1. /\ i \in DOMAIN Seeds /\ p \in Products /\ Seeds[i].quantity \in Nat /\ stock[p] \in Row
      /\ Missing(p)
  BY SeedList DEF SeedingInv, SeedItem, ReadInv, TypeOK
<1>2. row \in Row /\ Exists(row)
  BY <1>1 DEF SeedRow, WithStock, Row, Exists
<1>3. stock' = [stock EXCEPT ![p] = row]
  BY DEF SeedItem
<1>4. /\ stock' \in [Products -> Row] /\ stock'[p] = row
      /\ \A q \in Products \ {p} : stock'[q] = stock[q]
  <2> HIDE DEF row, p
  <2> QED
    BY <1>1, <1>2, <1>3 DEF SeedingInv, ReadInv, TypeOK
<1>5. TypeOK' /\ EditsExist'
  BY <1>4 DEF SeedItem, SeedingInv, ReadInv, TypeOK, TxnOK, Locked, Active, EditsExist
<1>6. \A q \in Products : Exists(stock[q]) => stock'[q] = stock[q]
  BY <1>1, <1>4 DEF Missing
<1>9. ReadsStayValid' /\ LockedExist'
  <2>1. txn' = txn /\ Locked \subseteq Products
    BY CartsAssumption DEF SeedItem, SeedingInv, ReadInv, TypeOK, TxnOK, NoCart
  <2>2. \A q \in Locked : Exists(stock[q]) /\ stock'[q] = stock[q]
    BY <2>1, <1>6 DEF SeedingInv, LockedExist
  <2> QED
    BY <2>1, <2>2 DEF SeedingInv, ReadInv, ReadsStayValid, LockedExist, Locked, LineRow
<1>7. \A j \in 1..i : ~Missing(Seeds[j].product)'
  <2> SUFFICES ASSUME NEW j \in 1..i PROVE Exists(stock'[Seeds[j].product])
    BY DEF Missing
  <2>1. CASE j = i
    BY <1>2, <1>4, <2>1
  <2>2. CASE j # i
    <3>1. j \in 1..saved /\ j \in DOMAIN Seeds
      BY <2>2, <1>1, SeedList DEF SeedingInv
    <3>2. Exists(stock[Seeds[j].product]) /\ Seeds[j].product \in Products
      BY <3>1, SeedList DEF SeedingInv, SeedItem, Missing
    <3> QED
      BY <3>2, <1>6
  <2> QED
    BY <2>1, <2>2
<1>8. \A j \in i + 1..Len(Seeds) : Missing(Seeds[j].product)'
  <2> SUFFICES ASSUME NEW j \in i + 1..Len(Seeds) PROVE ~Exists(stock'[Seeds[j].product])
    BY DEF Missing
  <2>1. j \in saved + 1..Len(Seeds) /\ j # i /\ j \in DOMAIN Seeds
    BY SeedList DEF SeedingInv
  <2>2. Missing(Seeds[j].product) /\ Seeds[j].product \in Products \ {p}
    BY <2>1, <1>1, SeedList DEF SeedingInv, SeedItem
  <2> QED
    BY <2>2, <1>4 DEF Missing
<1> QED
  BY <1>5, <1>6, <1>7, <1>8, <1>9, SeedList DEF SeedingInv, ReadInv, SeedItem

\* A step that is none of the requests or the orders leaves them where they are.
LEMMA NothingElseReads ==
  ASSUME ReadInv, LockedExist, EditsExist, UNCHANGED vars
  PROVE  (ReadInv /\ LockedExist /\ EditsExist)' /\ UNCHANGED stock
BY ReadsNext, LockedExistStep DEF vars, EditsExist

\* Every step keeps the invariant, and only requests and commits change rows
\* that exist.
LEMMA StartupSteps ==
  ASSUME SeedingInv, [StartupNext]_startupVars
  PROVE  /\ SeedingInv'
         /\ [phase # "open" /\ txn' = txn =>
               \A p \in Products : Exists(stock[p]) => stock'[p] = stock[p]]_startupVars
<1> USE SeedList
<1>1. ASSUME UNCHANGED vars PROVE (ReadInv /\ LockedExist /\ EditsExist)' /\ UNCHANGED stock
  BY <1>1, NothingElseReads DEF SeedingInv
<1>2. CASE UNCHANGED startupVars
  BY <1>1, <1>2 DEF startupVars, SeedingInv, ListSaved, NothingSaved, Missing
<1>3. CASE CountItems
  BY <1>1, <1>3 DEF CountItems, SeedingInv, ListSaved, NothingSaved, Missing
<1>4. CASE SeedItem
  BY <1>4, SeedItemSteps
<1>5. CASE SeedingEnds
  BY <1>1, <1>5 DEF SeedingEnds, SeedingInv, ListSaved, Missing
<1>6. CASE SeedingFails
  BY <1>1, <1>6 DEF SeedingFails, SeedingInv
<1>7. CASE Request
  <2>1. ReadInv' /\ LockedExist' /\ EditsExist' /\ \A p \in Products : Exists(stock[p]) => Exists(stock'[p])
    BY <1>7, ReadsNext, LockedExistStep, RequestKeepsRows DEF Request, SeedingInv, ReadInv
  <2> QED
    BY <1>7, <2>1 DEF Request, SeedingInv, ListSaved, Missing
<1>8. CASE Order
  <2>1. ReadInv' /\ LockedExist'
    BY <1>8, ReadsNext, LockedExistStep DEF Order, SeedingInv
  <2>2. edit' = edit /\ \A p \in Products : Exists(stock'[p]) <=> Exists(stock[p])
    BY <1>8, OrderKeepsRows DEF Order, SeedingInv
  <2>3. /\ ListSaved' <=> ListSaved
        /\ NothingSaved' <=> NothingSaved
        /\ \A i \in DOMAIN Seeds : Missing(Seeds[i].product)' <=> Missing(Seeds[i].product)
    BY <2>2 DEF ListSaved, NothingSaved, Missing
  <2>4. SeedingInv'
    BY <1>8, <2>1, <2>2, <2>3 DEF Order, SeedingInv, EditsExist
  <2>5. txn' = txn => stock' = stock
    BY <1>8, HandlerReads DEF Order, SeedingInv, Commit, NoTxn, Active, ReadInv
  <2> QED
    BY <2>4, <2>5
<1>9. CASE Restart
  <2>1. TypeOK' /\ EditsExist'
    BY <1>9, IdleTxn DEF Restart, SeedingInv, ReadInv, TypeOK, EditsExist, Edit
  <2>2. ReadsStayValid' /\ LockedExist'
    BY <1>9, NoTxnReads DEF Restart, LockedExist, Locked, NoTxn, NoRows
  <2>3. phase = "seeding" /\ saved \notin 1..Len(Seeds) - 1 => ListSaved \/ NothingSaved
    BY DEF SeedingInv, ListSaved
  <2>4. catalogue' = "seeded" => (ListSaved \/ NothingSaved)'
    BY <1>9, <2>3 DEF Restart, SeedingInv, ListSaved, NothingSaved, Missing
  <2> QED
    BY <1>9, <2>1, <2>2, <2>4 DEF Restart, SeedingInv, ReadInv
<1> QED
  BY <1>2, <1>3, <1>4, <1>5, <1>6, <1>7, <1>8, <1>9 DEF StartupNext

\* No start of the service changes an item that is there
\* (inventory-seeder.service.ts:22-36).
THEOREM StartsSpareItems == StartupSpec => SeedingSparesItems
BY StartupStarts, StartupSteps, PTL DEF StartupSpec, SeedingSparesItems

\* A service that opened after seeding an empty table has the whole list,
\* unless a seeding was cut short (inventory-seeder.service.ts:24-41).
THEOREM SeedingIsWhole == StartupSpec => []SeededCatalogueIsWhole
<1>1. SeedingInv => SeededCatalogueIsWhole
  BY DEF SeedingInv, SeededCatalogueIsWhole, ListSaved
<1> QED
  BY StartupStarts, StartupSteps, <1>1, PTL DEF StartupSpec
===============================================================================
