----------------------------- MODULE OrderSagaProofs -----------------------------
(***************************************************************************)
(* The Order Service and the Inventory Service together, for any number of *)
(* orders, requests, products and faults: types, balanced stock, stock for *)
(* paid orders only, one reservation per order and fault, and what the     *)
(* rows say about the orders that hold stock.                              *)
(***************************************************************************)
EXTENDS OrderSaga, OrderServiceProofs, StockProofs, FiniteSetTheorems

SagaInv == OrderInv /\ SagaTypeOK /\ StockBalance

LEMMA SagaInitInv == SagaInit => SagaInv
<1> SUFFICES ASSUME SagaInit PROVE SagaInv
  OBVIOUS
<1>1. OrderInv
  BY OrderInit DEF SagaInit
<1>2. StockBalance
  BY InitStockAssumption DEF SagaInit, StockBalance
<1>3. SagaTypeOK
  BY <1>1, InitStockAssumption DEF SagaInit, SagaTypeOK, OrderInv
<1> QED
  BY <1>1, <1>2, <1>3 DEF SagaInv

-------------------------------------------------------------------------------
(* What one side leaves of the other's state *)

\* The Order Service only ever adds to inventory_queue.
LEMMA OrdersOnlySend ==
  ASSUME OrderInv, OrderStep, invQ # <<>>
  PROVE  invQ' # <<>>
<1>1. invQ' = invQ \/ \E m : invQ' = Append(invQ, m) \/ \E n : invQ' = invQ \o <<m, n>>
  BY DEF OrderStep, CallArrives, Cancel, Patch, RequestProgress, SavePending, Pay, Save, Record, Publish,
     ConsumerStep, HandleReserved, CancelRead, CancelReject, CancelSave, CancelUnrecorded,
     OrderFault, PublishFails, PublishTwice, OrderCrash, ReplyExpires
<1>2. invQ \in Seq(Message(OrderEvents)) /\ Len(invQ) > 0
  BY DEF OrderInv, TypeOK
<1>3. ASSUME NEW m PROVE Append(invQ, m) # <<>>
  BY <1>2
<1>4. ASSUME NEW m, NEW n PROVE invQ \o <<m, n>> # <<>>
  BY <1>2
<1> QED
  BY <1>1, <1>3, <1>4

\* The handlers of the Inventory Service take the head of inventory_queue and
\* add to order_queue; they do not touch an order.
LEMMA InventoryLeavesOrders ==
  ASSUME OrderInv, UNCHANGED orderVars,
         invQ' = invQ \/ (invQ # <<>> /\ invQ' = Tail(invQ)),
         ordQ' = ordQ \/ \E m \in Message(ReplyEvents) : ordQ' = Append(ordQ, m),
         notified' \subseteq (OrderEvents \cup ReplyEvents) \X Orders,
         faults' \in 0 .. MaxFaults
  PROVE  OrderInv'
<1>1. invQ' \in Seq(Message(OrderEvents))
  BY HeadAndTail DEF OrderInv, TypeOK
<1>2. ordQ' \in Seq(Message(ReplyEvents)) /\ (ordQ # <<>> => ordQ' # <<>>)
  BY Appended DEF OrderInv, TypeOK
<1> QED
  BY <1>1, <1>2 DEF OrderInv, TypeOK, orderVars, DecisionsFollowRules, HistoryFollowsRules

\* The order of the message at the head, and its cart.
LEMMA SubjectCart ==
  ASSUME OrderInv, invQ # <<>>
  PROVE  /\ Subject \in Orders
         /\ DOMAIN Cart[Subject] \subseteq Products
         /\ \A p \in DOMAIN Cart[Subject] : Cart[Subject][p] \in Nat
         /\ \A type \in ReplyEvents : [type |-> type, order |-> Subject] \in Message(ReplyEvents)
<1>1. Head(invQ) \in Message(OrderEvents)
  BY HeadAndTail DEF OrderInv, TypeOK
<1> QED
  BY <1>1, CartAssumption DEF Subject, Message

LEMMA FaultCounted == ASSUME OrderInv, NEW kind, Fault(kind) PROVE faults' \in 0 .. MaxFaults
BY FaultsAssumption DEF OrderInv, TypeOK, Fault
-------------------------------------------------------------------------------
(* The steps *)

LEMMA PlaceOrderInv ==
  ASSUME SagaInv, NEW r \in Requests, NEW o \in Orders, PlaceOrder(r, o)
  PROVE  SagaInv'
<1>1. OrderInv' /\ UNCHANGED <<invQ, inventoryVars>>
  BY ValidateInv DEF SagaInv, PlaceOrder, Validate
<1> QED
  BY <1>1 DEF SagaInv, SagaTypeOK, OrderInv, inventoryVars, StockBalance

LEMMA OrderSideInv ==
  ASSUME SagaInv, OrderStep, UNCHANGED inventoryVars
  PROVE  SagaInv'
<1>1. OrderInv' /\ (invQ # <<>> => invQ' # <<>>)
  BY OrderStepInv, OrdersOnlySend DEF SagaInv
<1> QED
  BY <1>1 DEF SagaInv, SagaTypeOK, OrderInv, inventoryVars, StockBalance

\* The handlers that change the stock: the order's rows as a whole.
LEMMA StockStepInv ==
  ASSUME SagaInv, ReserveStock \/ ReleaseStock \/ FinalizeStock
  PROVE  SagaInv'
<1>1. invQ # <<>> /\ UNCHANGED vars
  BY DEF ReserveStock, ReleaseStock, FinalizeStock, Handling
<1>2. OrderInv'
  BY <1>1, OrderNextInv DEF SagaInv
<1>3. /\ Subject \in Orders
      /\ DOMAIN Cart[Subject] \subseteq Products
      /\ \A p \in DOMAIN Cart[Subject] : Cart[Subject][p] \in Nat
  BY <1>1, SubjectCart DEF SagaInv
<1>4. stock' \in [Products -> Row] /\ \A p \in Products : Balanced(stock'[p])
  <2>1. stock \in [Products -> Row] /\ \A p \in Products : Balanced(stock[p])
    BY DEF SagaInv, SagaTypeOK, StockBalance
  <2>2. \/ CanReserveAll(stock, Cart[Subject]) /\ stock' = ReserveAll(stock, Cart[Subject])
        \/ stock' = ReleaseAll(stock, Cart[Subject])
        \/ stock' = FinalizeAll(stock, Cart[Subject])
    BY DEF ReserveStock, ReleaseStock, FinalizeStock
  <2> QED
    BY <1>3, <2>1, <2>2, OrderKeepsBalance
<1>5. held' \in [Orders -> Nat] /\ finalized' \in [Orders -> Nat]
  BY <1>3 DEF SagaInv, SagaTypeOK, ReserveStock, ReleaseStock, FinalizeStock, GiveBack, AtLeastZero
<1>6. handler' \in {"reserved", "handled"} /\ invQ' # <<>>
  BY <1>1 DEF ReserveStock, ReleaseStock, FinalizeStock, vars
<1> QED
  BY <1>2, <1>4, <1>5, <1>6 DEF SagaInv, SagaTypeOK, StockBalance, OrderInv

\* The handlers and faults that leave the stock alone.
LEMMA OtherInventoryInv ==
  ASSUME SagaInv,
         \/ RefuseOrder \/ AnswerReserved \/ AnswerFailed \/ Settle
         \/ InventoryFault
  PROVE  SagaInv'
<1>1. UNCHANGED <<stock, held, finalized, orderVars>>
  BY DEF RefuseOrder, AnswerReserved, AnswerFailed, Answer, Settle, InventoryFault, HandlerFails,
     AnswerFails, InventoryCrash, EventExpires, vars, orderVars, inventoryVars
<1>2. invQ # <<>>
  BY DEF RefuseOrder, AnswerReserved, AnswerFailed, Answer, Settle, InventoryFault, HandlerFails,
     AnswerFails, InventoryCrash, EventExpires, Handling, SagaInv, SagaTypeOK
<1>3. invQ' = invQ \/ (invQ' = Tail(invQ) /\ handler' = "idle")
  BY DEF RefuseOrder, AnswerReserved, AnswerFailed, Answer, Settle, InventoryFault, HandlerFails,
     AnswerFails, InventoryCrash, EventExpires, vars, inventoryVars
<1>4. ordQ' = ordQ \/ \E m \in Message(ReplyEvents) : ordQ' = Append(ordQ, m)
  BY <1>2, SubjectCart
     DEF RefuseOrder, AnswerReserved, AnswerFailed, Answer, Settle, InventoryFault, HandlerFails,
     AnswerFails, InventoryCrash, EventExpires, vars, SagaInv, ReplyEvents
<1>5. notified' \subseteq (OrderEvents \cup ReplyEvents) \X Orders
  BY <1>2, SubjectCart
     DEF RefuseOrder, AnswerReserved, AnswerFailed, Answer, Settle, InventoryFault, HandlerFails,
     AnswerFails, InventoryCrash, EventExpires, vars, SagaInv, OrderInv, TypeOK, ReplyEvents
<1>6. faults' \in 0 .. MaxFaults
  <2>1. faults \in 0 .. MaxFaults
    BY DEF SagaInv, OrderInv, TypeOK
  <2> QED
    BY <2>1, FaultCounted
       DEF RefuseOrder, AnswerReserved, AnswerFailed, Settle, InventoryFault, HandlerFails,
       AnswerFails, InventoryCrash, EventExpires, vars, SagaInv
<1>7. OrderInv'
  BY <1>1, <1>2, <1>3, <1>4, <1>5, <1>6, InventoryLeavesOrders DEF SagaInv
<1>8. handler' \in {"idle", "failing", "handled", "stuck"}
  BY DEF RefuseOrder, AnswerReserved, AnswerFailed, Settle, InventoryFault, HandlerFails,
     AnswerFails, InventoryCrash, EventExpires, inventoryVars, SagaInv, SagaTypeOK
<1> QED
  BY <1>1, <1>2, <1>3, <1>7, <1>8 DEF SagaInv, SagaTypeOK, OrderInv, StockBalance

LEMMA SagaNextInv == ASSUME SagaInv, [SagaNext]_sagaVars PROVE SagaInv'
<1>1. CASE UNCHANGED sagaVars
  <2>1. OrderInv'
    BY <1>1, OrderNextInv DEF SagaInv, sagaVars
  <2> QED
    BY <1>1, <2>1 DEF SagaInv, SagaTypeOK, OrderInv, StockBalance, sagaVars, vars, inventoryVars
<1> QED
  BY <1>1, PlaceOrderInv, OrderSideInv, StockStepInv, OtherInventoryInv DEF SagaNext, InventoryStep

\* Every variable of the two services and their queues keeps its type, and the
\* inventory handler is busy only while its message is in the queue
\* (order.service.ts, inventory.controller.ts:63-201).
THEOREM SagaTyping == SagaSpec => []SagaTypeOK
<1>1. SagaInv => SagaTypeOK
  BY DEF SagaInv
<1> QED
  BY SagaInitInv, SagaNextInv, <1>1, PTL DEF SagaSpec

\* Messages lost, sent twice, handled twice or in the wrong order: the rows of
\* the stock stay balanced (inventory.service.ts:190-381).
THEOREM SagaKeepsBalance == SagaSpec => []StockBalance
<1>1. SagaInv => StockBalance
  BY DEF SagaInv
<1> QED
  BY SagaInitInv, SagaNextInv, <1>1, PTL DEF SagaSpec

-------------------------------------------------------------------------------
(* Paid orders: the invariant of OrderServiceProofs, carried on to the stock. *)

LEMMA SagaPaidStep ==
  ASSUME SagaInv, PaidInv, ReservedWasPaid, "CONFIRMED" \notin PatchTargets, [SagaNext]_sagaVars
  PROVE  PaidInv' /\ ReservedWasPaid'
<1> USE DEF SagaInv
<1>1. CASE UNCHANGED sagaVars
  BY <1>1 DEF PaidInv, ConfirmedIsPaid, DecisionsArePaid, StockIsAskedForPaidOrders, ReservedWasPaid,
     sagaVars, vars, inventoryVars
<1>2. ASSUME NEW r \in Requests, NEW o \in Orders, PlaceOrder(r, o)
      PROVE  PaidInv' /\ ReservedWasPaid'
  BY <1>2, ValidatePaid DEF PlaceOrder, Validate, ReservedWasPaid, inventoryVars
<1>3. CASE OrderStep /\ UNCHANGED inventoryVars
  <2>1. paid \subseteq paid'
    BY <1>3 DEF OrderStep, CallArrives, Cancel, Patch, RequestProgress, SavePending, Pay, Save, Record,
       Publish, ConsumerStep, HandleReserved, CancelRead, CancelReject, CancelSave, CancelUnrecorded,
       OrderFault, PublishFails, PublishTwice, OrderCrash, ReplyExpires
  <2> QED
    BY <1>3, <2>1, OrderStepPaid DEF ReservedWasPaid, inventoryVars
<1>4. CASE ReserveStock \/ ReleaseStock \/ FinalizeStock
  <2>1. UNCHANGED vars /\ invQ # <<>>
    BY <1>4 DEF ReserveStock, ReleaseStock, FinalizeStock, Handling
  <2>2. PaidInv'
    BY <2>1 DEF vars, PaidInv, ConfirmedIsPaid, DecisionsArePaid, StockIsAskedForPaidOrders
  <2>3. Subject \in Orders
    BY <2>1, SubjectCart
  <2>4. CASE ReserveStock \/ FinalizeStock
    <3>1. Subject \in paid
      <4>1. 1 \in DOMAIN invQ /\ Head(invQ) = invQ[1]
        BY <2>1 DEF OrderInv, TypeOK
      <4> QED
        BY <2>4, <4>1 DEF ReserveStock, FinalizeStock, Handling, Subject, PaidInv, StockIsAskedForPaidOrders
    <3>2. \A o \in Orders \ {Subject} : held'[o] = held[o] /\ finalized'[o] = finalized[o]
      BY <2>4 DEF ReserveStock, FinalizeStock, GiveBack, SagaTypeOK
    <3> QED
      BY <2>1, <2>2, <3>1, <3>2 DEF ReservedWasPaid, vars
  <2>5. CASE ReleaseStock
    <3>1. finalized' = finalized /\ \A o \in Orders : held'[o] <= held[o]
      <4>1. held \in [Orders -> Nat] /\ held' = [held EXCEPT ![Subject] = AtLeastZero(held[Subject] - 1)]
        BY <2>5 DEF ReleaseStock, GiveBack, SagaTypeOK
      <4>2. \A n \in Nat : AtLeastZero(n - 1) <= n
        BY DEF AtLeastZero
      <4>3. finalized' = finalized
        BY <2>5 DEF ReleaseStock
      <4> QED
        BY <2>3, <4>1, <4>2, <4>3
    <3>2. \A o \in Orders : held[o] \in Nat /\ held'[o] \in Nat
      BY <2>5 DEF ReleaseStock, GiveBack, AtLeastZero, SagaTypeOK
    <3>3. \A o \in Orders : held'[o] > 0 => held[o] > 0
      BY <3>1, <3>2
    <3> QED
      BY <2>1, <2>2, <3>1, <3>3 DEF ReservedWasPaid, vars
  <2> QED
    BY <1>4, <2>4, <2>5
<1>5. CASE RefuseOrder \/ AnswerReserved \/ AnswerFailed \/ Settle \/ InventoryFault
  <2>1. UNCHANGED <<status, slot, paid, held, finalized>>
    BY <1>5 DEF RefuseOrder, AnswerReserved, AnswerFailed, Answer, Settle, InventoryFault, HandlerFails,
       AnswerFails, InventoryCrash, EventExpires, vars, orderVars, inventoryVars
  <2>2. invQ' = invQ \/ (invQ # <<>> /\ invQ' = Tail(invQ))
    BY <1>5 DEF RefuseOrder, AnswerReserved, AnswerFailed, Answer, Settle, InventoryFault, HandlerFails,
       AnswerFails, InventoryCrash, EventExpires, vars, SagaTypeOK
  <2>3. PaidInv'
    BY <2>1, <2>2, InventoryTakesPaid
       DEF PaidInv, ConfirmedIsPaid, DecisionsArePaid, StockIsAskedForPaidOrders
  <2> QED
    BY <2>1, <2>3 DEF ReservedWasPaid
<1> QED
  BY <1>1, <1>2, <1>3, <1>4, <1>5 DEF SagaNext, InventoryStep

\* Unless an administrator sets CONFIRMED by hand, no stock is set aside or
\* taken off the shelves for an order that was not paid, whatever fails and
\* however requests and messages interleave (order.service.ts:66-78,
\* inventory.controller.ts:87).
THEOREM StockOfPaidOrdersOnly ==
  ASSUME "CONFIRMED" \notin PatchTargets
  PROVE  SagaSpec => []ReservedWasPaid
<1>1. SagaInit => SagaInv /\ PaidInv /\ ReservedWasPaid
  BY SagaInitInv, PaidInit DEF SagaInit, ReservedWasPaid
<1>2. SagaInv /\ PaidInv /\ ReservedWasPaid /\ [SagaNext]_sagaVars
        => SagaInv' /\ PaidInv' /\ ReservedWasPaid'
  BY SagaNextInv, SagaPaidStep
<1> QED
  BY <1>1, <1>2, PTL DEF SagaSpec

-------------------------------------------------------------------------------
(* How often a message is in a queue, from a position on *)

Waiting(q, m, first) == {i \in DOMAIN q : q[i] = m /\ i >= first}

LEMMA WaitingIsFinite ==
  ASSUME NEW S, NEW q \in Seq(S), NEW m, NEW first \in {1, 2}
  PROVE  IsFiniteSet(Waiting(q, m, first)) /\ Cardinality(Waiting(q, m, first)) \in Nat
<1>1. Waiting(q, m, first) \subseteq 1 .. Len(q) /\ Len(q) \in Int
  BY DEF Waiting
<1>2. IsFiniteSet(1 .. Len(q))
  BY <1>1, FS_Interval
<1>3. IsFiniteSet(Waiting(q, m, first))
  BY <1>1, <1>2, FS_Subset
<1> QED
  BY <1>3, FS_CardinalityType

\* A message that is sent.
LEMMA WaitingAppended ==
  ASSUME NEW S, NEW q \in Seq(S), NEW m, NEW x \in S, NEW first \in {1, 2}, first <= Len(q) + 1
  PROVE  Cardinality(Waiting(Append(q, x), m, first))
           = Cardinality(Waiting(q, m, first)) + (IF x = m THEN 1 ELSE 0)
<1> DEFINE W == Waiting(q, m, first)
           n == Len(q) + 1
<1>1. n \in Nat /\ n \notin W /\ IsFiniteSet(W) /\ Cardinality(W) \in Nat
  <2>1. n \in Nat /\ n \notin W
    BY DEF Waiting
  <2> QED
    BY <2>1, WaitingIsFinite
<1>2. /\ DOMAIN Append(q, x) = DOMAIN q \cup {n}
      /\ Append(q, x)[n] = x /\ \A i \in DOMAIN q : Append(q, x)[i] = q[i]
  OBVIOUS
<1>3. Waiting(Append(q, x), m, first) = IF x = m THEN W \cup {n} ELSE W
  BY <1>1, <1>2 DEF Waiting
<1>4. Cardinality(W \cup {n}) = Cardinality(W) + 1
  <2> HIDE DEF W, n
  <2> QED
    BY <1>1, FS_AddElement
<1> QED
  BY <1>1, <1>3, <1>4

\* The message at the head, which is no longer waiting once it is handled.
LEMMA WaitingHead ==
  ASSUME NEW S, NEW q \in Seq(S), q # <<>>, NEW m
  PROVE  Cardinality(Waiting(q, m, 1)) = Cardinality(Waiting(q, m, 2)) + (IF Head(q) = m THEN 1 ELSE 0)
<1> DEFINE W == Waiting(q, m, 2)
<1>1. 1 \in DOMAIN q /\ Head(q) = q[1] /\ \A i \in DOMAIN q : i \in Nat /\ i >= 1 /\ (i = 1 \/ i >= 2)
  OBVIOUS
<1>2. Waiting(q, m, 1) = IF Head(q) = m THEN W \cup {1} ELSE W
  BY <1>1 DEF Waiting
<1>3. 1 \notin W /\ IsFiniteSet(W) /\ Cardinality(W) \in Nat
  <2>1. 1 \notin W
    BY DEF Waiting
  <2> QED
    BY <2>1, WaitingIsFinite
<1>4. Cardinality(W \cup {1}) = Cardinality(W) + 1
  <2> HIDE DEF W
  <2> QED
    BY <1>3, FS_AddElement
<1> HIDE DEF W
<1>5. CASE Head(q) = m
  BY <1>2, <1>3, <1>4, <1>5 DEF W
<1>6. CASE Head(q) # m
  BY <1>2, <1>3, <1>6 DEF W
<1> QED
  BY <1>5, <1>6

\* The messages behind the head move up by one.
LEMMA WaitingTail ==
  ASSUME NEW S, NEW q \in Seq(S), q # <<>>, NEW m
  PROVE  Cardinality(Waiting(Tail(q), m, 1)) = Cardinality(Waiting(q, m, 2))
<1> DEFINE A == Waiting(Tail(q), m, 1)
           B == Waiting(q, m, 2)
           f == [i \in A |-> i + 1]
<1>1. /\ Tail(q) \in Seq(S) /\ Len(q) \in Nat \ {0} /\ DOMAIN q = 1 .. Len(q)
      /\ DOMAIN Tail(q) = 1 .. Len(q) - 1 /\ \A i \in DOMAIN Tail(q) : Tail(q)[i] = q[i + 1]
  OBVIOUS
<1>2. \A i \in A : i \in Nat /\ i + 1 \in B
  BY <1>1 DEF Waiting
<1>3. \A j \in B : j - 1 \in A /\ j = (j - 1) + 1
  BY <1>1 DEF Waiting
<1>4. IsFiniteSet(A)
  BY <1>1, WaitingIsFinite
<1> HIDE DEF A, B
<1>5. f \in Bijection(A, B)
  <2>1. f \in [A -> B]
    BY <1>2
  <2>2. \A i, j \in A : f[i] = f[j] => i = j
    BY <1>2
  <2>3. \A j \in B : \E i \in A : f[i] = j
    BY <1>3
  <2> QED
    BY <2>1, <2>2, <2>3 DEF Bijection, Injection, Surjection, IsInjective
<1>6. ExistsBijection(A, B)
  BY <1>5 DEF ExistsBijection
<1> QED
  BY <1>4, <1>6, FS_Bijection DEF A, B
-------------------------------------------------------------------------------
(* How often an order may still be reserved.  Each reservation made, each    *)
(* order.created message that is not handled yet and a creation that has not *)
(* published yet counts for one; only a fault adds to the sum.               *)

Created(o) == [type |-> "order.created", order |-> o]

\* The head of the queue waits no longer once its handler is busy.
FirstWaiting == IF handler = "idle" THEN 1 ELSE 2
Ahead(o) == Cardinality(Waiting(invQ, Created(o), FirstWaiting))

Undecided(o) == status[o] = "NONE" \/ \E r \in Requests : slot[r].op = "create" /\ slot[r].order = o

Chances(o) == held[o] + Ahead(o) + (IF Undecided(o) THEN 1 ELSE 0)

\* An order is created by one request, and its row exists from then on.
OneCreation ==
  \A r \in Requests : slot[r].op = "create" =>
    /\ slot[r].pc # "validated" => status[slot[r].order] # "NONE"
    /\ \A q \in Requests \ {r} : slot[q].op = "create" => slot[q].order # slot[r].order

LEMMA OneCreationInit == Init => OneCreation
BY DEF Init, OneCreation, Idle

LEMMA ValidateStartsCreation ==
  ASSUME OrderInv, OneCreation, NEW r \in Requests, NEW o \in Orders, Validate(r, o)
  PROVE  OneCreation' /\ \A p \in Orders : Undecided(p)' => Undecided(p)
<1> DEFINE s == [pc |-> "validated", op |-> "create", order |-> o, seen |-> "NONE", target |-> "NONE"]
<1>1. slot'[r] = s /\ \A q \in Requests \ {r} : slot'[q] = slot[q]
  BY DEF Validate, OrderInv, TypeOK
<1>2. status' = status /\ status[o] = "NONE" /\ \A q \in Requests : slot[q].order # o
  BY DEF Validate
<1>3. s.pc = "validated" /\ s.op = "create" /\ s.order = o
  OBVIOUS
<1> HIDE DEF s
<1>4. OneCreation'
  BY <1>1, <1>2, <1>3 DEF OneCreation
<1> QED
  BY <1>1, <1>2, <1>3, <1>4 DEF Undecided

\* Creations go on and end, but none starts and no row disappears.
LEMMA OneCreationKept ==
  ASSUME OneCreation,
         \A o \in Orders : status'[o] = "NONE" => status[o] = "NONE",
         \A r \in Requests : slot'[r].op = "create"
           => /\ slot[r].op = "create" /\ slot'[r].order = slot[r].order
              /\ slot'[r].pc # "validated" => status'[slot[r].order] # "NONE"
  PROVE  OneCreation' /\ \A o \in Orders : Undecided(o)' => Undecided(o)
BY DEF OneCreation, Undecided

LEMMA CallStartsNoCreation ==
  ASSUME OrderInv, OneCreation, NEW r \in Requests, CallArrives(r)
  PROVE  OneCreation' /\ \A o \in Orders : Undecided(o)' => Undecided(o)
<1>1. PICK op \in {"cancel", "patch"}, o \in Orders, target \in Statuses :
        /\ slot' = [slot EXCEPT ![r] = Reading(op, o, target)]
        /\ UNCHANGED status
  BY TargetsAssumption DEF CallArrives, Cancel, Patch, Statuses
<1>2. \A q \in Requests : slot'[q].op = "create" => slot'[q] = slot[q]
  BY <1>1 DEF OrderInv, TypeOK, Reading
<1> QED
  BY <1>1, <1>2, OneCreationKept DEF OneCreation

LEMMA ProgressKeepsCreation ==
  ASSUME OrderInv, OneCreation, NEW r \in Requests,
         SavePending(r) \/ Pay(r) \/ Save(r) \/ Record(r)
  PROVE  OneCreation' /\ \A o \in Orders : Undecided(o)' => Undecided(o)
<1>1. slot[r] \in Slot /\ slot[r].order \in Orders
  BY DEF OrderInv, TypeOK, SavePending, Pay, Save, Record, At, Slot, Idle
<1>2. \A o \in Orders : status'[o] = "NONE" => status[o] = "NONE"
  <2>1. \A o \in Orders : \/ status'[o] = status[o]
                          \/ status'[o] \in {"PENDING", slot[r].target} /\ At(r, "read")
                          \/ status'[o] = "PENDING"
    BY <1>1 DEF OrderInv, TypeOK, SavePending, Pay, Save, Record
  <2>2. At(r, "read") => slot[r].target # "NONE"
    BY DecidedSlot DEF At, OrderInv, Statuses
  <2> QED
    BY <2>1, <2>2
<1>3. \A q \in Requests \ {r} : slot'[q] = slot[q]
  BY RecordSlot DEF OrderInv, TypeOK, SavePending, Pay, Save, Goto
<1>4. slot'[r].op = "create"
        => slot[r].op = "create" /\ slot'[r].order = slot[r].order /\ slot'[r].pc # "validated"
  <2>1. CASE SavePending(r)
    BY <1>1, <2>1 DEF SavePending, Goto, At, OrderInv, TypeOK, Slot, Idle
  <2>2. CASE Pay(r)
    BY <1>1, <2>2 DEF Pay, At, OrderInv, TypeOK, Slot, Idle, Reading
  <2>3. CASE Save(r)
    BY <2>3, DecidedSlot DEF Save, Goto, At, OrderInv, TypeOK
  <2>4. CASE Record(r)
    BY <2>4, RecordSlot, DecidedSlot DEF OrderInv, TypeOK, Idle
  <2> QED
    BY <2>1, <2>2, <2>3, <2>4
<1>5. slot[r].op = "create" => status'[slot[r].order] # "NONE"
  <2>1. CASE SavePending(r)
    BY <1>1, <2>1 DEF SavePending, OrderInv, TypeOK
  <2>2. CASE ~SavePending(r)
    BY <1>1, <1>2, <2>2 DEF OneCreation, Pay, Save, Record, At
  <2> QED
    BY <2>1, <2>2
<1>6. ASSUME NEW q \in Requests \ {r}, slot'[q].op = "create"
      PROVE  slot'[q].pc # "validated" => status'[slot[q].order] # "NONE"
  <2>1. slot[q].order \in Orders
    BY <1>3, <1>6 DEF OrderInv, TypeOK, Slot, Idle
  <2> QED
    BY <1>2, <1>3, <1>6, <2>1 DEF OneCreation
<1> QED
  BY <1>2, <1>3, <1>4, <1>5, <1>6, OneCreationKept

LEMMA OthersKeepCreation ==
  ASSUME OrderInv, OneCreation, ConsumerStep \/ OrderCrash \/ ReplyExpires
  PROVE  OneCreation' /\ \A o \in Orders : Undecided(o)' => Undecided(o)
<1>1. slot' = slot \/ slot' = [q \in Requests |-> Idle]
  BY DEF ConsumerStep, HandleReserved, CancelRead, CancelReject, CancelSave, CancelUnrecorded, OrderCrash, ReplyExpires
<1>2. \A o \in Orders : status'[o] = status[o] \/ status'[o] = "CANCELLED"
  BY DEF ConsumerStep, HandleReserved, CancelRead, CancelReject, CancelSave, CancelUnrecorded, OrderCrash, ReplyExpires,
     OrderInv, TypeOK
<1>3. \A q \in Requests : slot'[q].op = "create" => slot'[q] = slot[q] /\ slot[q].order \in Orders
  BY <1>1 DEF Idle, OrderInv, TypeOK, Slot
<1> QED
  BY <1>2, <1>3, OneCreationKept DEF OneCreation

\* A request that publishes is done; if it was a creation, it was the only one.
LEMMA PublishEndsCreation ==
  ASSUME OrderInv, OneCreation, NEW r \in Requests, Publish(r) \/ PublishFails(r) \/ PublishTwice(r)
  PROVE  /\ OneCreation'
         /\ \A o \in Orders : Undecided(o)' => Undecided(o)
         /\ \A o \in Orders : MessageOf(r) = Created(o) => Undecided(o) /\ ~Undecided(o)'
<1>1. slot' = [slot EXCEPT ![r] = Idle] /\ UNCHANGED status /\ slot[r].pc = "recorded"
  BY DEF Publish, PublishFails, PublishTwice, Finish, At
<1>2. slot'[r] = Idle /\ \A q \in Requests \ {r} : slot'[q] = slot[q]
  BY <1>1 DEF OrderInv, TypeOK
<1>3. ASSUME NEW o \in Orders, MessageOf(r) = Created(o)
      PROVE  slot[r].op = "create" /\ slot[r].order = o
  BY <1>3 DEF MessageOf, Created, EventOf
<1>4. ASSUME NEW o \in Orders, MessageOf(r) = Created(o)
      PROVE  Undecided(o) /\ ~Undecided(o)'
  BY <1>1, <1>2, <1>3, <1>4 DEF Undecided, OneCreation, Idle
<1> QED
  BY <1>1, <1>2, <1>4, OneCreationKept DEF Idle, OneCreation

-------------------------------------------------------------------------------
(* The messages ahead *)

LEMMA AheadIsNat ==
  ASSUME SagaInv, NEW o \in Orders
  PROVE  Ahead(o) \in Nat /\ held[o] \in Nat /\ Chances(o) \in Nat /\ faults \in Nat
<1>1. invQ \in Seq(Message(OrderEvents)) /\ FirstWaiting \in {1, 2}
  BY DEF SagaInv, OrderInv, TypeOK, FirstWaiting
<1>2. Ahead(o) \in Nat
  BY <1>1, WaitingIsFinite DEF Ahead
<1> QED
  BY <1>2, FaultsAssumption DEF Chances, SagaInv, SagaTypeOK, TypeOK

LEMMA AheadAppended ==
  ASSUME SagaInv, NEW o \in Orders, NEW m \in Message(OrderEvents),
         invQ' = Append(invQ, m), UNCHANGED handler
  PROVE  Ahead(o)' = Ahead(o) + (IF m = Created(o) THEN 1 ELSE 0)
<1>1. invQ \in Seq(Message(OrderEvents)) /\ FirstWaiting \in {1, 2} /\ FirstWaiting' = FirstWaiting
  BY DEF SagaInv, OrderInv, TypeOK, FirstWaiting
<1>2. FirstWaiting <= Len(invQ) + 1
  BY <1>1 DEF SagaInv, SagaTypeOK, FirstWaiting
<1>3. Cardinality(Waiting(Append(invQ, m), Created(o), FirstWaiting))
        = Cardinality(Waiting(invQ, Created(o), FirstWaiting)) + (IF m = Created(o) THEN 1 ELSE 0)
  BY <1>1, <1>2, WaitingAppended
<1> QED
  BY <1>1, <1>3 DEF Ahead

\* A message sent twice.
LEMMA AheadDoubled ==
  ASSUME SagaInv, NEW o \in Orders, NEW m \in Message(OrderEvents),
         invQ' = invQ \o <<m, m>>, UNCHANGED handler
  PROVE  Ahead(o)' = Ahead(o) + (IF m = Created(o) THEN 2 ELSE 0)
<1> DEFINE q == Append(invQ, m)
           d == IF m = Created(o) THEN 1 ELSE 0
<1>1. invQ \in Seq(Message(OrderEvents)) /\ FirstWaiting \in {1, 2} /\ FirstWaiting' = FirstWaiting
  BY DEF SagaInv, OrderInv, TypeOK, FirstWaiting
<1>2. FirstWaiting <= Len(invQ) + 1 /\ FirstWaiting <= Len(q) + 1
  BY <1>1 DEF SagaInv, SagaTypeOK, FirstWaiting
<1>3. invQ \o <<m, m>> = Append(q, m) /\ q \in Seq(Message(OrderEvents))
  BY <1>1
<1>4. Cardinality(Waiting(q, Created(o), FirstWaiting))
        = Cardinality(Waiting(invQ, Created(o), FirstWaiting)) + d
  BY <1>1, <1>2, WaitingAppended
<1> HIDE DEF q
<1>5. Cardinality(Waiting(Append(q, m), Created(o), FirstWaiting))
        = Cardinality(Waiting(q, Created(o), FirstWaiting)) + d
  BY <1>1, <1>2, <1>3, WaitingAppended
<1>6. Ahead(o) \in Nat
  BY AheadIsNat
<1>7. Ahead(o)' = Cardinality(Waiting(Append(q, m), Created(o), FirstWaiting))
  BY <1>1, <1>3 DEF Ahead
<1>8. Ahead(o)' = Ahead(o) + d + d
  BY <1>4, <1>5, <1>7 DEF Ahead
<1> QED
  BY <1>6, <1>8

\* The head of the queue: idle, it waits; handled, it does not; settled or
\* expired, it is gone.
LEMMA AheadHandled ==
  ASSUME SagaInv, NEW o \in Orders, invQ # <<>>
  PROVE  /\ Head(invQ) = Created(o) <=> Head(invQ).type = "order.created" /\ Subject = o
         /\ LET waiting(first) == Cardinality(Waiting(invQ, Created(o), first))
                head == IF Head(invQ) = Created(o) THEN 1 ELSE 0
            IN  /\ waiting(1) = waiting(2) + head
                /\ Cardinality(Waiting(Tail(invQ), Created(o), 1)) = waiting(2)
<1>1. invQ \in Seq(Message(OrderEvents)) /\ Head(invQ) \in Message(OrderEvents)
  BY HeadAndTail DEF SagaInv, OrderInv, TypeOK
<1>2. Head(invQ) = Created(o) <=> Head(invQ).type = "order.created" /\ Subject = o
  BY <1>1 DEF Created, Subject, Message
<1> QED
  BY <1>1, <1>2, WaitingHead, WaitingTail
-------------------------------------------------------------------------------
(* Every step *)

\* What a step changes of an order's chances, when it is no fault and when it is.
LEMMA OrdersAddNoChance ==
  ASSUME SagaInv, OneCreation, NEW o \in Orders, UNCHANGED inventoryVars,
         OrderStep \/ \E r \in Requests, p \in Orders : Validate(r, p)
  PROVE  /\ OneCreation'
         /\ faults' >= faults
         /\ Chances(o)' - Chances(o) <= faults' - faults
<1> USE DEF SagaInv
<1>1. held'[o] = held[o] /\ UNCHANGED handler /\ FirstWaiting' = FirstWaiting
  BY DEF inventoryVars, FirstWaiting
<1>2. Ahead(o) \in Nat /\ held[o] \in Nat /\ faults \in Nat
  BY AheadIsNat
<1> DEFINE quiet == /\ OneCreation'
                    /\ Undecided(o)' => Undecided(o)
                    /\ UNCHANGED invQ
                    /\ faults' \in {faults, faults + 1}
<1>3. ASSUME quiet
      PROVE  OneCreation' /\ faults' >= faults /\ Chances(o)' - Chances(o) <= faults' - faults
  <2>1. Ahead(o)' = Ahead(o)
    BY <1>1, <1>3 DEF Ahead
  <2>2. CASE Undecided(o)'
    BY <1>1, <1>2, <1>3, <2>1, <2>2 DEF Chances
  <2>3. CASE ~Undecided(o)'
    BY <1>1, <1>2, <1>3, <2>1, <2>3 DEF Chances
  <2> QED
    BY <2>2, <2>3
<1>4. ASSUME NEW r \in Requests, NEW p \in Orders, Validate(r, p)
      PROVE  quiet
  BY <1>4, ValidateStartsCreation DEF Validate
<1>5. ASSUME NEW r \in Requests, CallArrives(r)
      PROVE  quiet
  BY <1>5, CallStartsNoCreation DEF CallArrives, Cancel, Patch
<1>6. ASSUME NEW r \in Requests, SavePending(r) \/ Pay(r) \/ Save(r) \/ Record(r)
      PROVE  quiet
  BY <1>6, ProgressKeepsCreation DEF SavePending, Pay, Save, Record
<1>7. CASE ConsumerStep \/ OrderCrash \/ ReplyExpires
  <2>1. OneCreation' /\ (Undecided(o)' => Undecided(o))
    BY <1>7, OthersKeepCreation
  <2>2. UNCHANGED invQ /\ faults' \in {faults, faults + 1}
    BY <1>7 DEF ConsumerStep, HandleReserved, CancelRead, CancelReject, CancelSave, CancelUnrecorded, OrderCrash, ReplyExpires,
       Fault
  <2> QED
    BY <1>3, <2>1, <2>2
<1>8. ASSUME NEW r \in Requests, Publish(r) \/ PublishFails(r) \/ PublishTwice(r)
      PROVE  OneCreation' /\ faults' >= faults /\ Chances(o)' - Chances(o) <= faults' - faults
  <2> DEFINE m == MessageOf(r)
  <2>1. m \in Message(OrderEvents)
    BY <1>8, DecidedSlot DEF Publish, PublishFails, PublishTwice, At, OrderInv
  <2>2. /\ OneCreation'
        /\ Undecided(o)' => Undecided(o)
        /\ m = Created(o) => Undecided(o) /\ ~Undecided(o)'
    BY <1>8, PublishEndsCreation
  <2> HIDE DEF m
  <2>3. CASE UNCHANGED invQ /\ faults' \in {faults, faults + 1}
    BY <1>3, <2>2, <2>3
  <2>4. CASE invQ' = Append(invQ, m) /\ faults' \in {faults, faults + 1}
    <3>1. Ahead(o)' = Ahead(o) + (IF m = Created(o) THEN 1 ELSE 0)
      BY <1>1, <2>1, <2>4, AheadAppended
    <3>2. CASE m = Created(o)
      BY <1>1, <1>2, <2>2, <2>4, <3>1, <3>2 DEF Chances
    <3>3. CASE m # Created(o)
      BY <1>1, <1>2, <2>2, <2>4, <3>1, <3>3 DEF Chances
    <3> QED
      BY <3>2, <3>3
  <2>5. CASE invQ' = invQ \o <<m, m>> /\ faults' = faults + 1
    <3>1. Ahead(o)' = Ahead(o) + (IF m = Created(o) THEN 2 ELSE 0)
      BY <1>1, <2>1, <2>5, AheadDoubled
    <3>2. CASE m = Created(o)
      BY <1>1, <1>2, <2>2, <2>5, <3>1, <3>2 DEF Chances
    <3>3. CASE m # Created(o)
      BY <1>1, <1>2, <2>2, <2>5, <3>1, <3>3 DEF Chances
    <3> QED
      BY <3>2, <3>3
  <2> QED
    BY <1>8, <2>3, <2>4, <2>5 DEF m, Publish, PublishFails, PublishTwice, Fault
<1> QED
  BY <1>3, <1>4, <1>5, <1>6, <1>7, <1>8 DEF OrderStep, RequestProgress, OrderFault

\* One order.created message in a handler makes one reservation, and the
\* message is gone when the handler is done, unless it is delivered again.
LEMMA InventoryAddsNoChance ==
  ASSUME SagaInv, OneCreation, NEW o \in Orders, InventoryStep \/ InventoryFault
  PROVE  /\ OneCreation'
         /\ faults' >= faults
         /\ Chances(o)' - Chances(o) <= faults' - faults
<1> USE DEF SagaInv
<1> DEFINE waiting(first) == Cardinality(Waiting(invQ, Created(o), first))
           head == IF Head(invQ) = Created(o) THEN 1 ELSE 0
<1>1. UNCHANGED <<status, slot>> /\ invQ # <<>>
  BY DEF InventoryStep, InventoryFault, ReserveStock, RefuseOrder, AnswerReserved, AnswerFailed, Answer,
     ReleaseStock, FinalizeStock, Settle, HandlerFails, AnswerFails, InventoryCrash, EventExpires,
     Handling, vars, orderVars, inventoryVars, SagaTypeOK
<1>2. OneCreation' /\ (Undecided(o)' <=> Undecided(o))
  BY <1>1 DEF OneCreation, Undecided
<1>3. /\ Head(invQ) = Created(o) <=> Head(invQ).type = "order.created" /\ Subject = o
      /\ waiting(1) = waiting(2) + head
      /\ Cardinality(Waiting(Tail(invQ), Created(o), 1)) = waiting(2)
  BY <1>1, AheadHandled
<1>4. Ahead(o) = (IF handler = "idle" THEN waiting(1) ELSE waiting(2))
  BY DEF Ahead, FirstWaiting
<1>5. Ahead(o) \in Nat /\ held[o] \in Nat /\ faults \in Nat /\ waiting(2) \in Nat
  <2>1. waiting(2) \in Nat
    BY WaitingIsFinite DEF OrderInv, TypeOK
  <2> QED
    BY <2>1, AheadIsNat
<1>6. ASSUME faults' >= faults, held'[o] + Ahead(o)' - (held[o] + Ahead(o)) <= faults' - faults,
             held'[o] \in Nat, Ahead(o)' \in Nat, faults' \in Nat
      PROVE  Chances(o)' - Chances(o) <= faults' - faults
  <2>1. CASE Undecided(o)
    BY <1>2, <1>5, <1>6, <2>1 DEF Chances
  <2>2. CASE ~Undecided(o)
    BY <1>2, <1>5, <1>6, <2>2 DEF Chances
  <2> QED
    BY <2>1, <2>2
<1>7. Ahead(o)' = IF invQ' = Tail(invQ) /\ handler' = "idle" THEN waiting(2)
                  ELSE IF handler' = "idle" THEN waiting(1) ELSE waiting(2)
  <2>1. invQ' = invQ \/ (invQ' = Tail(invQ) /\ handler' = "idle")
    BY DEF InventoryStep, InventoryFault, ReserveStock, RefuseOrder, AnswerReserved, AnswerFailed, Answer,
       ReleaseStock, FinalizeStock, Settle, HandlerFails, AnswerFails, InventoryCrash, EventExpires,
       vars, inventoryVars
  <2>2. invQ # Tail(invQ)
    <3>1. Len(Tail(invQ)) = Len(invQ) - 1 /\ Len(invQ) \in Nat
      BY <1>1 DEF OrderInv, TypeOK
    <3> QED
      BY <3>1
  <2>3. Ahead(o)' = Cardinality(Waiting(invQ', Created(o), IF handler' = "idle" THEN 1 ELSE 2))
    BY DEF Ahead, FirstWaiting
  <2> QED
    BY <1>3, <2>1, <2>2, <2>3
<1> HIDE DEF waiting
<1>8. CASE ReserveStock
  <2>1. /\ UNCHANGED <<invQ, faults>> /\ handler = "idle" /\ handler' = "reserved"
        /\ held'[o] = held[o] + head
    BY <1>3, <1>8 DEF ReserveStock, Handling, vars, SagaTypeOK
  <2> QED
    BY <1>2, <1>3, <1>4, <1>5, <1>6, <1>7, <2>1
<1>9. CASE RefuseOrder \/ ReleaseStock \/ FinalizeStock \/ HandlerFails
  <2>1. /\ UNCHANGED invQ /\ handler = "idle" /\ handler' # "idle" /\ faults' \in {faults, faults + 1}
        /\ held' = held \/ GiveBack(Subject)
    BY <1>9 DEF RefuseOrder, ReleaseStock, FinalizeStock, HandlerFails, Fault, Handling, vars
  <2>2. held'[o] \in Nat /\ held'[o] <= held[o]
    <3>1. \A n \in Nat : AtLeastZero(n - 1) \in Nat /\ AtLeastZero(n - 1) <= n
      BY DEF AtLeastZero
    <3>2. held'[o] = held[o] \/ held'[o] = AtLeastZero(held[o] - 1)
      BY <2>1 DEF GiveBack, SagaTypeOK
    <3> QED
      BY <1>5, <3>1, <3>2
  <2> QED
    BY <1>2, <1>3, <1>4, <1>5, <1>6, <1>7, <2>1, <2>2
<1>10. CASE AnswerReserved \/ AnswerFailed \/ AnswerFails
  <2>1. /\ UNCHANGED <<invQ, held>> /\ handler # "idle" /\ handler' # "idle" /\ faults' \in {faults, faults + 1}
    BY <1>10 DEF AnswerReserved, AnswerFailed, Answer, AnswerFails, Fault
  <2> QED
    BY <1>2, <1>3, <1>4, <1>5, <1>6, <1>7, <2>1
<1>11. CASE Settle \/ EventExpires
  <2>1. /\ invQ' = Tail(invQ) /\ handler' = "idle" /\ UNCHANGED held /\ faults' \in {faults, faults + 1}
    BY <1>11 DEF Settle, EventExpires, Fault, inventoryVars
  <2>2. Ahead(o)' = waiting(2) /\ waiting(2) <= Ahead(o)
    BY <1>3, <1>4, <1>5, <1>7, <2>1
  <2>3. /\ faults' >= faults /\ faults' \in Nat /\ held'[o] = held[o]
        /\ held'[o] + Ahead(o)' - (held[o] + Ahead(o)) <= faults' - faults
    BY <1>5, <2>1, <2>2
  <2> QED
    BY <1>2, <1>5, <1>6, <2>2, <2>3
<1>12. CASE InventoryCrash
  <2>1. /\ UNCHANGED <<invQ, held>> /\ handler # "idle" /\ handler' = "idle" /\ faults' = faults + 1
    BY <1>12 DEF InventoryCrash, Fault
  <2> QED
    BY <1>2, <1>3, <1>4, <1>5, <1>6, <1>7, <2>1
<1> QED
  BY <1>8, <1>9, <1>10, <1>11, <1>12 DEF InventoryStep, InventoryFault

LEMMA ChancesAreNat == SagaInv => \A o \in Orders : Chances(o) \in Nat /\ faults \in Nat
BY AheadIsNat

\* The sum only ever grows with the number of faults.
LEMMA ChancesStep ==
  ASSUME SagaInv, OneCreation, [SagaNext]_sagaVars, NEW o \in Orders
  PROVE  /\ OneCreation'
         /\ faults' >= faults
         /\ Chances(o)' - Chances(o) <= faults' - faults
<1>1. CASE UNCHANGED sagaVars
  <2>1. OneCreation' /\ Chances(o)' = Chances(o) /\ faults' = faults
    BY <1>1 DEF sagaVars, vars, inventoryVars, OneCreation, Chances, Undecided, Ahead, FirstWaiting
  <2>2. Chances(o) \in Nat /\ faults \in Nat
    BY AheadIsNat
  <2> QED
    BY <2>1, <2>2
<1>2. ASSUME NEW r \in Requests, NEW p \in Orders, PlaceOrder(r, p)
      PROVE  Validate(r, p) /\ UNCHANGED inventoryVars
  BY <1>2 DEF PlaceOrder
<1> QED
  BY <1>1, <1>2, OrdersAddNoChance, InventoryAddsNoChance DEF SagaNext
-------------------------------------------------------------------------------
ChancesBounded == \A o \in Orders : Chances(o) <= 1 + faults

LEMMA ChancesInit == SagaInit => SagaInv /\ OneCreation /\ ChancesBounded
<1> SUFFICES ASSUME SagaInit PROVE SagaInv /\ OneCreation /\ ChancesBounded
  OBVIOUS
<1>1. SagaInv /\ OneCreation
  BY SagaInitInv, OneCreationInit DEF SagaInit
<1>2. ASSUME NEW o \in Orders PROVE Chances(o) = 1 /\ faults = 0
  <2>1. invQ = <<>> /\ held[o] = 0 /\ faults = 0 /\ Undecided(o)
    BY DEF SagaInit, Init, Undecided
  <2>2. Waiting(invQ, Created(o), FirstWaiting) = {}
    BY <2>1 DEF Waiting
  <2> QED
    BY <2>1, <2>2, FS_EmptySet DEF Chances, Ahead
<1> QED
  BY <1>1, <1>2 DEF ChancesBounded

LEMMA ChancesNext ==
  SagaInv /\ OneCreation /\ ChancesBounded /\ [SagaNext]_sagaVars
    => SagaInv' /\ OneCreation' /\ ChancesBounded'
<1> SUFFICES ASSUME SagaInv, OneCreation, ChancesBounded, [SagaNext]_sagaVars
             PROVE  SagaInv' /\ OneCreation' /\ ChancesBounded'
  OBVIOUS
<1>1. SagaInv'
  BY SagaNextInv
<1>2. (\A o \in Orders : Chances(o) \in Nat /\ faults \in Nat)'
  BY <1>1, ChancesAreNat, PTL
<1>3. OneCreation'
  <2>1. CASE Orders = {}
    <3>1. \A r \in Requests : slot'[r].op # "create"
      BY <1>1, <2>1 DEF SagaInv, OrderInv, TypeOK, Slot, Idle
    <3> QED
      BY <3>1 DEF OneCreation
  <2>2. CASE Orders # {}
    BY <2>2, ChancesStep
  <2> QED
    BY <2>1, <2>2
<1>4. ASSUME NEW o \in Orders PROVE Chances(o)' <= 1 + faults'
  <2>1. Chances(o)' - Chances(o) <= faults' - faults /\ Chances(o) <= 1 + faults
    BY ChancesStep DEF ChancesBounded
  <2>2. Chances(o) \in Nat /\ faults \in Nat
    BY AheadIsNat
  <2>3. Chances(o)' \in Nat /\ faults' \in Nat
    BY <1>2
  <2> QED
    BY <2>1, <2>2, <2>3
<1> QED
  BY <1>1, <1>3, <1>4 DEF ChancesBounded

\* However requests race and messages are repeated or lost, an order's stock is
\* set aside once, and once more for each restart, lost confirmation or other
\* fault at most (order.service.ts:66-97, inventory.controller.ts:63-122).
THEOREM FaultsPayForReservations == SagaSpec => []ReservedOncePerFault
<1>1. SagaInv /\ ChancesBounded => ReservedOncePerFault
  <2> SUFFICES ASSUME SagaInv, ChancesBounded, NEW o \in Orders PROVE held[o] <= 1 + faults
    BY DEF ReservedOncePerFault
  <2>1. Chances(o) <= 1 + faults
    BY DEF ChancesBounded
  <2>2. held[o] \in Nat /\ Ahead(o) \in Nat /\ faults \in Nat
    BY AheadIsNat
  <2> QED
    BY <2>1, <2>2 DEF Chances
<1> QED
  BY ChancesInit, ChancesNext, <1>1, PTL DEF SagaSpec

\* Where no fault is possible, the README's claim holds: no order is reserved
\* twice (README.md:261).
THEOREM ReservedAtMostOnceWithoutFaults ==
  ASSUME MaxFaults = 0
  PROVE  SagaSpec => []ReservedAtMostOnce
<1>1. SagaTypeOK /\ ReservedOncePerFault => ReservedAtMostOnce
  BY DEF SagaTypeOK, TypeOK, ReservedOncePerFault, ReservedAtMostOnce
<1> QED
  BY <1>1, SagaTyping, FaultsPayForReservations, PTL
-------------------------------------------------------------------------------
(* A reservation that was refused.  Without a fault the order has used its   *)
(* only chance by then, and nothing gives it another one.                    *)

RefusedIsSpent ==
  faults = 0 =>
    /\ handler = "failing" => Chances(Subject) = 0
    /\ \A o \in Orders : <<"inventory.reservation.failed", o>> \in notified => Chances(o) = 0

LEMMA SubjectIsOrder == SagaInv /\ handler # "idle" => Subject \in Orders
<1> SUFFICES ASSUME SagaInv, handler # "idle" PROVE Subject \in Orders
  OBVIOUS
<1> QED
  BY SubjectCart DEF SagaInv, SagaTypeOK

\* The head of the queue stays while its handler is busy.
LEMMA SubjectStays ==
  ASSUME SagaInv, [SagaNext]_sagaVars, handler # "idle", handler' # "idle"
  PROVE  Subject' = Subject
<1> USE DEF SagaInv
<1>1. invQ # <<>> /\ invQ \in Seq(Message(OrderEvents))
  BY DEF SagaTypeOK, OrderInv, TypeOK
<1>2. invQ' = invQ \/ \E m \in Message(OrderEvents) : invQ' = Append(invQ, m) \/ invQ' = invQ \o <<m, m>>
  <2>1. CASE OrderStep /\ UNCHANGED inventoryVars
    <3>1. ASSUME NEW r \in Requests, At(r, "recorded") PROVE MessageOf(r) \in Message(OrderEvents)
      BY <3>1, DecidedSlot DEF At, OrderInv
    <3> QED
      BY <2>1, <3>1
         DEF OrderStep, CallArrives, Cancel, Patch, RequestProgress, SavePending, Pay, Save, Record, Publish,
         ConsumerStep, HandleReserved, CancelRead, CancelReject, CancelSave, CancelUnrecorded,
         OrderFault, PublishFails, PublishTwice, OrderCrash, ReplyExpires
  <2>2. CASE ~(OrderStep /\ UNCHANGED inventoryVars)
    BY <2>2 DEF SagaNext, sagaVars, vars, inventoryVars, PlaceOrder, Validate,
       InventoryStep, InventoryFault, ReserveStock, RefuseOrder, AnswerReserved, AnswerFailed, Answer,
       ReleaseStock, FinalizeStock, Settle, HandlerFails, AnswerFails, InventoryCrash, EventExpires
  <2> QED
    BY <2>1, <2>2
<1>3. \A m : Head(Append(invQ, m)) = Head(invQ) /\ Head(invQ \o <<m, m>>) = Head(invQ)
  BY <1>1
<1> QED
  BY <1>2, <1>3 DEF Subject

\* A refusal uses up one of the order's chances.
LEMMA RefusalSpends ==
  ASSUME SagaInv, RefuseOrder
  PROVE  Subject \in Orders /\ Chances(Subject)' < Chances(Subject) /\ Subject' = Subject
<1> USE DEF SagaInv
<1> DEFINE o == Subject
           waiting(first) == Cardinality(Waiting(invQ, Created(o), first))
<1>1. /\ invQ # <<>> /\ Head(invQ).type = "order.created" /\ handler = "idle" /\ handler' = "failing"
      /\ UNCHANGED <<status, slot, invQ, held>>
  BY DEF RefuseOrder, Handling, vars
<1>2. o \in Orders /\ o' = o
  BY <1>1, SubjectCart DEF Subject
<1>3. waiting(1) = waiting(2) + 1
  BY <1>1, <1>2, AheadHandled
<1>4. Ahead(o) = waiting(1) /\ Ahead(o)' = waiting(2) /\ (Undecided(o)' <=> Undecided(o)) /\ held'[o] = held[o]
  BY <1>1, <1>2 DEF Ahead, FirstWaiting, Undecided
<1>5. waiting(1) \in Nat /\ waiting(2) \in Nat /\ held[o] \in Nat
  <2>1. invQ \in Seq(Message(OrderEvents))
    BY DEF OrderInv, TypeOK
  <2> QED
    BY <1>2, <2>1, WaitingIsFinite, AheadIsNat
<1> HIDE DEF waiting, o
<1>6. Chances(o)' < Chances(o)
  <2>1. CASE Undecided(o)
    BY <1>2, <1>3, <1>4, <1>5, <2>1 DEF Chances
  <2>2. CASE ~Undecided(o)
    BY <1>2, <1>3, <1>4, <1>5, <2>2 DEF Chances
  <2> QED
    BY <2>1, <2>2
<1> QED
  BY <1>2, <1>6 DEF o

\* The notification of a refusal comes from the handler that refused.
LEMMA RefusalNotified ==
  ASSUME SagaInv, [SagaNext]_sagaVars, faults' = faults, NEW o \in Orders,
         <<"inventory.reservation.failed", o>> \in notified',
         <<"inventory.reservation.failed", o>> \notin notified
  PROVE  handler = "failing" /\ o = Subject
<1>1. ASSUME NEW r \in Requests, Publish(r) PROVE MessageOf(r).type # "inventory.reservation.failed"
  BY <1>1 DEF MessageOf, EventOf
<1>2. notified' # notified /\ faults \in Nat
  BY AheadIsNat
<1>3. ~OrderFault /\ ~InventoryFault
  <2>1. \A kind : ~Fault(kind)
    BY <1>2 DEF Fault
  <2> QED
    BY <2>1 DEF OrderFault, PublishFails, PublishTwice, OrderCrash, ReplyExpires,
       InventoryFault, HandlerFails, AnswerFails, InventoryCrash, EventExpires
<1>4. (\E r \in Requests : Publish(r)) \/ AnswerReserved \/ AnswerFailed
  BY <1>2, <1>3 DEF SagaNext, sagaVars, vars, inventoryVars, PlaceOrder, Validate,
     OrderStep, CallArrives, Cancel, Patch, RequestProgress, SavePending, Pay, Save, Record,
     ConsumerStep, HandleReserved, CancelRead, CancelReject, CancelSave, CancelUnrecorded,
     InventoryStep, ReserveStock, RefuseOrder, ReleaseStock, FinalizeStock, Settle
<1> QED
  BY <1>1, <1>4 DEF Publish, AnswerReserved, AnswerFailed, Answer

LEMMA RefusedStep ==
  ASSUME SagaInv, OneCreation, ChancesBounded, RefusedIsSpent, [SagaNext]_sagaVars
  PROVE  RefusedIsSpent'
<1> SUFFICES ASSUME faults' = 0
             PROVE  /\ handler' = "failing" => Chances(Subject)' = 0
                    /\ \A o \in Orders :
                         <<"inventory.reservation.failed", o>> \in notified' => Chances(o)' = 0
  BY DEF RefusedIsSpent
<1>1. (\A o \in Orders : Chances(o) \in Nat /\ faults \in Nat)'
  <2>1. SagaInv'
    BY SagaNextInv
  <2> QED
    BY <2>1, ChancesAreNat, PTL
<1>2. \A o \in Orders : /\ Chances(o) \in Nat /\ Chances(o)' \in Nat /\ Chances(o)' <= Chances(o)
                        /\ faults = 0 /\ Chances(o) <= 1
  <2> TAKE o \in Orders
  <2>1. Chances(o) \in Nat /\ faults \in Nat /\ Chances(o)' \in Nat
    BY <1>1, AheadIsNat
  <2>2. faults' >= faults /\ Chances(o)' - Chances(o) <= faults' - faults /\ Chances(o) <= 1 + faults
    BY ChancesStep DEF ChancesBounded
  <2> QED
    BY <2>1, <2>2
<1>3. ASSUME handler' = "failing" PROVE Chances(Subject)' = 0
  <2>1. CASE handler = "failing"
    <3>1. Subject \in Orders /\ Subject' = Subject
      BY <1>3, <2>1, SubjectIsOrder, SubjectStays
    <3>2. Chances(Subject) = 0
      BY <1>2, <2>1, <3>1 DEF RefusedIsSpent
    <3>3. Chances(Subject)' <= Chances(Subject) /\ Chances(Subject)' \in Nat
      BY <1>2, <3>1 DEF Chances
    <3> QED
      BY <3>2, <3>3
  <2>2. CASE handler # "failing"
    <3>1. invQ # <<>>
      BY <1>3, <2>2 DEF SagaNext, sagaVars, vars, inventoryVars, PlaceOrder, InventoryStep, InventoryFault,
         ReserveStock, RefuseOrder, AnswerReserved, AnswerFailed, ReleaseStock, FinalizeStock, Settle,
         HandlerFails, AnswerFails, InventoryCrash, EventExpires, Handling, SagaInv, SagaTypeOK
    <3>2. Subject \in Orders
      BY <3>1, SubjectCart DEF SagaInv
    <3>3. faults = 0
      BY <1>2, <3>2
    <3>4. ~InventoryFault
      BY <3>3 DEF InventoryFault, HandlerFails, AnswerFails, InventoryCrash, EventExpires, Fault
    <3>5. RefuseOrder
      BY <1>3, <2>2, <3>4 DEF SagaNext, sagaVars, inventoryVars, PlaceOrder, InventoryStep,
         ReserveStock, AnswerReserved, AnswerFailed, ReleaseStock, FinalizeStock, Settle
    <3>6. Chances(Subject)' < Chances(Subject)
      BY <3>5, RefusalSpends
    <3>7. Chances(Subject)' \in Nat /\ Chances(Subject) \in Nat /\ Chances(Subject) <= 1
      BY <1>2, <3>2, <3>5, RefusalSpends DEF Chances
    <3> QED
      BY <3>6, <3>7
  <2> QED
    BY <2>1, <2>2
<1>4. ASSUME NEW o \in Orders, <<"inventory.reservation.failed", o>> \in notified'
      PROVE  Chances(o)' = 0
  <2>1. Chances(o) = 0
    <3>1. CASE <<"inventory.reservation.failed", o>> \in notified
      BY <1>2, <3>1 DEF RefusedIsSpent
    <3>2. CASE <<"inventory.reservation.failed", o>> \notin notified
      <4>1. handler = "failing" /\ o = Subject
        BY <1>2, <1>4, <3>2, RefusalNotified
      <4> QED
        BY <1>2, <4>1 DEF RefusedIsSpent
    <3> QED
      BY <3>1, <3>2
  <2>2. Chances(o)' <= Chances(o) /\ Chances(o)' \in Nat
    BY <1>2
  <2> QED
    BY <2>1, <2>2
<1> QED
  BY <1>3, <1>4

\* A customer who is told that the reservation failed has no stock left
\* reserved, as long as nothing else failed: the order was refused once, and
\* no second message, request or handler reserves it after all
\* (inventory.controller.ts:99-114).
THEOREM FailureLeavesNothingReserved == SagaSpec => []FailedMeansNotReserved
<1> DEFINE Inv == SagaInv /\ OneCreation /\ ChancesBounded /\ RefusedIsSpent
<1>1. SagaInit => Inv
  BY ChancesInit DEF SagaInit, Init, RefusedIsSpent
<1>2. Inv /\ [SagaNext]_sagaVars => Inv'
  BY ChancesNext, RefusedStep
<1>3. Inv => FailedMeansNotReserved
  <2> SUFFICES ASSUME SagaInv, faults = 0, NEW o \in Orders, Chances(o) = 0
               PROVE  held[o] = 0
    BY DEF FailedMeansNotReserved, FailureHoldsNothing, RefusedIsSpent
  <2>1. held[o] \in Nat /\ Ahead(o) \in Nat
    BY AheadIsNat
  <2> QED
    BY <2>1 DEF Chances
<1> HIDE DEF Inv
<1> QED
  BY <1>1, <1>2, <1>3, PTL DEF SagaSpec

-------------------------------------------------------------------------------
(* What the rows say about the orders.  Nothing is cut off at zero when a    *)
(* release or a delivery finds the order's own reservation among what the    *)
(* row has reserved.                                                         *)

Share(p, count, o) == IF p \in DOMAIN Cart[o] THEN count[o] * Cart[o][p] ELSE 0

\* What an order takes counts once more or once less.
LEMMA InCartsChange ==
  ASSUME IsFiniteSet(Orders), NEW p \in Products, NEW count \in [Orders -> Nat],
         NEW o \in Orders, NEW n \in Nat
  PROVE  /\ InCarts(p, count) \in Nat
         /\ InCarts(p, [count EXCEPT ![o] = n]) \in Nat
         /\ InCarts(p, [count EXCEPT ![o] = n]) + Share(p, count, o)
              = InCarts(p, count) + (IF p \in DOMAIN Cart[o] THEN n * Cart[o][p] ELSE 0)
<1> DEFINE f == [q \in Orders |-> IF p \in DOMAIN Cart[q] THEN count[q] * Cart[q][p] ELSE 0]
           c == [count EXCEPT ![o] = n]
           g == [q \in Orders |-> IF p \in DOMAIN Cart[q] THEN c[q] * Cart[q][p] ELSE 0]
           v == IF p \in DOMAIN Cart[o] THEN n * Cart[o][p] ELSE 0
<1>1. f \in [Orders -> Nat] /\ v \in Nat
  BY CartAssumption
<1>2. c[o] = n /\ \A q \in Orders : q # o => c[q] = count[q]
  OBVIOUS
<1> HIDE DEF c
<1>3. g = [f EXCEPT ![o] = v]
  BY <1>2
<1>4. f[o] = Share(p, count, o) /\ DOMAIN f = Orders /\ DOMAIN g = Orders
  BY DEF Share
<1>5. InCarts(p, count) = SumFunctionOnSet(f, Orders) /\ InCarts(p, c) = SumFunctionOnSet(g, Orders)
  BY <1>4, Zenon DEF InCarts, SumFunction
<1> HIDE DEF f, g, v
<1>6. /\ SumFunctionOnSet(f, Orders) \in Nat
      /\ SumFunctionOnSet(g, Orders) \in Nat
      /\ SumFunctionOnSet(g, Orders) + f[o] = SumFunctionOnSet(f, Orders) + v
  BY <1>1, <1>3, SumChanges
<1> QED
  BY <1>4, <1>5, <1>6 DEF c, v

\* A product the order does not contain is not concerned.
LEMMA InCartsElsewhere ==
  ASSUME IsFiniteSet(Orders), NEW p \in Products, NEW count \in [Orders -> Nat],
         NEW o \in Orders, p \notin DOMAIN Cart[o], NEW n \in Nat
  PROVE  InCarts(p, [count EXCEPT ![o] = n]) = InCarts(p, count)
<1> DEFINE x == InCarts(p, [count EXCEPT ![o] = n])
<1>1. /\ InCarts(p, count) \in Nat
      /\ x \in Nat
      /\ x + Share(p, count, o) = InCarts(p, count) + (IF p \in DOMAIN Cart[o] THEN n * Cart[o][p] ELSE 0)
  BY InCartsChange, Zenon
<1> HIDE DEF x
<1>2. x = InCarts(p, count)
  BY <1>1 DEF Share
<1> QED
  BY <1>2 DEF x

\* One order more and one order less of those that contain the product.
LEMMA InCartsCounts ==
  ASSUME IsFiniteSet(Orders), NEW p \in Products, NEW count \in [Orders -> Nat],
         NEW o \in Orders, p \in DOMAIN Cart[o]
  PROVE  /\ InCarts(p, count) \in Nat
         /\ Cart[o][p] \in Nat
         /\ InCarts(p, [count EXCEPT ![o] = count[o] + 1]) = InCarts(p, count) + Cart[o][p]
         /\ count[o] > 0
              => /\ InCarts(p, [count EXCEPT ![o] = count[o] - 1]) \in Nat
                 /\ InCarts(p, [count EXCEPT ![o] = count[o] - 1]) + Cart[o][p] = InCarts(p, count)
<1>1. Cart[o][p] \in Nat /\ count[o] \in Nat /\ count[o] + 1 \in Nat
  BY CartAssumption
<1> DEFINE x == InCarts(p, [count EXCEPT ![o] = count[o] + 1])
           y == InCarts(p, [count EXCEPT ![o] = count[o] - 1])
           i == InCarts(p, count)
<1>2. i \in Nat /\ x \in Nat /\ x + count[o] * Cart[o][p] = i + (count[o] + 1) * Cart[o][p]
  BY <1>1, InCartsChange DEF Share
<1>3. count[o] > 0 => y \in Nat /\ y + count[o] * Cart[o][p] = i + (count[o] - 1) * Cart[o][p]
  <2> SUFFICES ASSUME count[o] > 0
               PROVE  y \in Nat /\ y + count[o] * Cart[o][p] = i + (count[o] - 1) * Cart[o][p]
    OBVIOUS
  <2>1. count[o] - 1 \in Nat
    BY <1>1
  <2> QED
    BY <2>1, InCartsChange DEF Share
<1> HIDE DEF x, y, i
<1>4. \A k, c \in Nat : (k + 1) * c = k * c + c /\ (k - 1) * c = k * c - c /\ k * c \in Nat
  OBVIOUS
<1>5. x = i + Cart[o][p] /\ (count[o] > 0 => y + Cart[o][p] = i)
  BY <1>1, <1>2, <1>3, <1>4
<1> QED
  BY <1>1, <1>2, <1>3, <1>5 DEF x, y, i

\* What is held can be given back: its rows are there.
HeldIsThere == \A o \in Orders : held[o] > 0 => \A p \in DOMAIN Cart[o] : Exists(stock[p])

\* No handler of an order makes a row appear or go.
LEMMA StatusesStay ==
  ASSUME NEW S, NEW rows \in [S -> Row], NEW cart, NEW p \in S
  PROVE  /\ ReserveAll(rows, cart)[p].status = rows[p].status
         /\ ReleaseAll(rows, cart)[p].status = rows[p].status
         /\ FinalizeAll(rows, cart)[p].status = rows[p].status
BY DEF ReserveAll, ReleaseAll, FinalizeAll, Reserve, Release, Finalize, WithStock

TellsOf(p, rows, h, f) ==
  /\ rows[p].reserved = InitStock[p].reserved + InCarts(p, h)
  /\ rows[p].quantity + InCarts(p, f) = InitStock[p].quantity

\* The three handlers that write rows, product by product.
LEMMA ReserveTells ==
  ASSUME IsFiniteSet(Orders), SagaInv, StockTellsOrders, ReserveStock
  PROVE  StockTellsOrders'
<1>1. PICK s \in Orders : s = Subject
  BY SubjectCart DEF ReserveStock, Handling, SagaInv
<1>2. /\ stock' = ReserveAll(stock, Cart[s]) /\ held' = [held EXCEPT ![s] = held[s] + 1] /\ finalized' = finalized
      /\ held \in [Orders -> Nat] /\ stock \in [Products -> Row] /\ held[s] + 1 \in Nat
  BY <1>1 DEF ReserveStock, SagaInv, SagaTypeOK
<1>3. ASSUME NEW p \in Products PROVE TellsOf(p, stock', held', finalized')
  <2>1. TellsOf(p, stock, held, finalized)
    BY DEF TellsOf, StockTellsOrders
  <2>2. CASE p \notin DOMAIN Cart[s]
    <3>1. InCarts(p, held') = InCarts(p, held)
      BY <1>2, <2>2, InCartsElsewhere
    <3>2. stock'[p] = stock[p]
      BY <1>2, <2>2 DEF ReserveAll
    <3> QED
      BY <1>2, <2>1, <3>1, <3>2 DEF TellsOf
  <2>3. CASE p \in DOMAIN Cart[s]
    <3>1. Cart[s][p] \in Nat /\ InCarts(p, held) \in Nat /\ InCarts(p, held') = InCarts(p, held) + Cart[s][p]
      BY <1>2, <2>3, InCartsCounts
    <3>2. stock'[p].quantity = stock[p].quantity /\ stock'[p].reserved = stock[p].reserved + Cart[s][p]
      BY <1>2, <2>3 DEF ReserveAll, Reserve, WithStock
    <3>3. InitStock[p].reserved \in Int
      BY InitStockAssumption DEF Row
    <3> QED
      BY <1>2, <2>1, <3>1, <3>2, <3>3 DEF TellsOf
  <2> QED
    BY <2>2, <2>3
<1> QED
  BY <1>3 DEF TellsOf, StockTellsOrders

\* A row has at least as much reserved as a holding order took.
LEMMA HeldIsReserved ==
  ASSUME IsFiniteSet(Orders), SagaInv, StockTellsOrders, NEW s \in Orders, held[s] > 0,
         NEW p \in DOMAIN Cart[s]
  PROVE  stock[p].reserved >= Cart[s][p] /\ stock[p].quantity >= Cart[s][p]
<1>1. p \in Products /\ held \in [Orders -> Nat]
  BY CartAssumption DEF SagaInv, SagaTypeOK
<1> DEFINE y == InCarts(p, [held EXCEPT ![s] = held[s] - 1])
<1>2. Cart[s][p] \in Nat /\ InCarts(p, held) \in Nat /\ y \in Nat /\ y + Cart[s][p] = InCarts(p, held)
  BY <1>1, InCartsCounts
<1> HIDE DEF y
<1>3. InitStock[p].reserved \in Int /\ 0 <= InitStock[p].reserved
  BY <1>1, InitStockAssumption DEF Row, Balanced
<1>4. /\ stock[p].reserved = InitStock[p].reserved + InCarts(p, held)
      /\ stock[p].quantity \in Int /\ stock[p].reserved <= stock[p].quantity
  BY <1>1 DEF StockTellsOrders, SagaInv, SagaTypeOK, StockBalance, Balanced, Row
<1> QED
  BY <1>2, <1>3, <1>4

\* held is not cut off at zero either.
LEMMA GivesBackOne ==
  ASSUME SagaInv, NEW s \in Orders, held[s] > 0, GiveBack(s)
  PROVE  held' = [held EXCEPT ![s] = held[s] - 1] /\ held[s] - 1 \in Nat /\ held \in [Orders -> Nat]
<1>1. held \in [Orders -> Nat] /\ held[s] - 1 \in Nat
  BY DEF SagaInv, SagaTypeOK
<1>2. AtLeastZero(held[s] - 1) = held[s] - 1
  BY <1>1 DEF AtLeastZero
<1> QED
  BY <1>1, <1>2 DEF GiveBack

LEMMA ReleaseTells ==
  ASSUME IsFiniteSet(Orders), SagaInv, StockTellsOrders, HeldIsThere, ReleaseStock, held[Subject] > 0
  PROVE  StockTellsOrders'
<1>1. PICK s \in Orders : s = Subject
  BY SubjectCart DEF ReleaseStock, Handling, SagaInv
<1>2. /\ stock' = ReleaseAll(stock, Cart[s]) /\ held' = [held EXCEPT ![s] = held[s] - 1] /\ finalized' = finalized
      /\ held \in [Orders -> Nat] /\ stock \in [Products -> Row] /\ held[s] - 1 \in Nat /\ held[s] > 0
  BY <1>1, GivesBackOne DEF ReleaseStock, SagaInv, SagaTypeOK
<1>3. ASSUME NEW p \in Products PROVE TellsOf(p, stock', held', finalized')
  <2>1. TellsOf(p, stock, held, finalized)
    BY DEF TellsOf, StockTellsOrders
  <2>2. CASE p \notin DOMAIN Cart[s]
    <3>1. InCarts(p, held') = InCarts(p, held)
      BY <1>2, <2>2, InCartsElsewhere
    <3>2. stock'[p] = stock[p]
      BY <1>2, <2>2 DEF ReleaseAll
    <3> QED
      BY <1>2, <2>1, <3>1, <3>2 DEF TellsOf
  <2>3. CASE p \in DOMAIN Cart[s]
    <3>1. /\ Cart[s][p] \in Nat /\ InCarts(p, held) \in Nat
          /\ InCarts(p, held') \in Nat /\ InCarts(p, held') + Cart[s][p] = InCarts(p, held)
      BY <1>2, <2>3, InCartsCounts
    <3>2. Exists(stock[p]) /\ stock[p].reserved >= Cart[s][p] /\ stock[p].reserved \in Int
      BY <1>2, <2>3, HeldIsReserved DEF HeldIsThere, Row
    <3>3. AtLeastZero(stock[p].reserved - Cart[s][p]) = stock[p].reserved - Cart[s][p]
      BY <3>1, <3>2 DEF AtLeastZero
    <3>4. stock'[p].quantity = stock[p].quantity /\ stock'[p].reserved = stock[p].reserved - Cart[s][p]
      BY <1>2, <2>3, <3>2, <3>3 DEF ReleaseAll, Release, WithStock
    <3>5. InitStock[p].reserved \in Int
      BY InitStockAssumption DEF Row
    <3> QED
      BY <1>2, <2>1, <3>1, <3>2, <3>4, <3>5 DEF TellsOf
  <2> QED
    BY <2>2, <2>3
<1> QED
  BY <1>3 DEF TellsOf, StockTellsOrders

LEMMA FinalizeTells ==
  ASSUME IsFiniteSet(Orders), SagaInv, StockTellsOrders, HeldIsThere, FinalizeStock, held[Subject] > 0
  PROVE  StockTellsOrders'
<1>1. PICK s \in Orders : s = Subject
  BY SubjectCart DEF FinalizeStock, Handling, SagaInv
<1>2. /\ stock' = FinalizeAll(stock, Cart[s]) /\ held' = [held EXCEPT ![s] = held[s] - 1]
      /\ finalized' = [finalized EXCEPT ![s] = finalized[s] + 1] /\ finalized[s] + 1 \in Nat
      /\ held \in [Orders -> Nat] /\ stock \in [Products -> Row] /\ held[s] - 1 \in Nat /\ held[s] > 0
      /\ finalized \in [Orders -> Nat]
  <2>1. held' = [held EXCEPT ![s] = held[s] - 1] /\ held[s] - 1 \in Nat /\ held \in [Orders -> Nat] /\ held[s] > 0
    BY <1>1, GivesBackOne DEF FinalizeStock
  <2>2. stock \in [Products -> Row] /\ finalized \in [Orders -> Nat] /\ finalized[s] + 1 \in Nat
    BY DEF SagaInv, SagaTypeOK
  <2> QED
    BY <1>1, <2>1, <2>2 DEF FinalizeStock
<1>3. ASSUME NEW p \in Products PROVE TellsOf(p, stock', held', finalized')
  <2>1. TellsOf(p, stock, held, finalized)
    BY DEF TellsOf, StockTellsOrders
  <2>2. CASE p \notin DOMAIN Cart[s]
    <3>1. InCarts(p, held') = InCarts(p, held) /\ InCarts(p, finalized') = InCarts(p, finalized)
      BY <1>2, <2>2, InCartsElsewhere
    <3>2. stock'[p] = stock[p]
      BY <1>2, <2>2 DEF FinalizeAll
    <3> QED
      BY <2>1, <3>1, <3>2 DEF TellsOf
  <2>3. CASE p \in DOMAIN Cart[s]
    <3>1. /\ Cart[s][p] \in Nat /\ InCarts(p, held) \in Nat
          /\ InCarts(p, held') \in Nat /\ InCarts(p, held') + Cart[s][p] = InCarts(p, held)
      BY <1>2, <2>3, InCartsCounts
    <3>2. InCarts(p, finalized) \in Nat /\ InCarts(p, finalized') = InCarts(p, finalized) + Cart[s][p]
      BY <1>2, <2>3, InCartsCounts
    <3>3. /\ Exists(stock[p]) /\ stock[p].reserved >= Cart[s][p] /\ stock[p].quantity >= Cart[s][p]
          /\ stock[p].reserved \in Int /\ stock[p].quantity \in Int
      BY <1>2, <2>3, HeldIsReserved DEF HeldIsThere, Row
    <3>4. /\ AtLeastZero(stock[p].reserved - Cart[s][p]) = stock[p].reserved - Cart[s][p]
          /\ AtLeastZero(stock[p].quantity - Cart[s][p]) = stock[p].quantity - Cart[s][p]
      BY <3>1, <3>3 DEF AtLeastZero
    <3>5. /\ stock'[p].quantity = stock[p].quantity - Cart[s][p]
          /\ stock'[p].reserved = stock[p].reserved - Cart[s][p]
      BY <1>2, <2>3, <3>3, <3>4 DEF FinalizeAll, Finalize, WithStock
    <3>6. InitStock[p].reserved \in Int /\ InitStock[p].quantity \in Int
      BY InitStockAssumption DEF Row
    <3> QED
      BY <2>1, <3>1, <3>2, <3>3, <3>5, <3>6 DEF TellsOf
  <2> QED
    BY <2>2, <2>3
<1> QED
  BY <1>3 DEF TellsOf, StockTellsOrders

\* The steps that touch the rows or the account of them.
LEMMA StockSteps ==
  [SagaNext]_sagaVars => ReserveStock \/ ReleaseStock \/ FinalizeStock \/ UNCHANGED <<stock, held, finalized>>
BY DEF SagaNext, PlaceOrder, InventoryStep, RefuseOrder, AnswerReserved, AnswerFailed, Settle,
   InventoryFault, HandlerFails, AnswerFails, InventoryCrash, EventExpires, inventoryVars, sagaVars

LEMMA HeldIsThereNext ==
  ASSUME SagaInv, HeldIsThere, ReserveStock \/ ReleaseStock \/ FinalizeStock
  PROVE  HeldIsThere'
<1>1. PICK s \in Orders : s = Subject
  BY SubjectCart DEF ReserveStock, ReleaseStock, FinalizeStock, Handling, SagaInv
<1>2. stock \in [Products -> Row] /\ held \in [Orders -> Nat]
  BY DEF SagaInv, SagaTypeOK
<1>3. \A p \in Products : stock'[p].status = stock[p].status
  BY <1>2, StatusesStay DEF ReserveStock, ReleaseStock, FinalizeStock
<1>4. \A o \in Orders : held'[o] > 0 => held[o] > 0 \/ (o = s /\ ReserveStock)
  BY <1>1, <1>2 DEF ReserveStock, ReleaseStock, FinalizeStock, GiveBack, AtLeastZero
<1>5. ReserveStock => \A p \in DOMAIN Cart[s] : Exists(stock[p])
  BY <1>1 DEF ReserveStock, CanReserveAll, CanReserve
<1> QED
  BY <1>3, <1>4, <1>5, CartAssumption DEF HeldIsThere, Exists

LEMMA StockTellsInit ==
  ASSUME IsFiniteSet(Orders), SagaInit
  PROVE  StockTellsOrders /\ HeldIsThere
<1> DEFINE zero == [o \in Orders |-> 0]
<1>1. ASSUME NEW p \in Products PROVE InCarts(p, zero) = 0
  <2> DEFINE f == [o \in Orders |-> IF p \in DOMAIN Cart[o] THEN zero[o] * Cart[o][p] ELSE 0]
  <2>1. f \in [Orders -> Nat] /\ \A o \in Orders : f[o] = 0
    BY CartAssumption
  <2>2. DOMAIN f = Orders
    OBVIOUS
  <2>3. InCarts(p, zero) = SumFunctionOnSet(f, Orders)
    BY <2>2, Zenon DEF InCarts, SumFunction
  <2> HIDE DEF f
  <2> QED
    BY <2>1, <2>3, SumOfZeros
<1>2. stock = InitStock /\ held = zero /\ finalized = zero
  BY DEF SagaInit
<1>3. \A o \in Orders : zero[o] = 0
  OBVIOUS
<1> HIDE DEF zero
<1>4. \A p \in Products : InitStock[p].reserved \in Int /\ InitStock[p].quantity \in Int
  BY InitStockAssumption DEF Row
<1> QED
  BY <1>1, <1>2, <1>3, <1>4 DEF StockTellsOrders, HeldIsThere

\* While rows and orders agree they go on agreeing, unless an order ends that
\* nothing is held for.
LEMMA StockTellsNext ==
  ASSUME IsFiniteSet(Orders), SagaInv, HeldIsThere, StockTellsOrders, [SagaNext]_sagaVars
  PROVE  StockTellsOrders' \/ UnheldEnd
<1>1. CASE ReserveStock
  BY <1>1, ReserveTells
<1>2. ASSUME NEW type \in {"order.cancelled", "order.delivered"}, Handling(type), ~UnheldEnd
      PROVE  held[Subject] > 0
  <2>1. PICK s \in Orders : s = Subject
    BY <1>2, SubjectCart DEF Handling, SagaInv
  <2>2. held[s] \in Nat
    BY DEF SagaInv, SagaTypeOK
  <2> QED
    BY <1>2, <2>1, <2>2 DEF Handling, UnheldEnd
<1>3. CASE ReleaseStock
  BY <1>2, <1>3, ReleaseTells DEF ReleaseStock
<1>4. CASE FinalizeStock
  BY <1>2, <1>4, FinalizeTells DEF FinalizeStock
<1>5. CASE UNCHANGED <<stock, held, finalized>>
  BY <1>5 DEF StockTellsOrders, InCarts
<1> QED
  BY <1>1, <1>3, <1>4, <1>5, StockSteps

-------------------------------------------------------------------------------
(* The side on which the rows err. *)

\* Giving back takes as much off the row as off the account, unless there is
\* less to take.
LEMMA GivenBackAccounts ==
  ASSUME IsFiniteSet(Orders), SagaInv, StockIsAccountedFor, HeldIsThere,
         NEW s \in Orders, GiveBack(s), NEW p \in Products, NEW reserved,
         reserved = IF p \in DOMAIN Cart[s] /\ Exists(stock[p])
                    THEN AtLeastZero(stock[p].reserved - Cart[s][p]) ELSE stock[p].reserved
  PROVE  reserved <= InitStock[p].reserved + InCarts(p, held')
<1>1. /\ held \in [Orders -> Nat] /\ stock[p].reserved \in Int /\ 0 <= stock[p].reserved
      /\ stock[p].reserved <= InitStock[p].reserved + InCarts(p, held)
  BY DEF SagaInv, SagaTypeOK, StockBalance, Balanced, Row, StockIsAccountedFor
<1>2. InitStock[p].reserved \in Int /\ 0 <= InitStock[p].reserved
  BY InitStockAssumption DEF Row, Balanced
<1> DEFINE n == AtLeastZero(held[s] - 1)
<1>3. n \in Nat /\ held' = [held EXCEPT ![s] = n] /\ held[s] \in Nat
  BY <1>1 DEF GiveBack, AtLeastZero
<1>4. CASE p \notin DOMAIN Cart[s]
  <2>1. InCarts(p, held') = InCarts(p, held)
    BY <1>1, <1>3, <1>4, InCartsElsewhere
  <2> QED
    BY <1>1, <1>4, <2>1
<1>5. CASE p \in DOMAIN Cart[s] /\ held[s] = 0
  <2>1. held' = held
    BY <1>1, <1>3, <1>5 DEF AtLeastZero
  <2>2. Cart[s][p] \in Nat
    BY <1>5, CartAssumption
  <2>3. reserved <= stock[p].reserved /\ reserved \in Int
    BY <1>1, <1>5, <2>2 DEF AtLeastZero
  <2>4. InCarts(p, held) \in Nat
    BY <1>1, <1>5, InCartsCounts
  <2> QED
    BY <1>1, <1>2, <2>1, <2>3, <2>4
<1>6. CASE p \in DOMAIN Cart[s] /\ held[s] > 0
  <2>1. n = held[s] - 1
    BY <1>3, <1>6 DEF AtLeastZero
  <2>2. /\ InCarts(p, held) \in Nat /\ Cart[s][p] \in Nat
        /\ InCarts(p, held') \in Nat /\ InCarts(p, held') + Cart[s][p] = InCarts(p, held)
    BY <1>1, <1>3, <1>6, <2>1, InCartsCounts
  <2>3. reserved = AtLeastZero(stock[p].reserved - Cart[s][p])
    BY <1>6 DEF HeldIsThere
  <2> QED
    BY <1>1, <1>2, <2>2, <2>3 DEF AtLeastZero
<1> QED
  BY <1>3, <1>4, <1>5, <1>6

LEMMA ReserveAccounts ==
  ASSUME IsFiniteSet(Orders), SagaInv, StockIsAccountedFor, ReserveStock
  PROVE  StockIsAccountedFor'
<1>1. PICK s \in Orders : s = Subject
  BY SubjectCart DEF ReserveStock, Handling, SagaInv
<1>2. /\ stock' = ReserveAll(stock, Cart[s]) /\ held' = [held EXCEPT ![s] = held[s] + 1] /\ finalized' = finalized
      /\ held \in [Orders -> Nat] /\ stock \in [Products -> Row] /\ held[s] + 1 \in Nat
  BY <1>1 DEF ReserveStock, SagaInv, SagaTypeOK
<1>3. ASSUME NEW p \in Products
      PROVE  /\ stock'[p].reserved <= InitStock[p].reserved + InCarts(p, held')
             /\ stock'[p].quantity = stock[p].quantity
  <2>1. stock[p].reserved <= InitStock[p].reserved + InCarts(p, held) /\ stock[p].reserved \in Int
    BY <1>2 DEF StockIsAccountedFor, Row
  <2>2. CASE p \notin DOMAIN Cart[s]
    <3>1. InCarts(p, held') = InCarts(p, held)
      BY <1>2, <2>2, InCartsElsewhere
    <3>2. stock'[p] = stock[p]
      BY <1>2, <2>2 DEF ReserveAll
    <3> QED
      BY <2>1, <3>1, <3>2
  <2>3. CASE p \in DOMAIN Cart[s]
    <3>1. Cart[s][p] \in Nat /\ InCarts(p, held) \in Nat /\ InCarts(p, held') = InCarts(p, held) + Cart[s][p]
      BY <1>2, <2>3, InCartsCounts
    <3>2. stock'[p].quantity = stock[p].quantity /\ stock'[p].reserved = stock[p].reserved + Cart[s][p]
      BY <1>2, <2>3 DEF ReserveAll, Reserve, WithStock
    <3>3. InitStock[p].reserved \in Int
      BY InitStockAssumption DEF Row
    <3> QED
      BY <2>1, <3>1, <3>2, <3>3
  <2> QED
    BY <2>2, <2>3
<1>4. \A p \in Products : InCarts(p, finalized') = InCarts(p, finalized)
  BY <1>2 DEF InCarts
<1> QED
  BY <1>3, <1>4 DEF StockIsAccountedFor

LEMMA ReleaseAccounts ==
  ASSUME IsFiniteSet(Orders), SagaInv, StockIsAccountedFor, HeldIsThere, ReleaseStock
  PROVE  StockIsAccountedFor'
<1>1. PICK s \in Orders : s = Subject
  BY SubjectCart DEF ReleaseStock, Handling, SagaInv
<1>2. /\ stock' = ReleaseAll(stock, Cart[s]) /\ GiveBack(s) /\ finalized' = finalized
      /\ stock \in [Products -> Row]
  BY <1>1 DEF ReleaseStock, SagaInv, SagaTypeOK
<1>3. ASSUME NEW p \in Products
      PROVE  /\ stock'[p].reserved <= InitStock[p].reserved + InCarts(p, held')
             /\ stock'[p].quantity = stock[p].quantity
  <2>1. /\ stock'[p].quantity = stock[p].quantity
        /\ stock'[p].reserved = IF p \in DOMAIN Cart[s] /\ Exists(stock[p])
                                THEN AtLeastZero(stock[p].reserved - Cart[s][p]) ELSE stock[p].reserved
    BY <1>2 DEF ReleaseAll, Release, WithStock
  <2> QED
    BY <1>2, <2>1, GivenBackAccounts
<1>4. \A p \in Products : InCarts(p, finalized') = InCarts(p, finalized)
  BY <1>2 DEF InCarts
<1> QED
  BY <1>3, <1>4 DEF StockIsAccountedFor

LEMMA FinalizeAccounts ==
  ASSUME IsFiniteSet(Orders), SagaInv, StockIsAccountedFor, HeldIsThere, FinalizeStock
  PROVE  StockIsAccountedFor'
<1>1. PICK s \in Orders : s = Subject
  BY SubjectCart DEF FinalizeStock, Handling, SagaInv
<1>2. /\ stock' = FinalizeAll(stock, Cart[s]) /\ GiveBack(s)
      /\ finalized' = [finalized EXCEPT ![s] = finalized[s] + 1] /\ finalized[s] + 1 \in Nat
      /\ finalized \in [Orders -> Nat] /\ stock \in [Products -> Row]
  BY <1>1 DEF FinalizeStock, SagaInv, SagaTypeOK
<1>3. ASSUME NEW p \in Products
      PROVE  stock'[p].reserved <= InitStock[p].reserved + InCarts(p, held')
  <2>1. stock'[p].reserved = IF p \in DOMAIN Cart[s] /\ Exists(stock[p])
                             THEN AtLeastZero(stock[p].reserved - Cart[s][p]) ELSE stock[p].reserved
    BY <1>2 DEF FinalizeAll, Finalize, WithStock
  <2> QED
    BY <1>2, <2>1, GivenBackAccounts
<1>4. ASSUME NEW p \in Products
      PROVE  InitStock[p].quantity <= stock'[p].quantity + InCarts(p, finalized')
  <2>1. /\ InitStock[p].quantity <= stock[p].quantity + InCarts(p, finalized)
        /\ stock[p].quantity \in Int /\ InitStock[p].quantity \in Int
    BY <1>2, InitStockAssumption DEF StockIsAccountedFor, Row
  <2>2. CASE p \notin DOMAIN Cart[s]
    <3>1. InCarts(p, finalized') = InCarts(p, finalized)
      BY <1>2, <2>2, InCartsElsewhere
    <3>2. stock'[p] = stock[p]
      BY <1>2, <2>2 DEF FinalizeAll
    <3> QED
      BY <2>1, <3>1, <3>2
  <2>3. CASE p \in DOMAIN Cart[s]
    <3>1. /\ Cart[s][p] \in Nat /\ InCarts(p, finalized) \in Nat
          /\ InCarts(p, finalized') = InCarts(p, finalized) + Cart[s][p]
      BY <1>2, <2>3, InCartsCounts
    <3>2. stock'[p].quantity = IF Exists(stock[p]) THEN AtLeastZero(stock[p].quantity - Cart[s][p])
                                                   ELSE stock[p].quantity
      BY <1>2, <2>3 DEF FinalizeAll, Finalize, WithStock
    <3> QED
      BY <2>1, <3>1, <3>2 DEF AtLeastZero
  <2> QED
    BY <2>2, <2>3
<1> QED
  BY <1>3, <1>4 DEF StockIsAccountedFor

LEMMA AccountsInit ==
  ASSUME IsFiniteSet(Orders), SagaInit
  PROVE  HeldIsThere /\ StockIsAccountedFor
<1>1. StockTellsOrders /\ HeldIsThere
  BY StockTellsInit
<1>2. \A p \in Products :
        /\ stock[p].reserved \in Int /\ stock[p].quantity \in Int
        /\ InitStock[p].reserved \in Int /\ InitStock[p].quantity \in Int
  BY InitStockAssumption DEF SagaInit, Row
<1> QED
  BY <1>1, <1>2 DEF StockTellsOrders, StockIsAccountedFor

LEMMA AccountsNext ==
  ASSUME IsFiniteSet(Orders), SagaInv, HeldIsThere, StockIsAccountedFor, [SagaNext]_sagaVars
  PROVE  HeldIsThere' /\ StockIsAccountedFor'
<1>1. CASE ReserveStock
  BY <1>1, HeldIsThereNext, ReserveAccounts
<1>2. CASE ReleaseStock
  BY <1>2, HeldIsThereNext, ReleaseAccounts
<1>3. CASE FinalizeStock
  BY <1>3, HeldIsThereNext, FinalizeAccounts
<1>4. CASE UNCHANGED <<stock, held, finalized>>
  BY <1>4 DEF StockIsAccountedFor, HeldIsThere, InCarts
<1> QED
  BY <1>1, <1>2, <1>3, <1>4, StockSteps

\* Whatever is refused, lost, duplicated or redelivered, and however the
\* requests race: nothing is reserved beyond what the orders hold, and no more
\* left the shelves than was delivered, for any carts and any shop
\* (inventory.service.ts:190-381).
THEOREM RowsErrOnOneSide ==
  ASSUME IsFiniteSet(Orders)
  PROVE  SagaSpec => []StockIsAccountedFor
<1> DEFINE Inv == SagaInv /\ HeldIsThere /\ StockIsAccountedFor
<1>1. SagaInit => Inv
  BY SagaInitInv, AccountsInit
<1>2. Inv /\ [SagaNext]_sagaVars => Inv'
  BY SagaNextInv, AccountsNext
<1>3. Inv => StockIsAccountedFor
  OBVIOUS
<1> HIDE DEF Inv
<1> QED
  BY <1>1, <1>2, <1>3, PTL DEF SagaSpec

\* Rows and orders start telling different stories only where an order ends for
\* which nothing is held: no race of requests, no redelivery and no failed
\* answer does it by itself (inventory.service.ts:190-381).
THEOREM RowsDiverge ==
  ASSUME IsFiniteSet(Orders)
  PROVE  SagaSpec => RowsDivergeByUnheldEnds
<1> DEFINE Inv == SagaInv /\ HeldIsThere /\ StockIsAccountedFor
<1>1. SagaInit => Inv
  BY SagaInitInv, AccountsInit
<1>2. Inv /\ [SagaNext]_sagaVars => Inv'
  BY SagaNextInv, AccountsNext
<1> DEFINE Kept == /\ <<stock, held, finalized>>' # <<stock, held, finalized>>
                   /\ ~UnheldEnd
                   /\ StockTellsOrders
                   => StockTellsOrders'
<1>3. Inv /\ [SagaNext]_sagaVars => [Kept]_sagaVars
  BY StockTellsNext
<1> HIDE DEF Inv
<1> QED
  BY <1>1, <1>2, <1>3, PTL DEF SagaSpec, RowsDivergeByUnheldEnds
===============================================================================
