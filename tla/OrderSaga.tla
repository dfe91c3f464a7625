-------------------------------- MODULE OrderSaga --------------------------------
(***************************************************************************)
(* The Order Service and the order handlers of the Inventory Service,      *)
(* joined by inventory_queue and order_queue.  A handler's database        *)
(* transaction is one step here (module InventoryService shows that it     *)
(* behaves like one); the steps around it, where the process may stop or a *)
(* publish may fail, are kept.                                             *)
(*                                                                         *)
(* The code keeps no record of which order holds how much stock.  held and *)
(* finalized are that record, kept by the model to state properties about. *)
(***************************************************************************)
EXTENDS OrderService, Stock, Functions

CONSTANTS
  Products,
  Cart,       \* the lines of each order: a function from products to quantities
  InitStock   \* the rows the products start with

ASSUME CartAssumption ==
  \A o \in Orders :
    DOMAIN Cart[o] \subseteq Products /\ \A p \in DOMAIN Cart[o] : Cart[o][p] \in Nat
ASSUME InitStockAssumption ==
  InitStock \in [Products -> Row] /\ \A p \in Products : Balanced(InitStock[p])

VARIABLES
  stock,      \* the committed rows
  handler,    \* where the inventory_queue handler is with the head of the queue
  held,       \* reservations made for an order and not yet given back or used
  finalized   \* deliveries of an order taken off the stock

inventoryVars == <<stock, handler, held, finalized>>
sagaVars == <<vars, inventoryVars>>

-------------------------------------------------------------------------------
SagaInit ==
  /\ Init
  /\ stock = InitStock
  /\ handler = "idle"
  /\ held = [o \in Orders |-> 0]
  /\ finalized = [o \in Orders |-> 0]

\* inventory.validate: every line is active and available at that moment, and
\* nothing is set aside.
Available(o) ==
  \A p \in DOMAIN Cart[o] : stock[p].status = "ACTIVE" /\ stock[p].available >= Cart[o][p]

PlaceOrder(r, o) ==
  /\ handler # "stuck"
  /\ Available(o)
  /\ Validate(r, o)
  /\ UNCHANGED inventoryVars

Handling(type) == handler = "idle" /\ invQ # <<>> /\ Head(invQ).type = type

Subject == Head(invQ).order

GiveBack(o) == held' = [held EXCEPT ![o] = AtLeastZero(@ - 1)]

(* order.created *)

\* Mutants of ReserveStock: something fails after the transaction is committed;
\* the message is acknowledged before it is answered.
ReserveStockThenFail ==
  /\ Handling("order.created")
  /\ CanReserveAll(stock, Cart[Subject])
  /\ stock' = ReserveAll(stock, Cart[Subject])
  /\ held' = [held EXCEPT ![Subject] = @ + 1]
  /\ handler' \in {"reserved", "failing"}
  /\ UNCHANGED <<vars, finalized>>

ReserveStockAcksFirst ==
  /\ Handling("order.created")
  /\ CanReserveAll(stock, Cart[Subject])
  /\ stock' = ReserveAll(stock, Cart[Subject])
  /\ held' = [held EXCEPT ![Subject] = @ + 1]
  /\ handler' = "handled"
  /\ UNCHANGED <<vars, finalized>>

ReserveStock ==
  /\ Handling("order.created")
  /\ CanReserveAll(stock, Cart[Subject])
  /\ stock' = ReserveAll(stock, Cart[Subject])
  /\ held' = [held EXCEPT ![Subject] = @ + 1]
  /\ handler' = "reserved"
  /\ UNCHANGED <<vars, finalized>>

RefuseOrder ==
  /\ Handling("order.created")
  /\ ~CanReserveAll(stock, Cart[Subject])
  /\ handler' = "failing"
  /\ UNCHANGED <<vars, stock, held, finalized>>

\* Both answers go to order_queue first and to notification_queue then.
Answer(type) ==
  /\ ordQ' = Append(ordQ, [type |-> type, order |-> Subject])
  /\ notified' = notified \cup {<<type, Subject>>}
  /\ UNCHANGED <<status, history, slot, consumer, invQ, paid>>

AnswerReserved ==
  /\ handler = "reserved"
  /\ Answer("inventory.reserved")
  /\ handler' = "handled"
  /\ UNCHANGED <<faults, stock, held, finalized>>

AnswerFailed ==
  /\ handler = "failing"
  /\ Answer("inventory.reservation.failed")
  /\ handler' = "handled"
  /\ UNCHANGED <<faults, stock, held, finalized>>

(* order.cancelled and order.delivered *)

ReleaseStock ==
  /\ Handling("order.cancelled")
  /\ stock' = ReleaseAll(stock, Cart[Subject])
  /\ GiveBack(Subject)
  /\ handler' = "handled"
  /\ UNCHANGED <<vars, finalized>>

FinalizeStock ==
  /\ Handling("order.delivered")
  /\ stock' = FinalizeAll(stock, Cart[Subject])
  /\ GiveBack(Subject)
  /\ finalized' = [finalized EXCEPT ![Subject] = @ + 1]
  /\ handler' = "handled"
  /\ UNCHANGED vars

\* Mutant of Settle: nack with requeue.
SettleRequeues ==
  /\ handler = "handled"
  /\ invQ' = Append(Tail(invQ), Head(invQ))
  /\ handler' = "idle"
  /\ UNCHANGED <<status, history, slot, consumer, ordQ, notified, paid, faults, stock, held, finalized>>

\* ack, or nack without requeue: no dead-letter exchange takes the message.
Settle ==
  /\ handler = "handled"
  /\ invQ' = Tail(invQ)
  /\ handler' = "idle"
  /\ UNCHANGED <<status, history, slot, consumer, ordQ, notified, paid, faults, stock, held, finalized>>

(* Faults *)

\* The database fails in a handler: rolled back; a failed reservation is
\* answered, a release or a finalization is dropped.
HandlerFails ==
  /\ Fault("database")
  /\ handler = "idle" /\ invQ # <<>>
  /\ handler' = IF Head(invQ).type = "order.created" THEN "failing" ELSE "handled"
  /\ UNCHANGED <<orderVars, invQ, ordQ, notified, stock, held, finalized>>

\* The answer that the stock is reserved cannot be published, to either queue:
\* the catch block takes over, although the reservation is committed.  When
\* its own publish fails, the message is neither acked nor nacked.
AnswerFails ==
  /\ Fault("publish")
  /\ handler \in {"reserved", "failing"}
  /\ \/ UNCHANGED ordQ
     \/ ordQ' = Append(ordQ,
           [type |-> IF handler = "reserved" THEN "inventory.reserved" ELSE "inventory.reservation.failed",
            order |-> Subject])
  /\ handler' = IF handler = "reserved" THEN "failing" ELSE "stuck"
  /\ UNCHANGED <<orderVars, invQ, notified, stock, held, finalized>>

\* The broker delivers the unacknowledged message again after the restart.
InventoryCrash ==
  /\ Fault("crash")
  /\ handler # "idle"
  /\ handler' = "idle"
  /\ UNCHANGED <<orderVars, invQ, ordQ, notified, stock, held, finalized>>

\* Mutant of EventExpires: a message expires while it is being handled.
EventExpiresInHandler ==
  /\ Fault("expire")
  /\ invQ # <<>>
  /\ invQ' = Tail(invQ)
  /\ UNCHANGED <<orderVars, ordQ, notified, inventoryVars>>

EventExpires ==
  /\ Fault("expire")
  /\ handler = "idle" /\ invQ # <<>>
  /\ invQ' = Tail(invQ)
  /\ UNCHANGED <<orderVars, ordQ, notified, inventoryVars>>

-------------------------------------------------------------------------------
InventoryStep ==
  \/ ReserveStock \/ RefuseOrder \/ AnswerReserved \/ AnswerFailed
  \/ ReleaseStock \/ FinalizeStock \/ Settle

InventoryFault == HandlerFails \/ AnswerFails \/ InventoryCrash \/ EventExpires

SagaNext ==
  \/ \E r \in Requests, o \in Orders : PlaceOrder(r, o)
  \/ OrderStep /\ UNCHANGED inventoryVars
  \/ InventoryStep
  \/ InventoryFault

SagaSpec == SagaInit /\ [][SagaNext]_sagaVars

\* As in OrderService: what was started goes on, nobody has to start anything.
SagaFairness ==
  /\ \A r \in Requests : WF_sagaVars(RequestProgress(r) /\ UNCHANGED inventoryVars)
  /\ WF_sagaVars(ConsumerStep /\ UNCHANGED inventoryVars)
  /\ WF_sagaVars(InventoryStep)

FairSagaSpec == SagaSpec /\ SagaFairness

-------------------------------------------------------------------------------
(* Properties *)

SagaTypeOK ==
  /\ TypeOK
  /\ stock \in [Products -> Row]
  /\ handler \in {"idle", "reserved", "failing", "handled", "stuck"}
  /\ handler \in {"reserved", "failing", "handled", "stuck"} => invQ # <<>>
  /\ held \in [Orders -> Nat]
  /\ finalized \in [Orders -> Nat]

\* However the requests interleave, whatever is lost, sent twice or handled
\* twice, the counters of a row agree and no more is promised than there is
\* (inventory.service.ts:190-381).
StockBalance == \A p \in Products : Balanced(stock[p])

\* No stock is set aside and none leaves the shelves for an order that was not
\* paid, under every interleaving and fault (order.service.ts:66-78 up to
\* inventory.controller.ts:87).
ReservedWasPaid == \A o \in Orders : held[o] > 0 \/ finalized[o] > 0 => o \in paid

\* Redelivery and retries do not reserve an order's stock a second time:
\* "Manual acknowledgment prevents message reprocessing" (README.md:261).
ReservedAtMostOnce == \A o \in Orders : held[o] <= 1

\* What the code does keep: requests that race never reserve an order twice by
\* themselves, and each restart, lost confirmation or other fault costs one
\* more reservation at most (inventory.controller.ts:63-122).
ReservedOncePerFault == \A o \in Orders : held[o] <= 1 + faults

\* The answer tells what became of the reservation: "If failed: Publishes
\* `inventory.reservation.failed` event" (README.md:87), so that nothing stays
\* reserved for an order whose customer was told so.
FailureHoldsNothing ==
  \A o \in Orders : <<"inventory.reservation.failed", o>> \in notified => held[o] = 0

\* What the code does keep: so it is as long as nothing else failed, however
\* the orders race for the last piece (inventory.controller.ts:99-114).
FailedMeansNotReserved == faults = 0 => FailureHoldsNothing

\* How much of a product the orders account for, if each counts as often as
\* count says.
InCarts(p, count) ==
  SumFunction([o \in Orders |-> IF p \in DOMAIN Cart[o] THEN count[o] * Cart[o][p] ELSE 0])

\* The rows and the orders tell the same story: what is reserved belongs to an
\* order that holds it, and what left the shelves was delivered
\* (inventory.service.ts:190-381, which keep no such record).
StockTellsOrders ==
  \A p \in Products :
    /\ stock[p].reserved = InitStock[p].reserved + InCarts(p, held)
    /\ stock[p].quantity + InCarts(p, finalized) = InitStock[p].quantity

\* Whatever is refused, lost, sent or handled twice, the rows err on one side
\* only: nothing is reserved beyond what the orders hold, and no more left the
\* shelves than was delivered (Math.max in inventory.service.ts:269 and :321).
StockIsAccountedFor ==
  \A p \in Products :
    /\ stock[p].reserved <= InitStock[p].reserved + InCarts(p, held)
    /\ InitStock[p].quantity <= stock[p].quantity + InCarts(p, finalized)

\* A cancellation or a delivery reaches the inventory that has nothing reserved
\* for its order.
UnheldEnd ==
  /\ handler = "idle" /\ invQ # <<>>
  /\ Head(invQ).type \in {"order.cancelled", "order.delivered"}
  /\ held[Subject] = 0

\* Such an end, of an order that was refused, lost or ended before, is the only
\* thing that makes rows and orders tell different stories: no race, redelivery
\* or failed answer does by itself (inventory.service.ts:190-381).
RowsDivergeByUnheldEnds ==
  [][/\ <<stock, held, finalized>>' # <<stock, held, finalized>>
     /\ ~UnheldEnd
     /\ StockTellsOrders
     => StockTellsOrders']_sagaVars

\* "Inventory Service releases reserved inventory" (README.md:99): a
\* cancellation gives back what its own order reserved, nobody else's.
ReleasesOwnStock ==
  [][Handling("order.cancelled") /\ stock' # stock => held[Subject] > 0]_sagaVars

\* An order announced to the inventory gets its answer, one or the other
\* (inventory.controller.ts:63-122).
CreationIsAnswered ==
  \A o \in Orders :
    <<"order.created", o>> \in notified
      ~> \E type \in ReplyEvents : <<type, o>> \in notified

\* An order that ended holds no stock from some moment on (README.md:99 for
\* cancelled orders; inventory.service.ts:294-381 for delivered ones).
EndedOrdersHoldNothing ==
  \A o \in Orders : IsFinalStatus(status[o]) ~> [](held[o] = 0)
===============================================================================
