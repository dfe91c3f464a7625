------------------------------ MODULE OrderService ------------------------------
(***************************************************************************)
(* The Order Service: HTTP requests that create, cancel and re-status      *)
(* orders, and the consumer of order_queue.  Every await of the code is a  *)
(* step boundary: between reading an order (findOne) and saving it, other  *)
(* requests and the consumer run.                                          *)
(*                                                                         *)
(* A request slot is one HTTP request in progress.  Requests in progress   *)
(* at the same time are as many as there are slots; a slot is used again   *)
(* by later requests.                                                      *)
(*                                                                         *)
(* The other end of inventory_queue is the Inventory Service.  Here it is  *)
(* anything that takes a message and may answer with one of Replies;       *)
(* module OrderSaga puts the real one in its place.                        *)
(***************************************************************************)
EXTENDS Naturals, Sequences, OrderStatusRules

CONSTANTS
  Orders,            \* the orders customers may place
  Requests,          \* request slots
  PatchTargets,      \* statuses administrators ask for with PATCH :id/status
  CustomerCancels,   \* whether customers call POST :id/cancel
  PaymentOutcomes,   \* what the payment service may answer, a set of Booleans
  Replies,           \* what the Inventory Service may answer order.created with
  FaultKinds,        \* which faults happen
  MaxFaults,         \* bound: how many of them
  NoOrder            \* not an order

ASSUME NoOrderAssumption == NoOrder \notin Orders
ASSUME TargetsAssumption == PatchTargets \subseteq Statuses
ASSUME OutcomesAssumption == PaymentOutcomes \subseteq BOOLEAN
ASSUME RepliesAssumption == Replies \subseteq {"inventory.reserved", "inventory.reservation.failed"}
ASSUME FaultsAssumption == MaxFaults \in Nat

VARIABLES
  status,    \* orders.status, "NONE" before the row exists
  history,   \* order_history rows of each order, in insertion order
  slot,      \* the request each slot is running
  consumer,  \* the order_queue handler in progress
  invQ,      \* inventory_queue; the head stays there until it is acknowledged
  ordQ,      \* order_queue, likewise
  notified,  \* <<type, order>> pairs sent to notification_queue
  paid,      \* orders whose payment succeeded
  faults     \* faults so far

orderVars == <<status, history, slot, consumer, paid>>
vars == <<status, history, slot, consumer, invQ, ordQ, notified, paid, faults>>

-------------------------------------------------------------------------------
(* Data *)

OrderEvents == {"order.created", "order.cancelled", "order.delivered"}
ReplyEvents == {"inventory.reserved", "inventory.reservation.failed"}

Message(types) == [type : types, order : Orders]
Entry == [prev : Statuses, new : Statuses]

Idle == [pc |-> "idle", op |-> "none", order |-> NoOrder, seen |-> "NONE", target |-> "NONE"]

ConsumerIdle == [pc |-> "idle", order |-> NoOrder, seen |-> "NONE"]
Consumer == {ConsumerIdle} \cup [pc : {"read", "saved"}, order : Orders, seen : Statuses]

\* Mutant of EventOf: a creation is published whether or not it was paid for.
EventOfAnyCreation(op, target) ==
  CASE op = "create"                        -> "order.created"
    [] op = "cancel"                        -> "order.cancelled"
    [] op = "patch" /\ target = "DELIVERED" -> "order.delivered"
    [] OTHER                                -> "none"

\* The event that ends an operation: create publishes only after it confirmed,
\* cancel always, a status update only when the order is delivered.
EventOf(op, target) ==
  CASE op = "create" /\ target = "CONFIRMED" -> "order.created"
    [] op = "cancel"                         -> "order.cancelled"
    [] op = "patch" /\ target = "DELIVERED"  -> "order.delivered"
    [] OTHER                                 -> "none"

Operations == {"create", "cancel", "patch"}

\* A creation before its payment, and an operation that decided on a new status.
Slot ==
  {Idle}
  \cup [pc : {"validated", "paying"}, op : {"create"}, order : Orders,
        seen : {"NONE"}, target : {"NONE"}]
  \cup [pc : {"read", "saved"}, op : Operations, order : Orders,
        seen : Statuses, target : Statuses]
  \cup {s \in [pc : {"recorded"}, op : Operations, order : Orders,
               seen : Statuses, target : Statuses] : EventOf(s.op, s.target) # "none"}

-------------------------------------------------------------------------------
Init ==
  /\ status = [o \in Orders |-> "NONE"]
  /\ history = [o \in Orders |-> <<>>]
  /\ slot = [r \in Requests |-> Idle]
  /\ consumer = ConsumerIdle
  /\ invQ = <<>>
  /\ ordQ = <<>>
  /\ notified = {}
  /\ paid = {}
  /\ faults = 0

\* The entity findOne returned, on its way to save() with a new status.
Reading(op, o, target) ==
  [pc |-> "read", op |-> op, order |-> o, seen |-> status[o], target |-> target]

At(r, pc) == slot[r].pc = pc
Goto(r, pc) == slot' = [slot EXCEPT ![r].pc = pc]
Finish(r) == slot' = [slot EXCEPT ![r] = Idle]

(* POST /orders *)

\* The inventory.validate round trip succeeded for a new order.
Validate(r, o) ==
  /\ At(r, "idle")
  /\ status[o] = "NONE"
  /\ \A q \in Requests : slot[q].order # o
  /\ slot' = [slot EXCEPT ![r] = [pc |-> "validated", op |-> "create", order |-> o,
                                  seen |-> "NONE", target |-> "NONE"]]
  /\ UNCHANGED <<status, history, consumer, invQ, ordQ, notified, paid, faults>>

SavePending(r) ==
  /\ At(r, "validated")
  /\ status' = [status EXCEPT ![slot[r].order] = "PENDING"]
  /\ Goto(r, "paying")
  /\ UNCHANGED <<history, consumer, invQ, ordQ, notified, paid, faults>>

\* Mutants of Pay: the answer of the payment is not looked at; a failed payment
\* leaves the order as it is.
PayIgnoringAnswer(r) ==
  /\ At(r, "paying")
  /\ \E success \in PaymentOutcomes :
       LET o == slot[r].order
       IN  /\ slot' = [slot EXCEPT ![r] = IF IsValidStatusTransition(status[o], "CONFIRMED")
                                          THEN Reading("create", o, "CONFIRMED") ELSE Idle]
           /\ paid' = IF success THEN paid \cup {o} ELSE paid
  /\ UNCHANGED <<status, history, consumer, invQ, ordQ, notified, faults>>

PayWithoutCancelling(r) ==
  /\ At(r, "paying")
  /\ \E success \in PaymentOutcomes :
       LET o == slot[r].order
       IN  /\ slot' = [slot EXCEPT ![r] = IF success /\ IsValidStatusTransition(status[o], "CONFIRMED")
                                          THEN Reading("create", o, "CONFIRMED") ELSE Idle]
           /\ paid' = IF success THEN paid \cup {o} ELSE paid
  /\ UNCHANGED <<status, history, consumer, invQ, ordQ, notified, faults>>

\* The payment answers, and updateStatus reads the order again: if it left
\* PENDING in the meantime the transition is invalid and the request fails.
Pay(r) ==
  /\ At(r, "paying")
  /\ \E success \in PaymentOutcomes :
       LET o == slot[r].order
           target == IF success THEN "CONFIRMED" ELSE "CANCELLED"
       IN  /\ slot' = [slot EXCEPT ![r] = IF IsValidStatusTransition(status[o], target)
                                          THEN Reading("create", o, target) ELSE Idle]
           /\ paid' = IF success THEN paid \cup {o} ELSE paid
  /\ UNCHANGED <<status, history, consumer, invQ, ordQ, notified, faults>>

(* POST /orders/:id/cancel and PATCH /orders/:id/status *)
Cancel(r, o) ==
  /\ CustomerCancels
  /\ At(r, "idle")
  /\ IsCancellableStatus(status[o])
  /\ slot' = [slot EXCEPT ![r] = Reading("cancel", o, "CANCELLED")]
  /\ UNCHANGED <<status, history, consumer, invQ, ordQ, notified, paid, faults>>
Patch(r, o, target) ==
  /\ At(r, "idle")
  /\ IsValidStatusTransition(status[o], target)
  /\ slot' = [slot EXCEPT ![r] = Reading("patch", o, target)]
  /\ UNCHANGED <<status, history, consumer, invQ, ordQ, notified, paid, faults>>

(* What updateStatus and cancel have in common: save, record, publish. *)

\* save() writes the status the entity carries; nothing compares it with the
\* status that is in the row by now.
Save(r) ==
  /\ At(r, "read")
  /\ status' = [status EXCEPT ![slot[r].order] = slot[r].target]
  /\ Goto(r, "saved")
  /\ UNCHANGED <<history, consumer, invQ, ordQ, notified, paid, faults>>

\* Mutants of Record: the history holds the changes nobody is told of only;
\* the event is published only if the order still has the status it tells of.
RecordUnannounced(r) ==
  /\ At(r, "saved")
  /\ IF EventOf(slot[r].op, slot[r].target) = "none"
     THEN /\ history' = [history EXCEPT ![slot[r].order] =
                           Append(@, [prev |-> slot[r].seen, new |-> slot[r].target])]
          /\ Finish(r)
     ELSE UNCHANGED history /\ Goto(r, "recorded")
  /\ UNCHANGED <<status, consumer, invQ, ordQ, notified, paid, faults>>

RecordIfCurrent(r) ==
  /\ At(r, "saved")
  /\ history' = [history EXCEPT ![slot[r].order] =
                   Append(@, [prev |-> slot[r].seen, new |-> slot[r].target])]
  /\ IF EventOf(slot[r].op, slot[r].target) = "none" \/ status[slot[r].order] # slot[r].target
     THEN Finish(r) ELSE Goto(r, "recorded")
  /\ UNCHANGED <<status, consumer, invQ, ordQ, notified, paid, faults>>

Record(r) ==
  /\ At(r, "saved")
  /\ history' = [history EXCEPT ![slot[r].order] =
                   Append(@, [prev |-> slot[r].seen, new |-> slot[r].target])]
  /\ IF EventOf(slot[r].op, slot[r].target) = "none" THEN Finish(r) ELSE Goto(r, "recorded")
  /\ UNCHANGED <<status, consumer, invQ, ordQ, notified, paid, faults>>

MessageOf(r) == [type |-> EventOf(slot[r].op, slot[r].target), order |-> slot[r].order]

Publish(r) ==
  /\ At(r, "recorded")
  /\ invQ' = Append(invQ, MessageOf(r))
  /\ notified' = notified \cup {<<MessageOf(r).type, slot[r].order>>}
  /\ Finish(r)
  /\ UNCHANGED <<status, history, consumer, ordQ, paid, faults>>

(* order_queue *)

\* The order is CONFIRMED already: the handler logs and acknowledges.
HandleReserved ==
  /\ consumer = ConsumerIdle
  /\ ordQ # <<>> /\ Head(ordQ).type = "inventory.reserved"
  /\ ordQ' = Tail(ordQ)
  /\ UNCHANGED <<status, history, slot, consumer, invQ, notified, paid, faults>>

\* The handler destructures orderId from the top level of an event that holds
\* it under payload, and findOne({ where: { id: undefined } }) returns whatever
\* row comes first.
CancelRead(o) ==
  /\ consumer = ConsumerIdle
  /\ ordQ # <<>> /\ Head(ordQ).type = "inventory.reservation.failed"
  /\ IsCancellableStatus(status[o])
  /\ consumer' = [pc |-> "read", order |-> o, seen |-> status[o]]
  /\ UNCHANGED <<status, history, slot, invQ, ordQ, notified, paid, faults>>

\* The row that came first cannot be cancelled: nack, and no dead-letter
\* exchange exists to take the message.
CancelReject(o) ==
  /\ consumer = ConsumerIdle
  /\ ordQ # <<>> /\ Head(ordQ).type = "inventory.reservation.failed"
  /\ IsFinalStatus(status[o])
  /\ ordQ' = Tail(ordQ)
  /\ UNCHANGED <<status, history, slot, consumer, invQ, notified, paid, faults>>

\* Mutant of CancelSave: the message is acknowledged while the handler goes on.
CancelSaveAcksEarly ==
  /\ consumer.pc = "read"
  /\ status' = [status EXCEPT ![consumer.order] = "CANCELLED"]
  /\ consumer' = [consumer EXCEPT !.pc = "saved"]
  /\ ordQ' = Tail(ordQ)
  /\ UNCHANGED <<history, slot, invQ, notified, paid, faults>>

CancelSave ==
  /\ consumer.pc = "read"
  /\ status' = [status EXCEPT ![consumer.order] = "CANCELLED"]
  /\ consumer' = [consumer EXCEPT !.pc = "saved"]
  /\ UNCHANGED <<history, slot, invQ, ordQ, notified, paid, faults>>

\* The history row lacks the order id: the insert fails, nothing is published
\* and the message is rejected.
CancelUnrecorded ==
  /\ consumer.pc = "saved"
  /\ consumer' = ConsumerIdle
  /\ ordQ' = Tail(ordQ)
  /\ UNCHANGED <<status, history, slot, invQ, notified, paid, faults>>

(* Faults *)

Fault(kind) ==
  /\ kind \in FaultKinds
  /\ faults < MaxFaults
  /\ faults' = faults + 1

\* Every retry failed, on the inventory leg or on the notification leg.
PublishFails(r) ==
  /\ Fault("publish")
  /\ At(r, "recorded")
  /\ \/ UNCHANGED invQ
     \/ invQ' = Append(invQ, MessageOf(r))
  /\ Finish(r)
  /\ UNCHANGED <<status, history, consumer, ordQ, notified, paid>>

\* The confirmation of the broker got lost and the client sent again.
PublishTwice(r) ==
  /\ Fault("resend")
  /\ At(r, "recorded")
  /\ invQ' = invQ \o <<MessageOf(r), MessageOf(r)>>
  /\ notified' = notified \cup {<<MessageOf(r).type, slot[r].order>>}
  /\ Finish(r)
  /\ UNCHANGED <<status, history, consumer, ordQ, paid>>

\* Requests in progress are lost, the message being handled is redelivered.
OrderCrash ==
  /\ Fault("crash")
  /\ slot' = [r \in Requests |-> Idle]
  /\ consumer' = ConsumerIdle
  /\ UNCHANGED <<status, history, invQ, ordQ, notified, paid>>

\* x-message-ttl: a message that waited too long is dropped.
ReplyExpires ==
  /\ Fault("expire")
  /\ consumer = ConsumerIdle
  /\ ordQ # <<>>
  /\ ordQ' = Tail(ordQ)
  /\ UNCHANGED <<status, history, slot, consumer, invQ, notified, paid>>

(* The Inventory Service, as the Order Service sees it *)

InventoryAnswers ==
  /\ invQ # <<>>
  /\ invQ' = Tail(invQ)
  /\ IF Head(invQ).type = "order.created"
     THEN \E reply \in Replies : ordQ' = Append(ordQ, [type |-> reply, order |-> Head(invQ).order])
     ELSE UNCHANGED ordQ
  /\ UNCHANGED <<status, history, slot, consumer, notified, paid, faults>>

-------------------------------------------------------------------------------
RequestProgress(r) == SavePending(r) \/ Pay(r) \/ Save(r) \/ Record(r) \/ Publish(r)

CallArrives(r) ==
  \E o \in Orders : Cancel(r, o) \/ \E target \in PatchTargets : Patch(r, o, target)

ConsumerStep ==
  \/ HandleReserved
  \/ \E o \in Orders : CancelRead(o) \/ CancelReject(o)
  \/ CancelSave
  \/ CancelUnrecorded

OrderFault ==
  \/ \E r \in Requests : PublishFails(r) \/ PublishTwice(r)
  \/ OrderCrash
  \/ ReplyExpires

\* All that the Order Service does itself once it has a validated order.
OrderStep ==
  \/ \E r \in Requests : CallArrives(r) \/ RequestProgress(r)
  \/ ConsumerStep
  \/ OrderFault

Next ==
  \/ \E r \in Requests, o \in Orders : Validate(r, o)
  \/ OrderStep
  \/ InventoryAnswers

Spec == Init /\ [][Next]_vars

\* Promises resolve and consumers are scheduled; nobody has to call the API.
Fairness ==
  /\ \A r \in Requests : WF_vars(RequestProgress(r))
  /\ WF_vars(ConsumerStep)
  /\ WF_vars(InventoryAnswers)

FairSpec == Spec /\ Fairness

-------------------------------------------------------------------------------
(* Properties *)

TypeOK ==
  /\ status \in [Orders -> Statuses \cup {"NONE"}]
  /\ history \in [Orders -> Seq(Entry)]
  /\ slot \in [Requests -> Slot]
  /\ consumer \in Consumer
  /\ consumer # ConsumerIdle => ordQ # <<>>
  /\ invQ \in Seq(Message(OrderEvents))
  /\ ordQ \in Seq(Message(ReplyEvents))
  /\ notified \subseteq (OrderEvents \cup ReplyEvents) \X Orders
  /\ paid \subseteq Orders
  /\ faults \in 0 .. MaxFaults

\* What the rest of the system is promised about an order: module
\* OrderLifecycle, with the notifications sent as its announcements.  One
\* request at a time keeps the promise (order.service.ts:144-237).
Lifecycle == INSTANCE OrderLifecycle
  WITH announced <- {sent \in notified : sent[1] \in OrderEvents}
KeepsLifecycle == Lifecycle!Spec

\* Racing requests break that promise in one way only: a status moves off the
\* transition table when a request saves over a status that is not the one it
\* read (order.service.ts:156-175 and 203-219), whatever else races or fails.
OnlyOverwritesBreakRules ==
  [][\A o \in Orders :
       \/ status'[o] = status[o]
       \/ status[o] = "NONE" /\ status'[o] = "PENDING"
       \/ IsValidStatusTransition(status[o], status'[o])
       \/ \E r \in Requests : At(r, "read") /\ slot[r].order = o /\ slot[r].seen # status[o]
       \/ consumer.pc = "read" /\ consumer.order = o /\ consumer.seen # status[o]]_vars

\* Nobody is told of a step the audit trail does not hold: an event that was
\* sent, or waits in inventory_queue, has an entry with its status, although
\* restarts come between the two (order.service.ts:178-197 and 222-234).
EventsAreOnRecord ==
  \A event \in OrderEvents, o \in Orders :
    <<event, o>> \in notified \/ (\E i \in DOMAIN invQ : invQ[i] = [type |-> event, order |-> o])
      => \E i \in DOMAIN history[o] : history[o][i].new = Lifecycle!StatusOf(event)

\* No interleaving makes the trail hold a step the transition table forbids,
\* although requests decide on statuses that may be stale by the time they
\* save (order.service.ts:156-173 and 203-217).
HistoryFollowsRules ==
  \A o \in Orders : \A i \in DOMAIN history[o] :
    IsValidStatusTransition(history[o][i].prev, history[o][i].new)

\* CONFIRMED and what follows it say that the payment was received, as
\* order-status-rules.util.ts:24 describes the status.
ConfirmedIsPaid ==
  \A o \in Orders : status[o] \in {"CONFIRMED", "SHIPPED", "DELIVERED"} => o \in paid

\* Stock is only ever asked for, and only ever consumed, for an order whose
\* payment succeeded, whatever happens to the order concurrently
\* (order.service.ts:66-78 and 194-197).
StockIsAskedForPaidOrders ==
  \A i \in DOMAIN invQ :
    invQ[i].type \in {"order.created", "order.delivered"} => invQ[i].order \in paid

\* A final status is final (order-status-rules.util.ts:12 and 15).
FinalStatusIsFinal ==
  [][\A o \in Orders : IsFinalStatus(status[o]) => status'[o] = status[o]]_vars

\* The answer of the inventory changes the order it is about (README.md:91).
AnswerConcernsItsOrder ==
  [][\A o \in Orders :
       consumer.pc = "read" /\ consumer'.pc = "saved" /\ status'[o] # status[o] => Head(ordQ).order = o]_vars

\* The liveness properties are about runs without a fault: a restart drops the
\* request that would have gone on, a publish that fails is not repeated.
Disturbed == faults > 0

\* The create request always decides: payment cannot leave an order PENDING
\* (order.service.ts:66-90).
PaymentSettles ==
  \A o \in Orders :
    status[o] = "PENDING" ~> status[o] \notin {"NONE", "PENDING"} \/ Disturbed

\* Every confirmed order is announced to the inventory: "Order Service
\* publishes `order.created` event" (README.md:83).
ConfirmedIsAnnounced ==
  \A o \in Orders :
    status[o] = "CONFIRMED" ~> <<"order.created", o>> \in notified \/ Disturbed

\* A delivery that is on record is announced, so that the stock is settled
\* (order.service.ts:193-197).
DeliveryIsAnnounced ==
  \A o \in Orders :
    status[o] = "DELIVERED" ~> <<"order.delivered", o>> \in notified \/ Disturbed
===============================================================================
