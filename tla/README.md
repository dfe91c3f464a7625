# A TLA+ model of the order, inventory and notification services

This directory specifies the e-commerce case study in `src/`: three NestJS
services (Order, Inventory, Notification) with a PostgreSQL database each and
RabbitMQ between them. The modules are translated from the code, not from its
documentation; every definition that models code is listed with its lines under
`map` in `PROJECT.json`, every property has a mutant of the code that breaks it.

Paths below are relative to `src/services/`: OS is `order-service/src`, IS is
`inventory-service/src`, NS is `notification-service/src`.

## 1. The system

| Component | State | Operations | Talks to |
| --- | --- | --- | --- |
| Order Service: `OS/order/order.service.ts`, `order.controller.ts` | `orders.status`, `order_history` | `create`, `cancel`, `updateStatus`; consumers of `inventory.reserved` and `inventory.reservation.failed` | validation RPC, payment, its publisher |
| Status rules: `OS/order/utils/order-status-rules.util.ts` | none | the transition table and its predicates | Order Service |
| Validation client: `OS/order/services/inventory-validation.service.ts` | none | one RPC, 10 s timeout | `inventory_queue` |
| Payment mock: `OS/order/services/mock-payment.service.ts` | none | `processPayment` | Order Service |
| Event publishers: `OS/events/event.publisher.ts`, `IS/events/event.publisher.ts` | none | number, buffer, then emit with retries to two queues | `inventory_queue`, `order_queue`, `notification_queue` |
| Sequence service: `*/events/sequence.service.ts` (identical copies) | `event_sequences.lastSequenceNumber` | `getNextSequenceNumber` | publishers |
| Event buffer: `*/events/event-buffer.service.ts` (identical copies) | in memory: pending events and last number per entity | `addEvent`, the processing loop, clean-up timers | publishers |
| Inventory Service: `IS/inventory/inventory.service.ts`, `inventory.controller.ts` | `inventory_items` (quantity, reserved, available, status) | `reserveItems`, `releaseReservation`, `finalizeDelivery`, `create`, `update`, `remove`; consumers of the order events | its publisher |
| Retry services: `OS/events/retry.service.ts`, `IS/events/retry.service.ts` | none | `executeWithRetry`, `calculateDelay` | publishers |
| Dead letters: `*/events/dlq.service.ts` | none (a stub) | none is called | nobody |
| Seeder: `IS/inventory/services/inventory-seeder.service.ts` | `inventory_items` | seed at start-up if the table is empty | database |
| Notification Service: `NS/notification/*` | `notification_logs` (sent, retryCount) | seven consumers, `sendNotification`, `retryFailedNotification`, `markAsProcessed` | e-mail and SMS providers |

How they interact. A customer's `POST /orders` is validated by an RPC to the
Inventory Service, saved as PENDING, paid, moved to CONFIRMED and announced as
`order.created`. The Inventory Service reserves the lines in one transaction and
answers `inventory.reserved` or `inventory.reservation.failed`. Cancelling
publishes `order.cancelled` (the stock is released), a PATCH to DELIVERED
publishes `order.delivered` (the stock leaves the shelf). Each queue has one
consumer with prefetch 1 and manual acknowledgement; queues have a TTL and name
a dead-letter exchange nobody declares, so a rejected or expired message is gone.

What is hard here:

- requests and consumers interleave at every `await`; the Order Service reads,
  decides and saves without transaction, lock or version column;
- the stock is guarded by row locks inside the order handlers only, while the
  administrators' requests use TypeORM's `save()`, which loads the row again and
  updates the columns that differ;
- the database commits, the publish and the acknowledgement are separate steps,
  with restarts, failing publishes, duplicated and expired messages between them;
- the numbering of events relies on `SELECT ... FOR UPDATE`, which locks nothing
  when there is no row; the buffer runs its loop several times over one array.

What makes each part correct: the status follows the transition table and the
audit trail tells it; only paid orders are confirmed or take stock; rows stay
balanced (`0 <= reserved <= quantity`, `available = quantity - reserved`); an
order's lines are reserved together or not at all; an order is reserved once,
answered, and holds nothing once it ended; every message is settled; numbers are
consecutive; the buffer loses and repeats nothing and blocks nobody; a log entry
tells the truth about its mail, and a mail is tried before its message goes.

## 2. Modules

| Module | Models | Composes / refines |
| --- | --- | --- |
| `OrderStatusRules` | the transition table (`OrderStatusTransitions`, `IsValidStatusTransition`, `IsCancellableStatus`, `IsFinalStatus`) | |
| `OrderLifecycle` | abstract: status moves along the table, an event is announced once and while it is true | |
| `OrderService` | the Order Service await by await: `Validate`, `SavePending`, `Pay`, `Cancel`, `Patch`, `Save`, `Record`, `Publish`, the `order_queue` consumer, faults | implements `OrderLifecycle` |
| `Stock` | the arithmetic of a row and of all rows of an order | |
| `StockLedger` | abstract: all-or-nothing reservation, release and delivery | what a commit does, by `CommitsAreWholeOrders` |
| `InventoryService` | transactions line by line with locks, commit and rollback; administrators' requests as read, load and write | implements `StockLedger` while no administrator writes |
| `OrderSaga` | both services, both queues, acknowledgements, answers and faults; `held` and `finalized` record what the code does not | `OrderService` + `Stock` |
| `SequenceService` | `getNextSequenceNumber` for one entity, statement by statement | |
| `EventBuffer` | `EventBufferService` for one entity, loops interleaved at the 10 ms wait | |
| `RetryService` | `executeWithRetry` for any number of calls; the waits of every policy | |
| `EventPublisher` | number, buffer, both sends with retries, errors and restarts, for the publishers of one order | `SequenceService` + `EventBuffer` + `RetryService`; implements `EventDelivery` |
| `EventDelivery` | abstract: no notification without its event, nothing sent by a publish that is over | |
| `InventoryStartup` | the seeder and restarts around the order handlers and the administrators' requests | `InventoryService` |
| `NotificationService` | the `notification_queue` consumer and the HTTP requests over `notification_logs`: `Handle`, `Post`, `Retry`, `MarkAsProcessed`, the awaits of `sendNotification`, `SaveFails`, `Settle`, `Crash` | |
| `MC*` | small instances for TLC | |
| `*Proofs` | theorems, see section 5 | |

### OrderService

`slot[r]` is one HTTP request in progress with its local variables: the operation,
the order, the status `findOne` returned (`seen`) and the status it decided on
(`target`). `pc` says which `await` it stands at. `Save` writes the target
whatever the row holds by then, as `orderRepository.save` does; `Record` inserts
the history row; `Publish` sends the event. `create` continues through
`updateStatus` after the payment, so it shares these three. A request slot can be
reused, so the number of slots bounds the concurrency, not the number of requests.

Two pairs of steps are merged because nothing can be told apart in between: the
payment's answer and the re-read of the order behind it (`Pay`; the answer is
local, the decision is taken on the re-read), and the inventory leg and the
notification leg of a publish (`notification_queue` is written only as far as
these modules go; the publish that fails between the legs is `PublishFails`).
`PublishFails` fails after all retries, `PublishTwice` is the retry after a lost
confirmation, `OrderCrash` drops the requests in memory and redelivers the
message in hand, `ReplyExpires` is the TTL.

The failure handler destructures `orderId` from the wrong level of the event
(`order.controller.ts:116`): `findOne({ where: { id: undefined } })` returns some
row, so `CancelRead(o)` and `CancelReject(o)` are open to any order, and the
history insert that lacks the order id makes the rest of the handler fail:
`CancelSave` is the save, `CancelUnrecorded` the failing insert and the nack, and a
restart may come between the two.

`mock-payment.service.ts` always succeeds today; `processPayment` handles both
answers, and so does the model (`PaymentOutcomes`).

### Stock, InventoryService, StockLedger

A cart is a function from products to quantities; that two lines of one product
do the same as one line with the sum is proved (`LinesAddUp`). A transaction
keeps the rows it wrote (and has locked) in `txn.rows` until `Commit`. An
administrator's request holds the entity it read; `SaveLoad` and `SaveWrite` are
the two halves of `save()`; `Merged` is the UPDATE of the differing columns. The
UPDATE waits for the lock of an order handler. The body of a PATCH may carry another
`productId`: `UpdateRead` renames the entity, which is then saved as the row of that
product. A POST reads nothing, so one of an existing product updates its row, and one
that meets a row inserted meanwhile fails on the primary key. History rows are never
read and left out.

### OrderSaga

The handler's transaction is one step here, which `HandlersKeepLedger` justifies. `handler`
is where the consumer of `inventory_queue` stands with the head of the queue:
the transaction done (`reserved`), in the catch block (`failing`), ready for
ack or nack (`handled`), or never to be settled (`stuck`). The message leaves the
queue at ack or nack only, so `InventoryCrash` redelivers it.

### InventoryStartup

`phase` is where a start of the service stands: items not counted, seeding, or open
for requests. `SeedItem` is one `save()` of the list; nothing else writes meanwhile,
so its two halves are one step. An error ends the seeding and is swallowed
(`SeedingFails`), a restart may come at any moment and drops the requests in
progress. `catalogue` records what the code does not: whether a seeding was cut
short. `Order` is any step of the order handlers and is open in every phase, since the
consumer starts before the seeder; requests come when `phase` is open.

### SequenceService, EventBuffer, RetryService, EventPublisher

`FindNoRow` is the `SELECT ... FOR UPDATE` that meets no row and locks nothing;
`SaveLoads`, `Insert` and `SaveUpdates` are what TypeORM then does: look the
entity up by primary key, and INSERT (waiting for another INSERT, failing on its
row) or UPDATE the number if it differed from 1 when loaded.

`EventBuffer` keeps every buffer object ever made because a loop holds a
reference to one the clean-up has already taken out of the map. `FirstAbove` is
where an event goes when the array is sorted, and where the loop begins once the old
events are dropped. `runs` is a
queue: 10 ms timers fire in the order they were set. The minutes-long clean-up
timers may fire at any moment. The "process" handler only waits, so it cannot
throw. The event is due when the publisher's own loop returns, with or without its
event processed (`Due`): the buffer does not gate anything. `BufferInit` starts with
the buffer missing, which is the state after a restart, or in step with the row.

`RetryService` keeps for each call how it stands and how many attempts failed. An
attempt and the wait before it are one step, since a wait changes nothing; which
errors are retried depends on their text and is a choice. `EventPublisher` makes
two calls for each event, one per queue (`Legs`). `EmitFails` covers the message
that is not sent and the one whose confirmation is lost, so copies count what the
broker took. `DatabaseFails` is the error of any statement of the numbering. `Restart`
rolls open transactions back, empties the buffers and drops every publish that has
its number; a number is never given back. `Outcome` maps a publish to what its
caller knows of it, for `EventDelivery`; a publish that got no number has failed.

`OrderDelay` and `InventoryDelay` are the two `calculateDelay`s in whole
milliseconds: the factor 1.5 is a fraction, `Math.random()` a number of thousandths.
`OrderPolicies` are the policies `mergeOptions` can return with the shipped defaults.

### NotificationService

Everything that sends runs `sendNotification`: save a fresh entry, mail, save the
outcome. `work[w]` is what the consumer or a request holds meanwhile: the entity
in memory, what `save()` loaded (`SaveLoad`, `SaveWrite`, `Merged` as above) and
where it goes on: `done` when `sendNotification` returns, `failed` when it throws
(`marked` after a tick-off). `SaveFails` is a failing save: the first one and the one in
the catch block throw, the one behind a taken mail is inside the `try` and counted as
a failure. A retry passes the id of the entry it read, so it and the
consumer may be at work on the same row with a copy each. Of a message only the
pattern matters: two patterns are settled (`SettledPatterns`), the two stock
alerts never (`AlertPatterns`), and `inventory.notification`, which the Inventory
Service publishes, has no handler and is rejected by the framework. The consumer
stays `done` or `failed` with an alert in hand, which is the code's state after the
handler returned. A handler's uuid is the smallest unused id, since uuids differ in
nothing else; `Posted` are the ids clients choose. Nothing keeps two requests from
posting the same id, or one that is in use: the first save then updates the entry, or,
when another INSERT came between its two halves, fails on the primary key
(`Collides`) without a fault. `delivered`, `marked` and
`settled` record what the code does not. The e-mail provider stands for all three
kinds of notification; `ProviderOutcomes` has both answers, because in production
`sendMail` may fail.

## 3. Runs

All runs exhaust their state space. `CHECK_DEADLOCK FALSE` everywhere: nobody has
to call the API, so a quiet system is not an error.

| Run | Instance | Shows |
| --- | --- | --- |
| `os_concurrent` | 1 order, 2 request slots, all answers, one fault of any kind; 1.3 M states | `HistoryFollowsRules`, `ConfirmedIsPaid`, `StockIsAskedForPaidOrders`, `EventsAreOnRecord`, `OnlyOverwritesBreakRules`; live: `PaymentSettles`, `DeliveryIsAnnounced` |
| `inventory` | 2 products, 2 carts, 4 shops, 1 administrator with every request, a list of 2 seeds, restarts; 5.0 M states | `ReadsStayValid`, `CommitsAreWholeOrders`, `MisfitSavesUnbalance`, `SeededCatalogueIsWhole`, `SeedingSparesItems` |
| `saga_sequential` | 2 orders, 1 slot, ample stock, no faults; 7.5 k states | `StockTellsOrders`, implements `OrderLifecycle` (`KeepsLifecycle`); live: `CreationIsAnswered` |
| `saga_faults` | 2 orders, 2 slots, one piece, one fault of any kind; 4.8 M states | `StockBalance`, `ReservedWasPaid`, `ReservedOncePerFault`, `FailedMeansNotReserved`, `StockIsAccountedFor`, `RowsDivergeByUnheldEnds` |
| `publishing` | 2 publishers of one order, 0, 1, 2 or 6 numbers taken, buffer missing or in step, one retry, three errors, one restart; 0.4 M states | `NumbersAreConsecutive`, `NothingProcessableWaits`, `EventsAreKept`, `OrderedArrivalsKeepOrder`, `RetriesBackOff`, implements `EventDelivery` (`KeepsDelivery`); live: `NumberedEventsAreSent` |
| `notifications` | consumer and 1 HTTP request, 3 entries, failing mails, two inputs: a message of any kind, a restart, a failed statement; 1.7 M states | `SentMeansDelivered`, `SettledIsOnRecord`; live: `OrderMailsGetThrough` |

Six runs end in a counterexample. Each checks what a document, a message or a comment
of the repository says; the findings in `PROJECT.json` quote it.

| Run | Property | What happens |
| --- | --- | --- |
| `os_final_status` | `FinalStatusIsFinal` | two requests read an order before either saves; the later save takes it out of CANCELLED or DELIVERED |
| `os_wrong_order` | `AnswerConcernsItsOrder` | a failed reservation cancels whichever order the database returns first |
| `os_patched_confirmed` | `ConfirmedIsAnnounced` | a PATCH to CONFIRMED before the payment answers makes the create request throw: the order is CONFIRMED and `order.created` never published |
| `saga_foreign_release` | `ReleasesOwnStock` | the cancellation of a refused order gives back the piece another order holds |
| `saga_held_by_ended` | `EndedOrdersHoldNothing` | a PATCH to CANCELLED publishes nothing and the stock stays reserved; so it does when a cancellation's publish fails, and when `order.cancelled` is sent before `order.created` of the same order |
| `notif_retry_limit` | `RetriesEnd` | every attempt counts from zero, so the limit of three retries is never met |

`saga_held_by_ended` allows all three causes. Each was seen to violate the property
alone: PATCH without a second request or a fault, two requests without PATCH or
faults, and one request with a publish that fails.

Bounds. Two slots are enough for every read/decide/save race, which involve two
requests; one order where a property is about one order's status, two where
orders compete for a piece or an answer concerns another order. A slot is reused,
so sequences of calls are not bounded by the slots but by the statuses, which
only move forward unless they race. One fault reaches every single fault of the
composed system between any two steps of two racing requests; the safety properties
of `saga_faults` are proved for any number of faults.

In `inventory` two carts, one of two pieces and one of two products, give partial
failure (first line reserved, second short) and meet rows that are missing, have a
foreign reservation, or are posted while an order skips them. One administrator
against the handlers is every overlap of one save with one transaction; two
administrators against each other are left to the proofs, which hold for any number.
Saves that do not fit drive the counters apart without end, so a `CONSTRAINT`
(`NoneParted`) follows them to the first unbalanced row: the step that unbalances it
is still checked, what comes after it is not. Two seeds give a seeding that is cut in
the middle.

In `publishing` two publishers give two that find no row, and one that finds
it first or waits for its lock; six numbers taken make the gap exceed `LargeGap`, two make
the buffer wait for ever. Three publishers without errors were checked for the same
invariants on the way, and the proofs hold for any number. The code's three retries
are one: a second retry meets no state the first one does not; three errors let one
publish exhaust its retries while the other one retries or is refused, and the waits
are checked for the real policies whatever `MaxRetries` is.

In `notifications` two messages put any kind behind any other, one request against
the consumer makes every overlap of two copies of an entry, and a handler needs at
most two ids. Two POSTs of one new id at the same time need two requests and are left to the
proofs. `notif_retry_limit` needs one request and no message.

`MaxFaults` (faults), `MaxErrors` and `MaxRestarts` (errors and restarts of the
publishers) and `MaxInputs` (messages, restarts and failed statements of the
Notification Service) are the only counter bounds.

Which runs leave something out, and why. `ConfirmedIsPaid`, `StockIsAskedForPaidOrders`,
`ReservedWasPaid` and their theorems assume that administrators do not PATCH to
CONFIRMED: the code lets them, paid or not; `os_patched_confirmed` shows what else comes of
it. `saga_sequential` is the case in which the abstract lifecycle is kept, and only
that: one request at a time, nothing refused, no fault. What remains without these
conditions is in `os_concurrent` (`OnlyOverwritesBreakRules`) and `saga_faults`
(`StockIsAccountedFor`, `RowsDivergeByUnheldEnds`), and what does not in
`os_final_status` and `saga_foreign_release`. Its `PatchTargets` leave out CANCELLED,
which `saga_held_by_ended` is about. The liveness properties of `os_concurrent` claim
nothing once a fault happened (`Disturbed`): a restart drops the request that would
have gone on, and nothing repeats a failed publish. `FailedMeansNotReserved` too claims
nothing once a fault happened. In `saga_faults` nobody PATCHes; the deliveries are in
`saga_sequential`, and the proofs cover both together. `NumbersAreConsecutive` excuses
two calls that both found no row.

Fairness. Promises resolve, so a request in progress, the consumer of each queue
and a 10 ms timer are weakly fair. Nobody has to start a request, no fault and no
clean-up has to happen. In `publishing` each publisher and the 10 ms timer are weakly
fair: the database and the broker answer or fail. A lock is held by a call that is itself fair
and commits without waiting, so weak fairness is enough for those who wait. In
`notifications` only the consumer is fair: `OrderMailsGetThrough` needs no request
to go on and excludes a stock alert at the head, which is never settled. The three
violated liveness properties are checked with the same fairness, so that their
counterexamples are not mere stops; in `notif_retry_limit` the client's retries are
what the property says cannot go on for ever.

## 4. What the code does otherwise than it says

The six runs above are one part. The rest was met while modelling; the actions of the
model show it, and no run is spent on it.

Orders:

- the history entries of two racing requests need not chain, since each writes the status
  it read as the previous one (`order.service.ts:157`; `order-flow.e2e.spec.ts:294`
  expects one entry per update);
- SHIPPED may be cancelled, although the error text names PENDING and CONFIRMED
  only (`order.service.ts:210-212`);
- `order.cancelled` can be sent before `order.created` of the same order
  (README.md:263: "Event buffer ensures correct message ordering").

Stock:

- the reservation is committed before its message is acknowledged, and nothing
  records for whom it was: a restart in between reserves again
  (`inventory.controller.ts:87`; README.md:261: "Manual acknowledgment prevents message
  reprocessing"). `ReservedOncePerFault` is what the code keeps;
- when `inventory.reserved` cannot be published the catch block reports a failure
  and keeps the reservation (`inventory.controller.ts:90-114`; README.md:87);
- when the answer to a failed reservation cannot be published either, the message
  is neither acked nor nacked and, with prefetch 1, blocks the queue
  (`inventory.controller.ts:109`; README.md:143: "All message handlers use manual
  acknowledgment for reliable message processing");
- a PATCH checks the new quantity against the reservations it read, so a reservation that
  commits before its save ends above the quantity (`inventory.service.ts:141`; the
  message at 132 says that this is what the check is for);
- a POST of an existing product updates its row and resets the columns that differ
  (`inventory.service.ts:44`; `inventory-flow.e2e.spec.ts:468` expects 409);
- a PATCH that renames its product writes another product's row, reservations
  included (`update-inventory-item.dto.ts`). These three are the saves `MisfitSave` is
  about: each carries reservations the row does not have;
- overlapping `DELETE` and `PATCH` bring a removed item back;
- the low stock alert leaves before the transaction commits, and outlives a rollback;
- a seeding cut short by an error or a restart is never completed, and its error
  is only logged (`inventory-seeder.service.ts:24, 39`).

Publishing:

- `event-buffer.service.spec.ts:86-106` (and 210-217, 243-257, 282-284) expects event 2 of
  an entity to wait in the buffer until event 1 comes, and both to be processed. The
  code treats number 2 as processable when nothing was processed yet
  (`event-buffer.service.ts:108`), sets the last number to 2 and drops 1 as old. `EventsAreKept`
  is what the code keeps: an event is lost only to one that overtook it;
- if event 1 arrives while 2 is still being processed, both are, and the last number
  goes back to 1: number 3 then waits in memory for 2, which is past (it is sent all the
  same). So does every event after a restart or a clean-up between numbers 2 and 7. This is
  why `NothingProcessableWaits` says nothing of what an event waits for;
- two first calls for an entity both take number 1, or one fails on the primary
  key (`sequence.service.ts:32-47`); this is the exception in `NumbersAreConsecutive`;
- a restart between the number and the second send of a publish loses what was
  not sent, and no start repeats it.

Notifications:

- stock alerts are never acknowledged (`notification.controller.ts:257, 289`;
  README.md:143), so the notification consumer stops at the first one until it
  restarts, and then sends it again;
- `inventory.notification` is published by the Inventory Service
  (`event.publisher.ts:94, 142`) and handled by nobody;
- a retry that overlaps the first attempt sends a second mail, and its failure can
  reset `sent`; a redelivered message gets a new id, a second mail and a second entry;
- a mail that went out is counted as failed, and its message rejected, when the save
  of its outcome fails (`notification.service.ts:70-80`).

## 5. Proofs

All proofs are checked by TLAPS for every value of the constants, from the
`ASSUME`s of the modules and the hypotheses the table names. No theorem assumes that
requests do not overlap, that the inventory refuses nothing, or that nothing fails,
but `ReservedAtMostOnceWithoutFaults`, which says so in its name.

| Theorem | Statement | Argument |
| --- | --- | --- |
| `OrderServiceProofs!Typing` | `Spec => []TypeOK` | one lemma per action |
| `OrderServiceProofs!AuditTrail` | `Spec => []HistoryFollowsRules` | strengthened with: a slot past its decision holds a pair (`seen`, `target`) the table allows, whatever the row holds now |
| `OrderServiceProofs!PaidOrdersOnly` | no PATCH to CONFIRMED: `[]ConfirmedIsPaid` and stock asked only for paid orders | strengthened with: a slot whose target is CONFIRMED, SHIPPED or DELIVERED is about a paid order, and so is a message on `inventory_queue` |
| `OrderServiceProofs!StockForPaidOrdersOnly` | no PATCH to CONFIRMED: `[]StockIsAskedForPaidOrders` | the same invariant |
| `OrderServiceProofs!AnnouncedIsRecorded` | `Spec => []EventsAreOnRecord` | strengthened with: a request that is about to publish has its entry in the trail, which only grows |
| `OrderServiceProofs!RulesBreakByOverwriting` | `Spec => OnlyOverwritesBreakRules` | from the pair (`seen`, `target`) of `AuditTrail`: a save whose row still holds `seen` moves along the table |
| `StockProofs!LinesAddUp` | two lines of one product are one line with the sum | arithmetic of one row |
| `InventoryServiceProofs!Typing` | `Spec => []TypeOK` | one lemma per action |
| `InventoryServiceProofs!ReadsHoldUntilCommit` | `Spec => []ReadsStayValid`, with any number of administrators | a save writes only a row that no transaction has locked, and a locked row is exactly one the transaction has computed from |
| `InventoryServiceProofs!SavesAloneUnbalance` | `Spec => MisfitSavesUnbalance` | the handlers keep a balanced row balanced by `ReadsStayValid`; a save whose entity and loaded copy are balanced and have the row's reservations writes columns that fit, since every column `Merged` takes is then the entity's or equal to it |
| `InventoryServiceProofs!OrdersAreWhole` | `Spec => CommitsAreWholeOrders` | from `ReadsStayValid`, the rows of a commit are those of the whole operation of `StockLedger`; a line that was skipped is the operation's too as long as its product is still missing |
| `InventoryServiceProofs!HandlersKeepBalance` | `HandlerSpec => []StockBalance` | `StockBalance` alone is not inductive: a commit writes rows computed earlier |
| `InventoryServiceProofs!HandlersKeepLedger` | `HandlerSpec => KeepsLedger` | `Commit` is the whole operation of `StockLedger` and every other step stutters |
| `InventoryStartupProofs!StartsSpareItems` | `StartupSpec => SeedingSparesItems` | while the seeder runs, the seeds behind the one it saves are missing, because the table was empty and the list has no product twice; an order does not bring a missing product into being |
| `InventoryStartupProofs!SeedingIsWhole` | `StartupSpec => []SeededCatalogueIsWhole` | the same invariant (`SeedingInv`): the seeds before that one are there, and no request and no order takes a row away |
| `OrderSagaProofs!SagaTyping` | `SagaSpec => []SagaTypeOK` | composes the Order Service's lemmas with the handler steps |
| `OrderSagaProofs!SagaKeepsBalance` | `SagaSpec => []StockBalance` | the row lemmas of `StockProofs` lifted to carts |
| `OrderSagaProofs!StockOfPaidOrdersOnly` | no PATCH to CONFIRMED: `[]ReservedWasPaid` | the message in hand is about a paid order |
| `OrderSagaProofs!FaultsPayForReservations` | `SagaSpec => []ReservedOncePerFault`, any number of requests | `held` alone is not inductive. `Chances(o)` counts the reservations made, the `order.created` messages whose handling has not begun, and the creation that has not published yet; a fault adds one at most, nothing else adds any, since an order is created by one request only (`OneCreation`) |
| `OrderSagaProofs!ReservedAtMostOnceWithoutFaults` | no faults: `SagaSpec => []ReservedAtMostOnce` | the same; races alone do not break the claim of README.md:261 |
| `OrderSagaProofs!FailureLeavesNothingReserved` | `SagaSpec => []FailedMeansNotReserved` | without a fault an order has one chance, and a refusal uses it up (`RefusedIsSpent`) |
| `OrderSagaProofs!RowsErrOnOneSide` | finitely many orders: `SagaSpec => []StockIsAccountedFor` | a release or delivery takes its order's lines, or what is left of them, from the row, and from the sum over the orders only if the order holds something, so the row never exceeds the sum. How that sum changes is proved in `StockProofs` (`SumChanges`) |
| `OrderSagaProofs!RowsDiverge` | finitely many orders: `SagaSpec => RowsDivergeByUnheldEnds` | an end that finds its order's reservation subtracts a part of what the row has, so nothing is cut off; the rows are there, since no handler removes one |
| `EventPublisherProofs!Numbering` | `PublisherSpec => []NumbersAreConsecutive` | while at most one call found no row, the row counts the granted numbers, the lock holder has the next one, and an unfinished creator means there is no row yet |
| `EventPublisherProofs!PublishingDelivers` | `PublisherSpec => KeepsDelivery` | a leg still trying has at most as many copies as failed attempts, and the notification's leg has no copy and no end of its own until the event's leg is done (`PublishInv`); each step is then `PutEvent`, `PutNotice`, `GiveUp` or a stutter |
| `EventPublisherProofs!RetriesThinOut` | `PublisherSpec => []RetriesBackOff` | the bound on attempts is a part of `PublishInv`; the waits of each policy lie in ranges that do not overlap (`DoublingGrows`, `DatabaseGrows`, `InventoryGrows`), for all the jitters 0 to 999 (`EveryJitterBacksOff`) and so for those of the run |
| `EventBufferProofs!NothingProcessableIsLeft` | `PublisherSpec => []NothingProcessableWaits`, any callers, clean-ups and restarts | said of every buffer object, those taken out of the map included: one that no loop is at work on is empty or must wait (`Waits`) |
| `EventBufferProofs!BufferKeepsEvents` | `PublisherSpec => []EventsAreKept` | every event is in one place once (pending, in a loop, processed) or behind one that overtook it (`KeptInv`); this needs that the last number of a buffer is that of a processed event or below every arrival, and that the pending events with one number stand in the order they came (`Lined`, `Passed`) |
| `EventBufferProofs!BufferKeepsOrder` | `PublisherSpec => []OrderedArrivalsKeepOrder` | while the arrivals are in order, they are the processed events, those of the loops and the pending ones in a row (`LineInv`) |
| `NotificationServiceProofs!Typing` | `Spec => []TypeOK` | one step per action |
| `NotificationServiceProofs!SentEntriesAreTrue` | `Spec => []SentMeansDelivered` | the entry alone is not inductive, since a save writes what a worker holds in memory; strengthened with the same statement about every entity held (`WorkIsTrue`) |
| `NotificationServiceProofs!SettledMessagesLeaveTheirEntry` | `Spec => []SettledIsOnRecord` | the same invariant: past the first save the entry exists, and the consumer's entity says sent only after its own mail |

Where a proof needs an induction over data (the first event above a number, the sum
over the orders), it looks at the least number or the smallest set for which the
claim would fail: the library's well-foundedness of the natural numbers gives it, and
no induction rule is needed.

Only model-checked: everything under fairness, which is out of the prover's reach
(`PaymentSettles`, `DeliveryIsAnnounced`, `CreationIsAnswered`, `NumberedEventsAreSent`,
`OrderMailsGetThrough`), and the two properties of `saga_sequential` that hold only under
its conditions (`KeepsLifecycle`, `StockTellsOrders`): the code guarantees neither
condition, so a theorem that assumes them would say little. Every other property of a passing run
has a theorem.

## 6. Not modelled

- The dead letter services: stubs nobody calls.
- Three handlers of the Notification Service (`order.cancelled`,
  `inventory.reserved`, `inventory.reservation.failed`): they wait for patterns nobody sends
  to its queue.
- A refusal or timeout of the validation RPC leaves no state behind: it is the
  absence of `Validate`.
- An error thrown by the event buffer's handler: the shipped one only waits. A
  clean-up of a buffer by `clearBuffer`, `resetSequence`, `shouldRetry` and the retry
  headers, `cancelOrderDueToPaymentFailure` and `confirmReservation` have no callers.
- Bootstrapping beyond the order of seeding and requests, middlewares, health checks,
  DTO validation, logging and message wording: no state a property here would be
  about. `scripts/test-system.js` is a mock of the system.

## 7. Plan

Done in this order: the status rules and `OrderService` (the core), `Stock` and
`InventoryService`, their abstract specifications, `OrderSaga`, the proofs of
these, `SequenceService`, `EventBuffer` and `EventPublisher`,
`NotificationService` and its proofs, then `RetryService` behind the publishers with
errors and restarts, `EventDelivery`, `InventoryStartup`, the failing saves of the
Notification Service, and their proofs; then the remaining safety properties; then the
order handlers beside the administrators (renames and restarts included), what remains of
the lifecycle and of the rows without conditions, and the runs that refute what the
repository says.

What is left: `RowsDivergeByUnheldEnds` could name which ends find nothing held (a
refused, lost, repeated or overtaken order), and the composed system could have the
administrators of `InventoryStartup` write rows between two messages.
