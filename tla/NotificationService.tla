-------------------------- MODULE NotificationService --------------------------
(***************************************************************************)
(* The Notification Service: the consumer of notification_queue and the    *)
(* HTTP requests that send, retry or tick off a notification.  Both run    *)
(* sendNotification: save a fresh log entry, hand the mail to the          *)
(* provider, save the outcome.  save() of TypeORM loads the row again and  *)
(* updates the columns in which the entity differs from what it loaded;    *)
(* each of the three may fail.                                             *)
(*                                                                         *)
(* Of a message only its pattern matters: the two order patterns are       *)
(* acknowledged or rejected, the two stock alerts are neither, and nothing *)
(* handles inventory.notification, which the framework rejects.            *)
(***************************************************************************)
EXTENDS Naturals, Sequences

CONSTANTS
  Notifications,      \* ids of log entries, numbered
  Posted,             \* those that clients post; the others are handlers' uuids
  Calls,              \* HTTP requests in progress at a time
  Consumer,           \* the consumer of the queue
  Patterns,           \* what the other services send
  ProviderOutcomes,   \* whether the mail provider takes a mail, a set of Booleans
  MaxInputs           \* bound: messages, restarts and failed statements together

ASSUME PostedAssumption == Posted \subseteq Notifications /\ Notifications \subseteq Nat \ {0}
ASSUME ConsumerAssumption == Consumer \notin Calls
ASSUME ProviderAssumption == ProviderOutcomes \subseteq BOOLEAN
ASSUME InputsAssumption == MaxInputs \in Nat

VARIABLES
  queue,      \* the patterns in notification_queue; the head stays until settled
  log,        \* notification_logs
  work,       \* what the consumer and each HTTP request are doing
  delivered,  \* notifications the provider took a mail for
  settled,    \* how the message behind a notification was settled
  marked,     \* notifications a client ticked off
  arrived,    \* messages so far
  crashes,    \* restarts so far
  failures    \* statements that failed so far

vars == <<queue, log, work, delivered, settled, marked, arrived, crashes, failures>>

-------------------------------------------------------------------------------
SettledPatterns == {"order.notification", "order.cancelled.notification"}
AlertPatterns == {"inventory.low_stock", "inventory.back_in_stock"}

ASSUME PatternsAssumption ==
  Patterns \subseteq SettledPatterns \cup AlertPatterns \cup {"inventory.notification"}

RetryLimit == 3

Workers == Calls \cup {Consumer}

Entry == [exists : BOOLEAN, sent : BOOLEAN, retryCount : Nat]
NoEntry == [exists |-> FALSE, sent |-> FALSE, retryCount |-> 0]
FreshEntry == [exists |-> TRUE, sent |-> FALSE, retryCount |-> 0]

\* next is where the worker goes on when its save() is through: to the mail, or
\* to the end of sendNotification, which returns (done) or throws (failed), or
\* of markAsProcessed (marked).
Idle == [pc |-> "idle", id |-> 0, entity |-> NoEntry, loaded |-> NoEntry, next |-> "idle"]

Saving(n, entity, next) ==
  [pc |-> "save", id |-> n, entity |-> entity, loaded |-> NoEntry, next |-> next]

Unused(n) == ~log[n].exists /\ \A w \in Workers : work[w].id # n

\* A new uuid; which one makes no difference, so it is the first left.
IsUuid(n) ==
  /\ n \notin Posted /\ Unused(n)
  /\ \A m \in Notifications \ Posted : Unused(m) => n <= m

Init ==
  /\ queue = <<>>
  /\ log = [n \in Notifications |-> NoEntry]
  /\ work = [w \in Workers |-> Idle]
  /\ delivered = {}
  /\ settled = [n \in Notifications |-> "none"]
  /\ marked = {}
  /\ arrived = 0
  /\ crashes = 0
  /\ failures = 0

MoreInputs == arrived + crashes + failures < MaxInputs

Arrive(pattern) ==
  /\ MoreInputs
  /\ arrived' = arrived + 1
  /\ queue' = Append(queue, pattern)
  /\ UNCHANGED <<log, work, delivered, settled, marked, crashes, failures>>

\* The first message not yet given to the consumer waited past its TTL.
MessageExpires ==
  /\ \/ /\ work[Consumer] = Idle
        /\ queue # <<>>
        /\ queue' = Tail(queue)
     \/ /\ work[Consumer] # Idle
        /\ Len(queue) > 1
        /\ queue' = <<Head(queue)>> \o Tail(Tail(queue))
  /\ UNCHANGED <<log, work, delivered, settled, marked, arrived, crashes, failures>>

(* What starts sendNotification, and what does not *)

SendNotification(w, n) == work' = [work EXCEPT ![w] = Saving(n, FreshEntry, "send")]

\* Mutant of Handle: the message is acknowledged as it comes in.
HandleAcksFirst(n) ==
  /\ work[Consumer] = Idle
  /\ queue # <<>> /\ Head(queue) \in SettledPatterns \cup AlertPatterns
  /\ IsUuid(n)
  /\ SendNotification(Consumer, n)
  /\ queue' = Tail(queue)
  /\ UNCHANGED <<log, delivered, settled, marked, arrived, crashes, failures>>

Handle(n) ==
  /\ work[Consumer] = Idle
  /\ queue # <<>> /\ Head(queue) \in SettledPatterns \cup AlertPatterns
  /\ IsUuid(n)
  /\ SendNotification(Consumer, n)
  /\ UNCHANGED <<queue, log, delivered, settled, marked, arrived, crashes, failures>>

\* No handler has the pattern: the framework rejects the message.
RejectUnknown ==
  /\ work[Consumer] = Idle
  /\ queue # <<>> /\ Head(queue) \notin SettledPatterns \cup AlertPatterns
  /\ queue' = Tail(queue)
  /\ UNCHANGED <<log, work, delivered, settled, marked, arrived, crashes, failures>>

\* POST /notifications; a body with the id of an entry sends that one afresh,
\* and two bodies may bring the same new id.
Post(c, n) ==
  /\ work[c] = Idle
  /\ log[n].exists \/ n \in Posted
  /\ SendNotification(c, n)
  /\ UNCHANGED <<queue, log, delivered, settled, marked, arrived, crashes, failures>>

\* POST :id/retry goes by the entry it reads, which another worker may be
\* about to change.
Retry(c, n) ==
  /\ work[c] = Idle
  /\ log[n].exists /\ ~log[n].sent /\ log[n].retryCount < RetryLimit
  /\ SendNotification(c, n)
  /\ UNCHANGED <<queue, log, delivered, settled, marked, arrived, crashes, failures>>

MarkAsProcessed(c, n) ==
  /\ work[c] = Idle
  /\ log[n].exists
  /\ work' = [work EXCEPT ![c] = Saving(n, [log[n] EXCEPT !.sent = TRUE], "marked")]
  /\ marked' = marked \cup {n}
  /\ UNCHANGED <<queue, log, delivered, settled, arrived, crashes, failures>>

(* The steps of sendNotification *)

SaveLoad(w) ==
  /\ work[w].pc = "save"
  /\ work' = [work EXCEPT ![w].pc = "write", ![w].loaded = log[work[w].id]]
  /\ UNCHANGED <<queue, log, delivered, settled, marked, arrived, crashes, failures>>

Merged(row, loaded, entity) ==
  [c \in DOMAIN row |-> IF entity[c] # loaded[c] THEN entity[c] ELSE row[c]]

\* save() found no row and INSERTs one that another save has inserted since.
Collides(w) ==
  work[w].pc = "write" /\ ~work[w].loaded.exists /\ log[work[w].id].exists

SaveWrite(w) ==
  /\ work[w].pc = "write"
  /\ ~Collides(w)
  /\ log' = [log EXCEPT ![work[w].id] = Merged(@, work[w].loaded, work[w].entity)]
  /\ work' = [work EXCEPT ![w].pc = work[w].next, ![w].loaded = NoEntry]
  /\ UNCHANGED <<queue, delivered, settled, marked, arrived, crashes, failures>>

Counted(entity) == [entity EXCEPT !.retryCount = @ + 1]

\* Mutant of Send: the entry is marked as sent although the provider refused.
SendIgnoringFailure(w) ==
  /\ work[w].pc = "send"
  /\ \E taken \in ProviderOutcomes :
       /\ work' = [work EXCEPT ![w] =
            Saving(work[w].id, [work[w].entity EXCEPT !.sent = TRUE], "done")]
       /\ delivered' = IF taken THEN delivered \cup {work[w].id} ELSE delivered
  /\ UNCHANGED <<queue, log, settled, marked, arrived, crashes, failures>>

Send(w) ==
  /\ work[w].pc = "send"
  /\ \E taken \in ProviderOutcomes :
       LET entity == work[w].entity
       IN  /\ work' = [work EXCEPT ![w] =
                IF taken THEN Saving(work[w].id, [entity EXCEPT !.sent = TRUE], "done")
                         ELSE Saving(work[w].id, Counted(entity), "failed")]
           /\ delivered' = IF taken THEN delivered \cup {work[w].id} ELSE delivered
  /\ UNCHANGED <<queue, log, settled, marked, arrived, crashes, failures>>

\* Mutant of SaveFails: the error of the second save is swallowed.
SaveFailsSilently(w) ==
  /\ work[w].pc \in {"save", "write"}
  /\ MoreInputs
  /\ failures' = failures + 1
  /\ work' = [work EXCEPT ![w].pc = "done", ![w].loaded = NoEntry]
  /\ UNCHANGED <<queue, log, delivered, settled, marked, arrived, crashes>>

\* The first save and the one in the catch block throw.  The save of a mail
\* that went out is inside the try: the catch block counts a failure and saves
\* the entry, which says sent by now.
SaveThrows(w) ==
  work' = [work EXCEPT ![w] =
    IF @.next = "done" THEN Saving(@.id, Counted(@.entity), "failed")
                       ELSE [@ EXCEPT !.pc = "failed", !.loaded = NoEntry]]

\* A statement fails; or the second INSERT of an id does, on the primary key.
SaveFails(w) ==
  /\ work[w].pc \in {"save", "write"}
  /\ ~Collides(w) => MoreInputs
  /\ failures' = IF Collides(w) THEN failures ELSE failures + 1
  /\ SaveThrows(w)
  /\ UNCHANGED <<queue, log, delivered, settled, marked, arrived, crashes>>

\* Mutant of Settle: a message whose mail failed is neither acknowledged nor
\* rejected.
SettleSent ==
  /\ work[Consumer].pc = "done"
  /\ Head(queue) \in SettledPatterns
  /\ queue' = Tail(queue)
  /\ settled' = [settled EXCEPT ![work[Consumer].id] = "acked"]
  /\ work' = [work EXCEPT ![Consumer] = Idle]
  /\ UNCHANGED <<log, delivered, marked, arrived, crashes, failures>>

\* ack when sendNotification returned, nack without requeue when it threw.
Settle ==
  /\ work[Consumer].pc \in {"done", "failed"}
  /\ Head(queue) \in SettledPatterns
  /\ queue' = Tail(queue)
  /\ settled' = [settled EXCEPT ![work[Consumer].id] =
                   IF work[Consumer].pc = "done" THEN "acked" ELSE "rejected"]
  /\ work' = [work EXCEPT ![Consumer] = Idle]
  /\ UNCHANGED <<log, delivered, marked, arrived, crashes, failures>>

Return(c) ==
  /\ work[c].pc \in {"done", "failed", "marked"}
  /\ work' = [work EXCEPT ![c] = Idle]
  /\ UNCHANGED <<queue, log, delivered, settled, marked, arrived, crashes, failures>>

\* Whatever was in progress is lost, the unsettled message is delivered again.
Crash ==
  /\ MoreInputs
  /\ crashes' = crashes + 1
  /\ work' = [w \in Workers |-> Idle]
  /\ UNCHANGED <<queue, log, delivered, settled, marked, arrived, failures>>

-------------------------------------------------------------------------------
Progress(w) == SaveLoad(w) \/ SaveWrite(w) \/ Send(w)

ConsumerStep ==
  \/ \E n \in Notifications : Handle(n)
  \/ RejectUnknown
  \/ Progress(Consumer)
  \/ Settle

CallStep(c) ==
  \/ \E n \in Notifications : Post(c, n) \/ Retry(c, n) \/ MarkAsProcessed(c, n)
  \/ Progress(c)
  \/ Return(c)

Next ==
  \/ \E pattern \in Patterns : Arrive(pattern)
  \/ MessageExpires
  \/ ConsumerStep
  \/ \E c \in Calls : CallStep(c)
  \/ \E w \in Workers : SaveFails(w)
  \/ Crash

Spec == Init /\ [][Next]_vars

\* Promises resolve and the consumer takes what it is given.
FairSpec == Spec /\ WF_vars(ConsumerStep)

-------------------------------------------------------------------------------
(* Properties *)

Work ==
  {Idle} \cup [pc : {"save", "write", "send", "done", "failed", "marked"},
               id : Notifications, entity : Entry, loaded : Entry,
               next : {"send", "done", "failed", "marked"}]

TypeOK ==
  /\ queue \in Seq(Patterns)
  /\ log \in [Notifications -> Entry]
  /\ work \in [Workers -> Work]
  /\ work[Consumer] # Idle => queue # <<>>
  /\ delivered \subseteq Notifications
  /\ settled \in [Notifications -> {"none", "acked", "rejected"}]
  /\ marked \subseteq Notifications
  /\ failures \in Nat

\* An entry says that its mail was sent only if the provider took one or a
\* client ticked it off, however requests and the consumer overwrite each
\* other's entry (notification.service.ts:36-80 and 145-150).
SentMeansDelivered ==
  \A n \in Notifications : log[n].sent => n \in delivered \/ n \in marked

\* A message acknowledged left a mail and an entry behind, and one rejected an
\* entry unless a statement failed: between the two saves, the send and the ack
\* the service may stop, and a retry may be at work on the same entry
\* (notification.controller.ts:79-98 and 129-146, notification.service.ts:36-83).
SettledIsOnRecord ==
  \A n \in Notifications :
    /\ settled[n] = "acked" => log[n].exists /\ n \in delivered
    /\ settled[n] = "rejected" => log[n].exists \/ failures > 0

\* "Maximum retry attempts reached" (notification.service.ts:99-101): clients may
\* ask as often as they like, no notification is retried for ever.  (Every
\* attempt, a retry too, starts to count at zero.)
RetriesEnd == \A n \in Notifications : <>[][\A c \in Calls : ~Retry(c, n)]_vars

\* Order mails get through as long as no stock alert is before them: some
\* message is taken off, and then the next (notification.controller.ts:79-98).
OrderMailsGetThrough ==
  \A k \in 0..MaxInputs :
    LET taken == arrived - Len(queue)
    IN  taken = k /\ queue # <<>> /\ Head(queue) \notin AlertPatterns ~> taken > k
===============================================================================
