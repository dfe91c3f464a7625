----------------------------- MODULE EventPublisher -----------------------------
(***************************************************************************)
(* The publish methods of the Order Service, for the events of one order:  *)
(* take a number, pass the event through the event buffer, send it to the  *)
(* inventory's queue and then a notification to notification_queue, each   *)
(* with its retries.  (publishInventoryReserved and                        *)
(* publishInventoryReservationFailed of the Inventory Service are built    *)
(* the same way from the same classes, with order_queue for the event.)    *)
(***************************************************************************)
EXTENDS SequenceService, EventBuffer, RetryService

CONSTANT MaxRestarts   \* bound: how often the process stops and starts again

Legs == {"event", "notification"}

ASSUME OperationsAssumption == Operations = Callers \X Legs

VARIABLES
  copies,    \* how many copies of each message the broker has taken
  restarts   \* the restarts so far

publisherVars == <<sequenceVars, bufferVars, retryVars, copies, restarts>>

PublisherInit ==
  /\ SequenceInit
  /\ BufferInit(row)
  /\ RetryInit
  /\ copies = [o \in Operations |-> 0]
  /\ restarts = 0

TakeNumber(c) ==
  /\ SequenceStep(c)
  /\ UNCHANGED <<bufferVars, retryVars, copies, restarts>>

\* The error of getNextSequenceNumber is the error of the publish.
NumberFails(c) ==
  /\ DatabaseFails(c)
  /\ AnError
  /\ UNCHANGED <<bufferVars, try, copies, restarts>>

Added(c) == \E e \in Range(arrivals) : e.by = c

Buffered(c) ==
  /\ call[c].stage = "granted"
  /\ ~Added(c)
  /\ try[<<c, "event">>].state = "trying"
  /\ AddEvent([by |-> c, number |-> call[c].number])
  /\ UNCHANGED <<sequenceVars, retryVars, copies, restarts>>

\* Mutants of Due: an event is sent when the buffer has processed it; the
\* error of publishToInventory is logged and not thrown again.
DueProcessed(c, leg) ==
  IF leg = "event"
  THEN (\E e \in Range(processed) : e.by = c) /\ (\A r \in Range(runs) : r.by # c)
  ELSE try[<<c, "event">>].state = "done"

DueAfterError(c, leg) ==
  IF leg = "event"
  THEN Added(c) /\ (\A r \in Range(runs) : r.by # c)
  ELSE try[<<c, "event">>].state \in {"done", "refused", "exhausted"}

\* await addEvent returns when its own loop ends, whatever became of the
\* event; the notification waits for the event's own publish.
Due(c, leg) ==
  IF leg = "event"
  THEN Added(c) /\ (\A r \in Range(runs) : r.by # c)
  ELSE try[<<c, "event">>].state = "done"

Emit(c, leg) ==
  /\ Due(c, leg)
  /\ AttemptSucceeds(<<c, leg>>)
  /\ copies' = [copies EXCEPT ![<<c, leg>>] = @ + 1]
  /\ UNCHANGED <<sequenceVars, bufferVars, restarts>>

\* The broker has not got the message, or its confirmation is lost.
EmitFails(c, leg) ==
  /\ Due(c, leg)
  /\ AttemptFails(<<c, leg>>)
  /\ copies' \in {copies, [copies EXCEPT ![<<c, leg>>] = @ + 1]}
  /\ UNCHANGED <<sequenceVars, bufferVars, restarts>>

BufferTimer ==
  /\ EventProcessed \/ CleanUp
  /\ UNCHANGED <<sequenceVars, retryVars, copies, restarts>>

\* A call that has not asked for its number yet stands for one made later.
Restart ==
  /\ restarts < MaxRestarts
  /\ restarts' = restarts + 1
  /\ TransactionsAreLost
  /\ BuffersAreLost
  /\ CallsAreLost({o \in Operations : call[o[1]].stage = "granted"})
  /\ UNCHANGED <<errors, copies>>

PublisherStep(c) ==
  \/ TakeNumber(c)
  \/ Buffered(c)
  \/ \E leg \in Legs : Emit(c, leg) \/ EmitFails(c, leg)

PublisherNext ==
  \/ \E c \in Callers : PublisherStep(c) \/ NumberFails(c)
  \/ BufferTimer
  \/ Restart

PublisherSpec == PublisherInit /\ [][PublisherNext]_publisherVars

\* The database and the broker answer, one way or the other, timers fire, and
\* an awaited call is resumed; a clean-up owes nothing to anyone.
FairPublisherSpec ==
  /\ PublisherSpec
  /\ \A c \in Callers : WF_publisherVars(PublisherStep(c))
  /\ WF_publisherVars(EventProcessed /\ UNCHANGED <<sequenceVars, retryVars, copies, restarts>>)

-------------------------------------------------------------------------------
\* Every event that got a number is sent and notified of, whatever the buffer
\* makes of it: a gap, an old number or a clean-up never holds a publisher
\* back.  Only an error that is not retried or was one too many, and a restart,
\* keep it (event.publisher.ts:42-88, retry.service.ts:67-113).
NumberedEventsAreSent ==
  \A c \in Callers :
    call[c].stage = "granted"
      ~> \/ \A leg \in Legs : copies[<<c, leg>>] > 0
         \/ \E leg \in Legs : try[<<c, leg>>].state \in {"refused", "exhausted", "lost"}

\* How a publish stands for its caller: it fails with getNextSequenceNumber or
\* with one of its two sends.
Outcome(c) ==
  IF try[<<c, "notification">>].state = "done" THEN "sent"
  ELSE IF \/ call[c].stage = "failed"
          \/ \E leg \in Legs : try[<<c, leg>>].state \in {"refused", "exhausted", "lost"}
       THEN "failed" ELSE "open"

Delivery == INSTANCE EventDelivery WITH
  Calls <- Callers,
  MaxCopies <- MaxRetries + 1,
  outcome <- [c \in Callers |-> Outcome(c)],
  events <- [c \in Callers |-> copies[<<c, "event">>]],
  notices <- [c \in Callers |-> copies[<<c, "notification">>]]

\* Retries, lost confirmations, errors and restarts or not: nothing is sent
\* after the publish was rejected, be it for want of a number, no notification
\* goes out for an event that is not on its queue, and a publish that resolved
\* has sent both (event.publisher.ts:42-88, 197-257).
KeepsDelivery == Delivery!DeliverySpec
===============================================================================
