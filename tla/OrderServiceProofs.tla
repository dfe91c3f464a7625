--------------------------- MODULE OrderServiceProofs ---------------------------
(***************************************************************************)
(* What the Order Service keeps under every interleaving and every fault:  *)
(* types, an audit trail that follows the transition table and holds what  *)
(* was announced, statuses that leave the table by overwriting only, and   *)
(* stock that is asked for paid orders only.  The lemmas about Validate    *)
(* and OrderStep are also used where OrderSaga replaces the other end of   *)
(* the queues.                                                             *)
(***************************************************************************)
EXTENDS OrderService, TLAPS

\* The statuses findOne's order may have when an operation decides on a new one.
LEMMA DecidedStatuses ==
  ASSUME NEW s, NEW t, IsValidStatusTransition(s, t)
  PROVE  s \in Statuses /\ t \in Statuses /\ s # "NONE"
BY DEF IsValidStatusTransition, OrderStatusTransitions, Statuses

\* Every operation that has read its order decided on a valid transition.
DecisionsFollowRules ==
  \A r \in Requests : slot[r].pc \in {"read", "saved", "recorded"}
    => IsValidStatusTransition(slot[r].seen, slot[r].target)

OrderInv == TypeOK /\ DecisionsFollowRules /\ HistoryFollowsRules

LEMMA OrderInit == Init => OrderInv
BY FaultsAssumption DEF Init, OrderInv, TypeOK, DecisionsFollowRules, HistoryFollowsRules, Slot, Idle,
   ConsumerIdle, Consumer, Statuses
-------------------------------------------------------------------------------
(* Requests *)

\* A slot that is given a new content keeps its type.
LEMMA SlotTypes ==
  ASSUME TypeOK, NEW r \in Requests, NEW s \in Slot, slot' = [slot EXCEPT ![r] = s]
  PROVE  slot' \in [Requests -> Slot] /\ slot'[r] = s /\ \A q \in Requests \ {r} : slot'[q] = slot[q]
BY DEF TypeOK

LEMMA ReadingIsSlot ==
  ASSUME NEW o \in Orders, NEW op \in Operations, NEW target, IsValidStatusTransition(status[o], target)
  PROVE  /\ Reading(op, o, target) \in Slot
         /\ IsValidStatusTransition(Reading(op, o, target).seen, Reading(op, o, target).target)
BY DecidedStatuses DEF Reading, Slot

\* What can be said of the slot of a request that has decided.
LEMMA DecidedSlot ==
  ASSUME TypeOK, NEW r \in Requests, slot[r].pc \in {"read", "saved", "recorded"}
  PROVE  /\ slot[r].order \in Orders /\ slot[r].op \in Operations
         /\ slot[r].seen \in Statuses /\ slot[r].target \in Statuses
         /\ slot[r] = [pc |-> slot[r].pc, op |-> slot[r].op, order |-> slot[r].order,
                       seen |-> slot[r].seen, target |-> slot[r].target]
         /\ At(r, "recorded") => MessageOf(r) \in Message(OrderEvents)
<1>1. slot[r] \in Slot
  BY DEF TypeOK
<1> QED
  BY <1>1 DEF Slot, Idle, At, MessageOf, Message, OrderEvents, EventOf

\* What can be said of the slot of a creation before its payment.
LEMMA CreatingSlot ==
  ASSUME TypeOK, NEW r \in Requests, slot[r].pc \in {"validated", "paying"}
  PROVE  /\ slot[r] \in [pc : {"validated", "paying"}, op : {"create"}, order : Orders,
                         seen : {"NONE"}, target : {"NONE"}]
         /\ slot[r].order \in Orders
<1>1. slot[r] \in Slot
  BY DEF TypeOK
<1>2. slot[r] \in [pc : {"validated", "paying"}, op : {"create"}, order : Orders,
                  seen : {"NONE"}, target : {"NONE"}]
  BY <1>1 DEF Slot, Idle
<1> QED
  BY <1>2

\* The slot of an operation that has decided, at its next step.
LEMMA MovedSlot ==
  ASSUME TypeOK, NEW r \in Requests, slot[r].pc \in {"read", "saved", "recorded"},
         NEW pc \in {"saved", "recorded"},
         pc = "recorded" => EventOf(slot[r].op, slot[r].target) # "none"
  PROVE  /\ [slot[r] EXCEPT !.pc = pc] \in Slot
         /\ [slot[r] EXCEPT !.pc = pc].pc = pc
         /\ [slot[r] EXCEPT !.pc = pc].seen = slot[r].seen
         /\ [slot[r] EXCEPT !.pc = pc].target = slot[r].target
         /\ [slot[r] EXCEPT !.pc = pc].order = slot[r].order
<1> DEFINE s == [pc |-> pc, op |-> slot[r].op, order |-> slot[r].order,
                 seen |-> slot[r].seen, target |-> slot[r].target]
<1>1. [slot[r] EXCEPT !.pc = pc] = s
  <2>1. PICK c, op, o, seen, target :
          slot[r] = [pc |-> c, op |-> op, order |-> o, seen |-> seen, target |-> target]
    BY DecidedSlot
  <2> QED
    BY <2>1
<1>2. s \in Slot
  BY DecidedSlot DEF Slot
<1> QED
  BY <1>1, <1>2

LEMMA ValidateInv ==
  ASSUME OrderInv, NEW r \in Requests, NEW o \in Orders, Validate(r, o)
  PROVE  OrderInv'
<1> DEFINE s == [pc |-> "validated", op |-> "create", order |-> o, seen |-> "NONE", target |-> "NONE"]
<1>1. s \in Slot
  BY DEF Slot
<1>2. slot' = [slot EXCEPT ![r] = s]
  BY DEF Validate
<1> HIDE DEF s
<1>3. TypeOK'
  BY <1>1, <1>2, SlotTypes DEF OrderInv, TypeOK, Validate
<1>4. DecisionsFollowRules'
  BY <1>1, <1>2, SlotTypes DEF OrderInv, DecisionsFollowRules, s
<1> QED
  BY <1>3, <1>4 DEF OrderInv, HistoryFollowsRules, Validate

LEMMA CallInv ==
  ASSUME OrderInv, NEW r \in Requests, CallArrives(r)
  PROVE  OrderInv'
<1>1. PICK op \in Operations, o \in Orders, target \in Statuses :
        /\ IsValidStatusTransition(status[o], target)
        /\ slot' = [slot EXCEPT ![r] = Reading(op, o, target)]
        /\ UNCHANGED <<status, history, consumer, invQ, ordQ, notified, paid, faults>>
  BY TargetsAssumption DEF CallArrives, Cancel, Patch, IsCancellableStatus, IsValidStatusTransition,
     Operations, Statuses
<1> DEFINE s == Reading(op, o, target)
<1>2. s \in Slot /\ IsValidStatusTransition(s.seen, s.target)
  BY <1>1, ReadingIsSlot
<1> HIDE DEF s
<1>3. TypeOK'
  BY <1>1, <1>2, SlotTypes DEF OrderInv, TypeOK, s
<1>4. DecisionsFollowRules'
  BY <1>1, <1>2, SlotTypes DEF OrderInv, DecisionsFollowRules, s
<1> QED
  BY <1>1, <1>3, <1>4 DEF OrderInv, HistoryFollowsRules

LEMMA SavePendingInv ==
  ASSUME OrderInv, NEW r \in Requests, SavePending(r)
  PROVE  OrderInv'
<1> DEFINE s == [slot[r] EXCEPT !.pc = "paying"]
<1>1. s \in Slot /\ s.pc = "paying" /\ slot[r].order \in Orders
  <2>1. slot[r] \in [pc : {"validated", "paying"}, op : {"create"}, order : Orders,
                     seen : {"NONE"}, target : {"NONE"}]
    BY CreatingSlot DEF OrderInv, SavePending, At
  <2> QED
    BY <2>1 DEF Slot
<1>2. slot' = [slot EXCEPT ![r] = s]
  BY DEF SavePending, Goto, OrderInv, TypeOK
<1> HIDE DEF s
<1>3. TypeOK'
  BY <1>1, <1>2, SlotTypes DEF OrderInv, TypeOK, SavePending, Statuses
<1>4. DecisionsFollowRules'
  BY <1>1, <1>2, SlotTypes DEF OrderInv, DecisionsFollowRules
<1> QED
  BY <1>3, <1>4 DEF OrderInv, HistoryFollowsRules, SavePending

LEMMA PayInv ==
  ASSUME OrderInv, NEW r \in Requests, Pay(r)
  PROVE  OrderInv'
<1>1. PICK success \in PaymentOutcomes :
        LET o == slot[r].order
            target == IF success THEN "CONFIRMED" ELSE "CANCELLED"
        IN  /\ slot' = [slot EXCEPT ![r] = IF IsValidStatusTransition(status[o], target)
                                           THEN Reading("create", o, target) ELSE Idle]
            /\ paid' = IF success THEN paid \cup {o} ELSE paid
  BY DEF Pay
<1> DEFINE o == slot[r].order
           target == IF success THEN "CONFIRMED" ELSE "CANCELLED"
           s == IF IsValidStatusTransition(status[o], target) THEN Reading("create", o, target) ELSE Idle
<1>2. o \in Orders
  BY DEF OrderInv, TypeOK, Pay, At, Slot, Idle
<1>3. /\ s \in Slot
      /\ s.pc \in {"read", "saved", "recorded"} => IsValidStatusTransition(s.seen, s.target)
  <2>1. "create" \in Operations
    BY DEF Operations
  <2>2. CASE IsValidStatusTransition(status[o], target)
    BY <1>2, <2>1, <2>2, ReadingIsSlot
  <2>3. CASE ~IsValidStatusTransition(status[o], target)
    BY <2>3 DEF Slot, Idle
  <2> QED
    BY <2>2, <2>3
<1>4. slot' = [slot EXCEPT ![r] = s] /\ paid' \subseteq Orders
  BY <1>1, <1>2 DEF OrderInv, TypeOK
<1> HIDE DEF s
<1>5. TypeOK'
  BY <1>3, <1>4, SlotTypes DEF OrderInv, TypeOK, Pay
<1>6. DecisionsFollowRules'
  BY <1>3, <1>4, SlotTypes DEF OrderInv, DecisionsFollowRules
<1> QED
  BY <1>5, <1>6 DEF OrderInv, HistoryFollowsRules, Pay

LEMMA SaveInv ==
  ASSUME OrderInv, NEW r \in Requests, Save(r)
  PROVE  OrderInv'
<1> DEFINE s == [slot[r] EXCEPT !.pc = "saved"]
<1>1. /\ slot[r].order \in Orders /\ slot[r].target \in Statuses
      /\ s \in Slot /\ s.seen = slot[r].seen /\ s.target = slot[r].target
  BY MovedSlot, DecidedSlot DEF OrderInv, Save, At
<1>2. slot' = [slot EXCEPT ![r] = s] /\ slot[r].pc = "read"
  BY DEF Save, Goto, At, OrderInv, TypeOK
<1> HIDE DEF s
<1>3. TypeOK'
  BY <1>1, <1>2, SlotTypes DEF OrderInv, TypeOK, Save
<1>4. DecisionsFollowRules'
  BY <1>1, <1>2, SlotTypes DEF OrderInv, DecisionsFollowRules
<1> QED
  BY <1>3, <1>4 DEF OrderInv, HistoryFollowsRules, Save

\* Record ends the request unless there is something to publish.
LEMMA RecordSlot ==
  ASSUME OrderInv, NEW r \in Requests, Record(r)
  PROVE  /\ slot[r].pc = "saved"
         /\ slot' = [slot EXCEPT ![r] = IF EventOf(slot[r].op, slot[r].target) = "none"
                                        THEN Idle ELSE [slot[r] EXCEPT !.pc = "recorded"]]
<1>1. slot[r].pc = "saved"
  BY DEF Record, At
<1>2. CASE EventOf(slot[r].op, slot[r].target) = "none"
  BY <1>1, <1>2 DEF Record, Finish
<1>3. CASE EventOf(slot[r].op, slot[r].target) # "none"
  BY <1>1, <1>3 DEF Record, Goto, OrderInv, TypeOK
<1> QED
  BY <1>1, <1>2, <1>3

\* The entry that Record appends is the decision the request took.
LEMMA RecordInv ==
  ASSUME OrderInv, NEW r \in Requests, Record(r)
  PROVE  OrderInv'
<1> DEFINE s == IF EventOf(slot[r].op, slot[r].target) = "none"
                THEN Idle ELSE [slot[r] EXCEPT !.pc = "recorded"]
           entry == [prev |-> slot[r].seen, new |-> slot[r].target]
           o == slot[r].order
<1>1. /\ o \in Orders /\ entry \in Entry /\ s \in Slot
      /\ s.pc = "recorded" => s.seen = slot[r].seen /\ s.target = slot[r].target
      /\ s.pc \in {"idle", "recorded"}
  BY MovedSlot, DecidedSlot DEF OrderInv, Record, At, Slot, Idle, Entry
<1>2. slot' = [slot EXCEPT ![r] = s] /\ slot[r].pc = "saved"
  BY RecordSlot
<1>3. history' = [history EXCEPT ![o] = Append(history[o], entry)] /\ history[o] \in Seq(Entry)
  BY <1>1 DEF Record, OrderInv, TypeOK
<1>4. IsValidStatusTransition(entry.prev, entry.new)
  BY <1>2 DEF OrderInv, DecisionsFollowRules
<1> HIDE DEF s, entry, o
<1>5. TypeOK'
  <2>1. Append(history[o], entry) \in Seq(Entry)
    BY <1>1, <1>3
  <2>2. history' \in [Orders -> Seq(Entry)]
    BY <1>1, <1>3, <2>1 DEF OrderInv, TypeOK
  <2> QED
    BY <1>1, <1>2, <2>2, SlotTypes DEF OrderInv, TypeOK, Record
<1>6. DecisionsFollowRules'
  BY <1>1, <1>2, SlotTypes DEF OrderInv, DecisionsFollowRules
<1>7. HistoryFollowsRules'
  <2> SUFFICES ASSUME NEW q \in Orders, NEW i \in DOMAIN history'[q]
               PROVE  IsValidStatusTransition(history'[q][i].prev, history'[q][i].new)
    BY DEF HistoryFollowsRules
  <2>1. CASE q # o
    BY <1>1, <1>3, <2>1 DEF OrderInv, TypeOK, HistoryFollowsRules
  <2>2. CASE q = o /\ i = Len(history[o]) + 1
    BY <1>1, <1>3, <1>4, <2>2 DEF OrderInv, TypeOK
  <2>3. CASE q = o /\ i # Len(history[o]) + 1
    <3>1. i \in DOMAIN history[o] /\ history'[o][i] = history[o][i]
      BY <1>1, <1>3, <2>3 DEF OrderInv, TypeOK
    <3> QED
      BY <1>1, <2>3, <3>1 DEF OrderInv, HistoryFollowsRules
  <2> QED
    BY <2>1, <2>2, <2>3
<1> QED
  BY <1>5, <1>6, <1>7 DEF OrderInv

\* Publish and its two faults: messages of a type the inventory knows.
LEMMA PublishInv ==
  ASSUME OrderInv, NEW r \in Requests, Publish(r) \/ PublishFails(r) \/ PublishTwice(r)
  PROVE  OrderInv'
<1> DEFINE m == MessageOf(r)
<1>1. m \in Message(OrderEvents) /\ slot[r].order \in Orders
  BY DecidedSlot DEF OrderInv, Publish, PublishFails, PublishTwice, At
<1>2. m.type \in OrderEvents
  BY <1>1 DEF Message
<1>3. invQ' \in Seq(Message(OrderEvents))
  <2>1. <<m, m>> \in Seq(Message(OrderEvents)) /\ invQ \in Seq(Message(OrderEvents))
    BY <1>1 DEF OrderInv, TypeOK
  <2> HIDE DEF m
  <2>2. Append(invQ, m) \in Seq(Message(OrderEvents)) /\ invQ \o <<m, m>> \in Seq(Message(OrderEvents))
    BY <1>1, <2>1
  <2> QED
    BY <2>1, <2>2 DEF m, Publish, PublishFails, PublishTwice
<1>4. notified' \subseteq (OrderEvents \cup ReplyEvents) \X Orders
  BY <1>1, <1>2 DEF OrderInv, TypeOK, Publish, PublishFails, PublishTwice
<1>5. faults' \in 0 .. MaxFaults
  BY FaultsAssumption DEF OrderInv, TypeOK, Publish, PublishFails, PublishTwice, Fault
<1>6. slot' = [slot EXCEPT ![r] = Idle] /\ Idle \in Slot
  BY DEF Publish, PublishFails, PublishTwice, Finish, Slot
<1>7. TypeOK'
  BY <1>3, <1>4, <1>5, <1>6, SlotTypes DEF OrderInv, TypeOK, Publish, PublishFails, PublishTwice
<1>8. DecisionsFollowRules'
  BY <1>6, SlotTypes DEF OrderInv, DecisionsFollowRules, Idle
<1> QED
  BY <1>7, <1>8 DEF OrderInv, HistoryFollowsRules, Publish, PublishFails, PublishTwice
-------------------------------------------------------------------------------
(* The consumer and the other faults *)

LEMMA HeadAndTail ==
  ASSUME NEW S, NEW q \in Seq(S), q # <<>>
  PROVE  Head(q) \in S /\ Tail(q) \in Seq(S)
OBVIOUS

LEMMA Appended ==
  ASSUME NEW S, NEW q \in Seq(S), NEW m \in S
  PROVE  Append(q, m) \in Seq(S) /\ Append(q, m) # <<>>
<1>1. Append(q, m) \in Seq(S) /\ Len(Append(q, m)) = Len(q) + 1 /\ Len(q) \in Nat
  OBVIOUS
<1>2. Len(<<>>) = 0
  OBVIOUS
<1> QED
  BY <1>1, <1>2

LEMMA TailTypes == ASSUME TypeOK, ordQ # <<>> PROVE Tail(ordQ) \in Seq(Message(ReplyEvents))
BY DEF TypeOK

LEMMA ConsumerInv == ASSUME OrderInv, ConsumerStep PROVE OrderInv'
<1>1. CASE HandleReserved \/ \E o \in Orders : CancelReject(o)
  BY <1>1, TailTypes
     DEF OrderInv, TypeOK, HandleReserved, CancelReject, DecisionsFollowRules, HistoryFollowsRules
<1>2. ASSUME NEW o \in Orders, CancelRead(o) PROVE OrderInv'
  <2>1. status[o] \in Statuses /\ ordQ # <<>>
    BY <1>2, DecidedStatuses DEF CancelRead, IsCancellableStatus, IsValidStatusTransition
  <2> QED
    BY <1>2, <2>1 DEF OrderInv, TypeOK, CancelRead, Consumer, DecisionsFollowRules, HistoryFollowsRules
<1>3. CASE CancelSave
  <2>1. consumer.order \in Orders /\ consumer.seen \in Statuses /\ ordQ # <<>>
        /\ consumer = [pc |-> "read", order |-> consumer.order, seen |-> consumer.seen]
    BY <1>3 DEF OrderInv, TypeOK, CancelSave, Consumer, ConsumerIdle
  <2>2. status' \in [Orders -> Statuses \cup {"NONE"}]
    BY <1>3, <2>1 DEF OrderInv, TypeOK, CancelSave, Statuses
  <2>3. consumer' = [pc |-> "saved", order |-> consumer.order, seen |-> consumer.seen]
    BY <1>3, <2>1 DEF CancelSave
  <2>4. consumer' \in Consumer
    BY <2>1, <2>3 DEF Consumer
  <2> QED
    BY <1>3, <2>1, <2>2, <2>4
       DEF OrderInv, TypeOK, CancelSave, DecisionsFollowRules, HistoryFollowsRules
<1>4. CASE CancelUnrecorded
  <2>1. ordQ # <<>>
    BY <1>4 DEF OrderInv, TypeOK, CancelUnrecorded, ConsumerIdle
  <2> QED
    BY <1>4, <2>1, TailTypes
       DEF OrderInv, TypeOK, CancelUnrecorded, Consumer, DecisionsFollowRules, HistoryFollowsRules
<1> QED
  BY <1>1, <1>2, <1>3, <1>4 DEF ConsumerStep

LEMMA CrashInv == ASSUME OrderInv, OrderCrash \/ ReplyExpires PROVE OrderInv'
<1>1. faults' \in 0 .. MaxFaults
  BY FaultsAssumption DEF OrderInv, TypeOK, OrderCrash, ReplyExpires, Fault
<1>2. CASE OrderCrash
  <2>1. slot' \in [Requests -> Slot] /\ \A r \in Requests : slot'[r] = Idle
    BY <1>2 DEF OrderCrash, Slot
  <2> QED
    BY <1>1, <1>2, <2>1
       DEF OrderInv, TypeOK, OrderCrash, Consumer, DecisionsFollowRules, HistoryFollowsRules, Idle
<1>3. CASE ReplyExpires
  BY <1>1, <1>3, TailTypes
     DEF OrderInv, TypeOK, ReplyExpires, DecisionsFollowRules, HistoryFollowsRules
<1> QED
  BY <1>2, <1>3

LEMMA OrderStepInv == ASSUME OrderInv, OrderStep PROVE OrderInv'
<1>1. ASSUME NEW r \in Requests, RequestProgress(r) PROVE OrderInv'
  BY <1>1, SavePendingInv, PayInv, SaveInv, RecordInv, PublishInv DEF RequestProgress
<1> QED
  BY <1>1, CallInv, ConsumerInv, CrashInv, PublishInv DEF OrderStep, OrderFault

LEMMA InventoryAnswersInv == ASSUME OrderInv, InventoryAnswers PROVE OrderInv'
<1>1. Tail(invQ) \in Seq(Message(OrderEvents)) /\ Head(invQ).order \in Orders
  <2>1. Head(invQ) \in Message(OrderEvents) /\ Tail(invQ) \in Seq(Message(OrderEvents))
    BY HeadAndTail DEF OrderInv, TypeOK, InventoryAnswers
  <2> QED
    BY <2>1 DEF Message
<1>2. ordQ' \in Seq(Message(ReplyEvents)) /\ (ordQ # <<>> => ordQ' # <<>>)
  <2>1. ASSUME NEW reply \in Replies
        PROVE  [type |-> reply, order |-> Head(invQ).order] \in Message(ReplyEvents)
    BY <1>1, <2>1, RepliesAssumption DEF Message, ReplyEvents
  <2>2. ASSUME NEW m \in Message(ReplyEvents)
        PROVE  Append(ordQ, m) \in Seq(Message(ReplyEvents)) /\ Append(ordQ, m) # <<>>
    BY Appended DEF OrderInv, TypeOK
  <2>3. ordQ \in Seq(Message(ReplyEvents))
    BY DEF OrderInv, TypeOK
  <2>4. CASE Head(invQ).type = "order.created"
    BY <2>1, <2>2, <2>4 DEF InventoryAnswers
  <2>5. CASE Head(invQ).type # "order.created"
    BY <2>3, <2>5 DEF InventoryAnswers
  <2> QED
    BY <2>4, <2>5
<1> QED
  BY <1>1, <1>2 DEF OrderInv, TypeOK, InventoryAnswers, DecisionsFollowRules, HistoryFollowsRules

LEMMA OrderNextInv == ASSUME OrderInv, [Next]_vars PROVE OrderInv'
<1>1. CASE UNCHANGED vars
  BY <1>1 DEF vars, OrderInv, TypeOK, DecisionsFollowRules, HistoryFollowsRules
<1> QED
  BY <1>1, ValidateInv, OrderStepInv, InventoryAnswersInv DEF Next

\* Every variable keeps its type (order.service.ts, order.controller.ts).
THEOREM Typing == Spec => []TypeOK
<1>1. OrderInv => TypeOK
  BY DEF OrderInv
<1> QED
  BY OrderInit, OrderNextInv, <1>1, PTL DEF Spec

\* However many requests interleave and whatever fails, the audit trail holds
\* no step that the transition table forbids (order.service.ts:156-191).
THEOREM AuditTrail == Spec => []HistoryFollowsRules
<1>1. OrderInv => HistoryFollowsRules
  BY DEF OrderInv
<1> QED
  BY OrderInit, OrderNextInv, <1>1, PTL DEF Spec
-------------------------------------------------------------------------------
(* Paid orders.  CONFIRMED is reached through the payment alone, unless an   *)
(* administrator may set it; what an operation decided before it saved, and  *)
(* what is on its way to the inventory, has to be counted too.               *)

PaidStatuses == {"CONFIRMED", "SHIPPED", "DELIVERED"}

DecisionsArePaid ==
  \A r \in Requests : slot[r].target \in PaidStatuses => slot[r].order \in paid

PaidInv == ConfirmedIsPaid /\ DecisionsArePaid /\ StockIsAskedForPaidOrders

LEMMA PaidInit == Init => PaidInv
BY DEF Init, PaidInv, ConfirmedIsPaid, DecisionsArePaid, StockIsAskedForPaidOrders, Idle, PaidStatuses

LEMMA ValidatePaid ==
  ASSUME OrderInv, PaidInv, NEW r \in Requests, NEW o \in Orders, Validate(r, o)
  PROVE  PaidInv'
BY DEF Validate, OrderInv, TypeOK, PaidInv, ConfirmedIsPaid, DecisionsArePaid,
       StockIsAskedForPaidOrders, PaidStatuses

LEMMA CallPaid ==
  ASSUME OrderInv, PaidInv, "CONFIRMED" \notin PatchTargets, NEW r \in Requests, CallArrives(r)
  PROVE  PaidInv'
<1>1. PICK op \in Operations, o \in Orders, target \in PatchTargets \cup {"CANCELLED"} :
        /\ IsValidStatusTransition(status[o], target)
        /\ slot' = [slot EXCEPT ![r] = Reading(op, o, target)]
        /\ UNCHANGED <<status, invQ, paid>>
  BY DEF CallArrives, Cancel, Patch, IsCancellableStatus, IsValidStatusTransition, Operations
<1>2. target \in PaidStatuses => status[o] \in PaidStatuses
  BY <1>1 DEF IsValidStatusTransition, OrderStatusTransitions, PaidStatuses
<1>3. target \in PaidStatuses => o \in paid
  BY <1>2 DEF PaidInv, ConfirmedIsPaid, PaidStatuses
<1>4. DecisionsArePaid'
  BY <1>1, <1>3 DEF OrderInv, TypeOK, PaidInv, DecisionsArePaid, Reading
<1> QED
  BY <1>1, <1>4 DEF PaidInv, ConfirmedIsPaid, StockIsAskedForPaidOrders

\* From the request to the row: a paid status is saved for a paid order.
LEMMA ProgressPaid ==
  ASSUME OrderInv, PaidInv, NEW r \in Requests,
         SavePending(r) \/ Pay(r) \/ Save(r) \/ Record(r)
  PROVE  PaidInv'
<1>1. CASE SavePending(r)
  BY <1>1 DEF SavePending, Goto, OrderInv, TypeOK, PaidInv, ConfirmedIsPaid, DecisionsArePaid,
     StockIsAskedForPaidOrders, PaidStatuses
<1>2. CASE Pay(r)
  <2>1. PICK success \in PaymentOutcomes :
          LET o == slot[r].order
              target == IF success THEN "CONFIRMED" ELSE "CANCELLED"
          IN  /\ slot' = [slot EXCEPT ![r] = IF IsValidStatusTransition(status[o], target)
                                             THEN Reading("create", o, target) ELSE Idle]
              /\ paid' = IF success THEN paid \cup {o} ELSE paid
    BY <1>2 DEF Pay
  <2>2. DecisionsArePaid'
    BY <2>1 DEF OrderInv, TypeOK, PaidInv, DecisionsArePaid, Reading, Idle, PaidStatuses
  <2> QED
    BY <1>2, <2>1, <2>2 DEF Pay, PaidInv, ConfirmedIsPaid, StockIsAskedForPaidOrders
<1>3. CASE Save(r)
  BY <1>3 DEF Save, Goto, OrderInv, TypeOK, PaidInv, ConfirmedIsPaid, DecisionsArePaid,
     StockIsAskedForPaidOrders, PaidStatuses
<1>4. CASE Record(r)
  <2>1. \A q \in Requests : slot'[q].target \in PaidStatuses
          => slot'[q].target = slot[q].target /\ slot'[q].order = slot[q].order
    <3> DEFINE s == IF EventOf(slot[r].op, slot[r].target) = "none"
                    THEN Idle ELSE [slot[r] EXCEPT !.pc = "recorded"]
    <3>1. slot' = [slot EXCEPT ![r] = s] /\ slot[r].pc = "saved"
      BY <1>4, RecordSlot
    <3>2. s = Idle \/ (s.order = slot[r].order /\ s.target = slot[r].target)
      BY <3>1, MovedSlot DEF OrderInv
    <3> HIDE DEF s
    <3>3. slot' \in [Requests -> {s} \cup Slot] /\ slot'[r] = s /\ \A q \in Requests \ {r} : slot'[q] = slot[q]
      BY <3>1 DEF OrderInv, TypeOK
    <3> QED
      BY <3>2, <3>3 DEF Idle, PaidStatuses
  <2>2. DecisionsArePaid'
    BY <1>4, <2>1 DEF Record, PaidInv, DecisionsArePaid
  <2> QED
    BY <1>4, <2>2 DEF Record, PaidInv, ConfirmedIsPaid, StockIsAskedForPaidOrders
<1> QED
  BY <1>1, <1>2, <1>3, <1>4

\* A message a request sends is about a paid order, or a cancellation.
LEMMA PublishPaid ==
  ASSUME OrderInv, PaidInv, NEW r \in Requests, Publish(r) \/ PublishFails(r) \/ PublishTwice(r)
  PROVE  PaidInv'
<1> DEFINE m == MessageOf(r)
<1>1. m.type \in {"order.created", "order.delivered"} => m.order \in paid
  BY DEF MessageOf, EventOf, PaidInv, DecisionsArePaid, PaidStatuses
<1>2. invQ \in Seq(Message(OrderEvents))
  BY DEF OrderInv, TypeOK
<1>3. \A i \in DOMAIN invQ' : invQ'[i] = m \/ (i \in DOMAIN invQ /\ invQ'[i] = invQ[i])
  <2> HIDE DEF m
  <2>1. CASE invQ' = invQ
    BY <1>2, <2>1
  <2>2. CASE invQ' = Append(invQ, m)
    BY <1>2, <2>2
  <2>3. CASE invQ' = invQ \o <<m, m>>
    BY <1>2, <2>3
  <2> QED
    BY <2>1, <2>2, <2>3 DEF m, Publish, PublishFails, PublishTwice
<1>4. UNCHANGED <<status, paid>> /\ slot' = [slot EXCEPT ![r] = Idle]
  BY DEF Publish, PublishFails, PublishTwice, Finish
<1>5. StockIsAskedForPaidOrders'
  <2> HIDE DEF m
  <2> QED
    BY <1>1, <1>3, <1>4 DEF PaidInv, StockIsAskedForPaidOrders
<1>6. DecisionsArePaid'
  BY <1>4 DEF OrderInv, TypeOK, PaidInv, DecisionsArePaid, Idle, PaidStatuses
<1> QED
  BY <1>4, <1>5, <1>6 DEF PaidInv, ConfirmedIsPaid

LEMMA ConsumerPaid ==
  ASSUME OrderInv, PaidInv, ConsumerStep \/ OrderCrash \/ ReplyExpires
  PROVE  PaidInv'
<1>1. UNCHANGED <<invQ, paid>> /\ (slot' = slot \/ slot' = [q \in Requests |-> Idle])
  BY DEF ConsumerStep, HandleReserved, CancelRead, CancelReject, CancelSave, CancelUnrecorded,
     OrderCrash, ReplyExpires
<1>2. DecisionsArePaid'
  BY <1>1 DEF PaidInv, DecisionsArePaid, Idle, PaidStatuses
<1>3. \A o \in Orders : status'[o] = status[o] \/ status'[o] = "CANCELLED"
  BY DEF ConsumerStep, HandleReserved, CancelRead, CancelReject, CancelSave, CancelUnrecorded,
     OrderCrash, ReplyExpires, OrderInv, TypeOK
<1> QED
  BY <1>1, <1>2, <1>3 DEF PaidInv, ConfirmedIsPaid, StockIsAskedForPaidOrders

LEMMA OrderStepPaid ==
  ASSUME OrderInv, PaidInv, "CONFIRMED" \notin PatchTargets, OrderStep
  PROVE  PaidInv'
BY CallPaid, ProgressPaid, PublishPaid, ConsumerPaid DEF OrderStep, RequestProgress, OrderFault

LEMMA InventoryTakesPaid ==
  ASSUME OrderInv, PaidInv, invQ # <<>>, invQ' = Tail(invQ), UNCHANGED <<status, slot, paid>>
  PROVE  PaidInv'
<1>1. \A i \in DOMAIN Tail(invQ) : i + 1 \in DOMAIN invQ /\ Tail(invQ)[i] = invQ[i + 1]
  BY DEF OrderInv, TypeOK
<1> QED
  BY <1>1 DEF PaidInv, ConfirmedIsPaid, DecisionsArePaid, StockIsAskedForPaidOrders

\* Unless an administrator sets CONFIRMED by hand, no interleaving and no fault
\* confirms an order that was not paid, asks for its stock or consumes it
\* (order.service.ts:66-78, 144-200).
THEOREM PaidOrdersOnly ==
  ASSUME "CONFIRMED" \notin PatchTargets
  PROVE  Spec => [](ConfirmedIsPaid /\ StockIsAskedForPaidOrders)
<1>1. Init => OrderInv /\ PaidInv
  BY OrderInit, PaidInit
<1>2. OrderInv /\ PaidInv /\ [Next]_vars => OrderInv' /\ PaidInv'
  <2> SUFFICES ASSUME OrderInv, PaidInv, [Next]_vars PROVE OrderInv' /\ PaidInv'
    OBVIOUS
  <2>1. CASE UNCHANGED vars
    BY <2>1, OrderNextInv
       DEF vars, PaidInv, ConfirmedIsPaid, DecisionsArePaid, StockIsAskedForPaidOrders
  <2>2. CASE InventoryAnswers
    BY <2>2, OrderNextInv, InventoryTakesPaid DEF InventoryAnswers
  <2> QED
    BY <2>1, <2>2, OrderNextInv, ValidatePaid, OrderStepPaid DEF Next
<1>3. PaidInv => ConfirmedIsPaid /\ StockIsAskedForPaidOrders
  BY DEF PaidInv
<1> QED
  BY <1>1, <1>2, <1>3, PTL DEF Spec

\* No message asks the inventory for stock of an unpaid order, unless an
\* administrator may set CONFIRMED (order.service.ts:65-97).
THEOREM StockForPaidOrdersOnly ==
  ASSUME "CONFIRMED" \notin PatchTargets
  PROVE  Spec => []StockIsAskedForPaidOrders
BY PaidOrdersOnly, PTL
-------------------------------------------------------------------------------
(* What is announced is on record: an event is published by a request that   *)
(* has made its entry, and entries stay.                                     *)

Recorded(o, s) == \E i \in DOMAIN history[o] : history[o][i].new = s

TrailInv ==
  /\ EventsAreOnRecord
  /\ \A r \in Requests : slot[r].op = "cancel" => slot[r].target = "CANCELLED"
  /\ \A r \in Requests : At(r, "recorded") => Recorded(slot[r].order, slot[r].target)

LEMMA TrailInit == Init => TrailInv
BY DEF Init, TrailInv, EventsAreOnRecord, At, Idle

\* An operation that publishes an event has the status it tells of as target.
LEMMA EventsTellTargets ==
  ASSUME NEW op, NEW target, op = "cancel" => target = "CANCELLED", EventOf(op, target) # "none"
  PROVE  Lifecycle!StatusOf(EventOf(op, target)) = target
BY DEF EventOf, Lifecycle!StatusOf

\* Steps that announce nothing and take no request past its history insert.
LEMMA TrailKept ==
  ASSUME TrailInv, UNCHANGED <<history, invQ, notified>>,
         \A r \in Requests :
           \/ slot'[r] = slot[r]
           \/ slot'[r].pc # "recorded" /\ (slot'[r].op = "cancel" => slot'[r].target = "CANCELLED")
  PROVE  TrailInv'
BY DEF TrailInv, EventsAreOnRecord, Recorded, At

LEMMA RequestTrail ==
  ASSUME OrderInv, TrailInv, NEW r \in Requests,
         \/ \E o \in Orders : Validate(r, o)
         \/ CallArrives(r) \/ SavePending(r) \/ Pay(r) \/ Save(r)
  PROVE  TrailInv'
<1>1. UNCHANGED <<history, invQ, notified>>
  BY DEF Validate, CallArrives, Cancel, Patch, SavePending, Pay, Save
<1>2. \A q \in Requests \ {r} : slot'[q] = slot[q]
  BY DEF Validate, CallArrives, Cancel, Patch, SavePending, Pay, Save, Goto, OrderInv, TypeOK
<1>3. slot'[r].pc # "recorded" /\ (slot'[r].op = "cancel" => slot'[r].target = "CANCELLED")
  <2>1. CASE \/ \E o \in Orders : Validate(r, o)
             \/ CallArrives(r) \/ Pay(r)
    BY <2>1 DEF Validate, CallArrives, Cancel, Patch, Pay, Reading, Idle, OrderInv, TypeOK
  <2>2. CASE SavePending(r)
    <3>1. slot[r] \in [pc : {"validated", "paying"}, op : {"create"}, order : Orders,
                       seen : {"NONE"}, target : {"NONE"}]
      BY <2>2, CreatingSlot DEF SavePending, At, OrderInv
    <3> QED
      BY <2>2, <3>1 DEF SavePending, Goto, OrderInv, TypeOK
  <2>3. CASE Save(r)
    <3> DEFINE s == slot[r]
    <3>1. s = [pc |-> s.pc, op |-> s.op, order |-> s.order, seen |-> s.seen, target |-> s.target]
          /\ (s.op = "cancel" => s.target = "CANCELLED")
      BY <2>3, DecidedSlot DEF Save, At, OrderInv, TrailInv
    <3>2. slot'[r] = [s EXCEPT !.pc = "saved"]
      BY <2>3 DEF Save, Goto, OrderInv, TypeOK
    <3> HIDE DEF s
    <3>3. [s EXCEPT !.pc = "saved"].op = s.op /\ [s EXCEPT !.pc = "saved"].target = s.target
          /\ [s EXCEPT !.pc = "saved"].pc = "saved"
      BY <3>1
    <3> QED
      BY <3>1, <3>2, <3>3
  <2> QED
    BY <2>1, <2>2, <2>3
<1> QED
  BY <1>1, <1>2, <1>3, TrailKept

LEMMA RecordTrail ==
  ASSUME OrderInv, TrailInv, NEW r \in Requests, Record(r)
  PROVE  TrailInv'
<1>1. PICK o \in Orders, e \in Entry :
        /\ o = slot[r].order /\ e = [prev |-> slot[r].seen, new |-> slot[r].target]
        /\ history' = [history EXCEPT ![o] = Append(history[o], e)]
        /\ UNCHANGED <<invQ, notified>>
  <2>1. /\ slot[r].order \in Orders
        /\ [prev |-> slot[r].seen, new |-> slot[r].target] \in Entry
    BY DecidedSlot DEF Record, At, OrderInv, Entry
  <2>2. /\ history' = [history EXCEPT ![slot[r].order] =
                         Append(history[slot[r].order], [prev |-> slot[r].seen, new |-> slot[r].target])]
        /\ UNCHANGED <<invQ, notified>>
    BY <2>1 DEF Record, OrderInv, TypeOK
  <2> QED
    BY <2>1, <2>2
<1>2. history[o] \in Seq(Entry) /\ history'[o] = Append(history[o], e)
      /\ \A p \in Orders \ {o} : history'[p] = history[p]
  BY <1>1 DEF OrderInv, TypeOK
<1>3. ASSUME NEW p \in Orders, NEW s, Recorded(p, s) PROVE Recorded(p, s)'
  <2>1. PICK i \in DOMAIN history[p] : history[p][i].new = s
    BY <1>3 DEF Recorded
  <2>2. i \in DOMAIN history'[p] /\ history'[p][i].new = s
    <3>1. i \in DOMAIN history[o] => i \in DOMAIN Append(history[o], e)
                                    /\ Append(history[o], e)[i] = history[o][i]
      BY <1>2
    <3>2. CASE p = o
      BY <1>2, <2>1, <3>1, <3>2
    <3>3. CASE p # o
      BY <1>2, <2>1, <3>3
    <3> QED
      BY <3>2, <3>3
  <2> QED
    BY <2>2 DEF Recorded
<1>4. Recorded(o, e.new)'
  <2>1. Len(history[o]) + 1 \in DOMAIN Append(history[o], e)
        /\ Append(history[o], e)[Len(history[o]) + 1] = e
    BY <1>2
  <2> QED
    BY <1>2, <2>1 DEF Recorded
<1>5. /\ \A q \in Requests \ {r} : slot'[q] = slot[q]
      /\ \/ slot'[r] = Idle
         \/ slot'[r].op = slot[r].op /\ slot'[r].target = e.new /\ slot'[r].order = o
  <2>1. slot' = [slot EXCEPT ![r] = IF EventOf(slot[r].op, slot[r].target) = "none"
                                    THEN Idle ELSE [slot[r] EXCEPT !.pc = "recorded"]]
    BY RecordSlot
  <2>2. [slot[r] EXCEPT !.pc = "recorded"].op = slot[r].op
        /\ [slot[r] EXCEPT !.pc = "recorded"].target = slot[r].target
        /\ [slot[r] EXCEPT !.pc = "recorded"].order = slot[r].order
    <3>1. PICK c, op, p, seen, target :
            slot[r] = [pc |-> c, op |-> op, order |-> p, seen |-> seen, target |-> target]
      BY DecidedSlot DEF Record, At, OrderInv
    <3> QED
      BY <3>1
  <2>3. e.new = slot[r].target /\ o = slot[r].order
    BY <1>1
  <2> QED
    BY <2>1, <2>2, <2>3 DEF OrderInv, TypeOK
<1>6. EventsAreOnRecord'
  <2> SUFFICES ASSUME NEW event \in OrderEvents, NEW p \in Orders,
                      \/ <<event, p>> \in notified
                      \/ \E i \in DOMAIN invQ : invQ[i] = [type |-> event, order |-> p]
               PROVE  Recorded(p, Lifecycle!StatusOf(event))'
    BY <1>1 DEF EventsAreOnRecord, Recorded, Lifecycle!StatusOf
  <2>1. Recorded(p, Lifecycle!StatusOf(event))
    BY DEF TrailInv, EventsAreOnRecord, Recorded
  <2> QED
    BY <1>3, <2>1 DEF Lifecycle!StatusOf
<1>7. ASSUME NEW q \in Requests, slot'[q].pc = "recorded"
      PROVE  Recorded(slot[q].order, slot[q].target)'
  <2>1. CASE q = r
    BY <1>4, <1>5, <1>7, <2>1 DEF Idle, Recorded
  <2>2. CASE q # r
    <3>1. slot'[q] = slot[q] /\ Recorded(slot[q].order, slot[q].target) /\ slot[q].order \in Orders
      BY <1>5, <1>7, <2>2, DecidedSlot DEF TrailInv, At, OrderInv
    <3>2. PICK p, t : p = slot[q].order /\ t = slot[q].target
      OBVIOUS
    <3>3. Recorded(p, t)'
      BY <1>3, <3>1, <3>2
    <3> QED
      BY <3>1, <3>2, <3>3
  <2> QED
    BY <2>1, <2>2
<1>8. \A q \in Requests : slot'[q].op = "cancel" => slot'[q].target = "CANCELLED"
  BY <1>1, <1>5 DEF TrailInv, Idle
<1> QED
  BY <1>6, <1>7, <1>8 DEF TrailInv, At

LEMMA PublishTrail ==
  ASSUME OrderInv, TrailInv, NEW r \in Requests, Publish(r) \/ PublishFails(r) \/ PublishTwice(r)
  PROVE  TrailInv'
<1> DEFINE m == MessageOf(r)
<1>1. /\ slot[r].pc = "recorded" /\ UNCHANGED history
      /\ slot' = [slot EXCEPT ![r] = Idle]
      /\ notified' \subseteq notified \cup {<<m.type, slot[r].order>>}
  BY DEF Publish, PublishFails, PublishTwice, Finish, At
<1>2. /\ slot[r].order \in Orders
      /\ m = [type |-> EventOf(slot[r].op, slot[r].target), order |-> slot[r].order]
      /\ EventOf(slot[r].op, slot[r].target) # "none"
  <2>1. slot[r] \in Slot
    BY DEF OrderInv, TypeOK
  <2> QED
    BY <1>1, <2>1 DEF Slot, Idle, MessageOf
<1>3. \A i \in DOMAIN invQ' : invQ'[i] = m \/ (i \in DOMAIN invQ /\ invQ'[i] = invQ[i])
  <2>1. invQ \in Seq(Message(OrderEvents))
    BY DEF OrderInv, TypeOK
  <2> HIDE DEF m
  <2>2. CASE invQ' = invQ
    BY <2>1, <2>2
  <2>3. CASE invQ' = Append(invQ, m)
    BY <2>1, <2>3
  <2>4. CASE invQ' = invQ \o <<m, m>>
    BY <2>1, <2>4
  <2> QED
    BY <2>2, <2>3, <2>4 DEF m, Publish, PublishFails, PublishTwice
<1>4. Recorded(slot[r].order, Lifecycle!StatusOf(m.type))
  BY <1>1, <1>2, EventsTellTargets DEF TrailInv, At
<1> HIDE DEF m
<1>5. EventsAreOnRecord'
  <2> SUFFICES ASSUME NEW event \in OrderEvents, NEW p \in Orders,
                      \/ <<event, p>> \in notified'
                      \/ \E i \in DOMAIN invQ' : invQ'[i] = [type |-> event, order |-> p]
               PROVE  Recorded(p, Lifecycle!StatusOf(event))
    BY <1>1 DEF EventsAreOnRecord, Recorded, Lifecycle!StatusOf
  <2>1. CASE event = m.type /\ p = slot[r].order
    BY <1>4, <2>1
  <2>2. CASE ~(event = m.type /\ p = slot[r].order)
    <3>1. \/ <<event, p>> \in notified
          \/ \E i \in DOMAIN invQ : invQ[i] = [type |-> event, order |-> p]
      <4>1. <<event, p>> # <<m.type, slot[r].order>> /\ [type |-> event, order |-> p] # m
        BY <1>2, <2>2
      <4> QED
        BY <1>1, <1>3, <4>1
    <3> QED
      BY <3>1 DEF TrailInv, EventsAreOnRecord, Recorded
  <2> QED
    BY <2>1, <2>2
<1>6. \A q \in Requests : slot'[q] = Idle \/ slot'[q] = slot[q]
  BY <1>1 DEF OrderInv, TypeOK
<1> QED
  BY <1>1, <1>5, <1>6 DEF TrailInv, At, Idle, Recorded

LEMMA TrailNext ==
  ASSUME OrderInv, TrailInv, [Next]_vars
  PROVE  TrailInv'
<1>1. CASE UNCHANGED vars \/ ConsumerStep \/ OrderCrash \/ ReplyExpires
  <2>1. UNCHANGED <<history, invQ, notified>> /\ (slot' = slot \/ slot' = [q \in Requests |-> Idle])
    BY <1>1 DEF vars, ConsumerStep, HandleReserved, CancelRead, CancelReject, CancelSave,
       CancelUnrecorded, OrderCrash, ReplyExpires
  <2> QED
    BY <2>1, TrailKept DEF Idle
<1>2. CASE InventoryAnswers
  <2>1. \A i \in DOMAIN invQ' : i + 1 \in DOMAIN invQ /\ invQ'[i] = invQ[i + 1]
    BY <1>2 DEF InventoryAnswers, OrderInv, TypeOK
  <2>2. UNCHANGED <<history, slot, notified>>
    BY <1>2 DEF InventoryAnswers
  <2> QED
    BY <2>1, <2>2 DEF TrailInv, EventsAreOnRecord, Recorded, At
<1> QED
  BY <1>1, <1>2, RequestTrail, RecordTrail, PublishTrail DEF Next, OrderStep, RequestProgress, OrderFault

\* No interleaving and no restart announces a step the audit trail does not
\* hold (order.service.ts:178-197 and 222-234).
THEOREM AnnouncedIsRecorded == Spec => []EventsAreOnRecord
<1>1. Init => OrderInv /\ TrailInv
  BY OrderInit, TrailInit
<1>2. OrderInv /\ TrailInv /\ [Next]_vars => OrderInv' /\ TrailInv'
  BY OrderNextInv, TrailNext
<1>3. TrailInv => EventsAreOnRecord
  BY DEF TrailInv
<1> QED
  BY <1>1, <1>2, <1>3, PTL DEF Spec
-------------------------------------------------------------------------------
(* Off the transition table.  A new order's row is written by nobody but the *)
(* request that creates it, and everyone else decides on what was read.      *)

NewOrdersAreNew ==
  \A r \in Requests : At(r, "validated") =>
    /\ status[slot[r].order] = "NONE"
    /\ \A q \in Requests \ {r} : slot[q].order # slot[r].order

ConsumerDecides ==
  consumer.pc = "read" => IsValidStatusTransition(consumer.seen, "CANCELLED")

\* Orders that are worked on have a row.
WorkedOnExist ==
  /\ \A r \in Requests : slot[r].pc \in {"paying", "read", "saved", "recorded"}
       => status[slot[r].order] # "NONE"
  /\ consumer # ConsumerIdle => status[consumer.order] # "NONE"

RulesInv == NewOrdersAreNew /\ ConsumerDecides /\ WorkedOnExist

LEMMA RulesInit == Init => RulesInv
BY DEF Init, RulesInv, NewOrdersAreNew, ConsumerDecides, WorkedOnExist, At, Idle, ConsumerIdle

\* What a step may do to the status of an order.
RuledStep ==
  \A o \in Orders :
    \/ status'[o] = status[o]
    \/ status[o] = "NONE" /\ status'[o] = "PENDING"
    \/ IsValidStatusTransition(status[o], status'[o])
    \/ \E r \in Requests : At(r, "read") /\ slot[r].order = o /\ slot[r].seen # status[o]
    \/ consumer.pc = "read" /\ consumer.order = o /\ consumer.seen # status[o]

\* A slot that takes up an order, or goes on with its own.
LEMMA SlotRules ==
  ASSUME OrderInv, RulesInv, NEW r \in Requests, UNCHANGED <<status, consumer>>,
         \A q \in Requests \ {r} : slot'[q] = slot[q],
         \/ slot'[r] = Idle
         \/ /\ slot'[r].pc \in {"read", "recorded"}
            /\ slot'[r].order \in Orders /\ status[slot'[r].order] # "NONE"
         \/ /\ slot'[r].pc = "validated" /\ status[slot'[r].order] = "NONE"
            /\ \A q \in Requests \ {r} : slot[q].order # slot'[r].order
  PROVE  RulesInv' /\ RuledStep
<1>1. NewOrdersAreNew'
  <2> SUFFICES ASSUME NEW q \in Requests, slot'[q].pc = "validated"
               PROVE  /\ status[slot'[q].order] = "NONE"
                      /\ \A p \in Requests \ {q} : slot'[p].order # slot'[q].order
    BY DEF NewOrdersAreNew, At
  <2>1. CASE q = r
    BY <2>1 DEF Idle
  <2>2. CASE q # r
    <3>1. /\ slot'[q] = slot[q] /\ status[slot[q].order] = "NONE"
          /\ \A p \in Requests \ {q} : slot[p].order # slot[q].order
      BY <2>2 DEF RulesInv, NewOrdersAreNew, At
    <3>2. slot[q].order # NoOrder
      BY <2>2, NoOrderAssumption DEF OrderInv, TypeOK, Slot, Idle
    <3> QED
      BY <2>2, <3>1, <3>2 DEF Idle
  <2> QED
    BY <2>1, <2>2
<1>2. WorkedOnExist'
  <2>1. ASSUME NEW q \in Requests, slot'[q].pc \in {"paying", "read", "saved", "recorded"}
        PROVE  status[slot'[q].order] # "NONE"
    BY <2>1 DEF RulesInv, WorkedOnExist, Idle
  <2> QED
    BY <2>1 DEF RulesInv, WorkedOnExist
<1> QED
  BY <1>1, <1>2 DEF RulesInv, ConsumerDecides, RuledStep

LEMMA CallRules ==
  ASSUME OrderInv, RulesInv, NEW r \in Requests, CallArrives(r) \/ \E o \in Orders : Validate(r, o)
  PROVE  RulesInv' /\ RuledStep
<1>1. UNCHANGED <<status, consumer>> /\ \A q \in Requests \ {r} : slot'[q] = slot[q]
  BY DEF CallArrives, Cancel, Patch, Validate, OrderInv, TypeOK
<1>2. CASE CallArrives(r)
  <2>1. PICK op \in Operations, o \in Orders, target \in Statuses :
          IsValidStatusTransition(status[o], target) /\ slot' = [slot EXCEPT ![r] = Reading(op, o, target)]
    BY <1>2, TargetsAssumption DEF CallArrives, Cancel, Patch, IsCancellableStatus, IsValidStatusTransition,
       Operations, Statuses
  <2>2. slot'[r].pc = "read" /\ slot'[r].order = o /\ status[o] # "NONE"
    BY <2>1, DecidedStatuses DEF Reading, OrderInv, TypeOK
  <2> QED
    BY <1>1, <2>2, SlotRules
<1>3. CASE \E o \in Orders : Validate(r, o)
  <2>1. PICK o \in Orders : Validate(r, o)
    BY <1>3
  <2>2. /\ slot'[r].pc = "validated" /\ slot'[r].order = o /\ status[o] = "NONE"
        /\ \A q \in Requests \ {r} : slot[q].order # o
    BY <2>1 DEF Validate, OrderInv, TypeOK
  <2> QED
    BY <1>1, <2>2, SlotRules
<1> QED
  BY <1>2, <1>3

\* The one who writes the row of a new order is the request that created it.
LEMMA SavePendingRules ==
  ASSUME OrderInv, RulesInv, NEW r \in Requests, SavePending(r)
  PROVE  RulesInv' /\ RuledStep
<1>1. PICK o \in Orders :
        /\ o = slot[r].order /\ status[o] = "NONE" /\ At(r, "validated")
        /\ \A q \in Requests \ {r} : slot[q].order # o
  BY CreatingSlot DEF SavePending, At, RulesInv, NewOrdersAreNew, OrderInv
<1>2. /\ status'[o] = "PENDING" /\ \A p \in Orders \ {o} : status'[p] = status[p]
      /\ \A q \in Requests \ {r} : slot'[q] = slot[q]
      /\ UNCHANGED consumer
  BY <1>1 DEF SavePending, Goto, OrderInv, TypeOK
<1>3. slot'[r].pc = "paying" /\ slot'[r].order = o
  <2>1. slot[r] \in [pc : {"validated", "paying"}, op : {"create"}, order : Orders,
                     seen : {"NONE"}, target : {"NONE"}]
    BY <1>1, CreatingSlot DEF At, OrderInv
  <2> QED
    BY <1>1, <2>1 DEF SavePending, Goto, OrderInv, TypeOK
<1>4. NewOrdersAreNew'
  <2> SUFFICES ASSUME NEW q \in Requests, slot'[q].pc = "validated"
               PROVE  /\ status'[slot'[q].order] = "NONE"
                      /\ \A p \in Requests \ {q} : slot'[p].order # slot'[q].order
    BY DEF NewOrdersAreNew, At
  <2>1. q # r /\ slot'[q] = slot[q] /\ slot[q].order \in Orders /\ slot[q].order # o
    BY <1>1, <1>2, <1>3 DEF OrderInv, TypeOK, Slot, Idle
  <2> QED
    BY <1>1, <1>2, <1>3, <2>1 DEF RulesInv, NewOrdersAreNew, At
<1>5. WorkedOnExist'
  <2>1. ASSUME NEW q \in Requests, slot'[q].pc \in {"paying", "read", "saved", "recorded"}
        PROVE  status'[slot'[q].order] # "NONE"
    <3>1. CASE q = r
      BY <1>2, <1>3, <3>1
    <3>2. CASE q # r
      <4>1. slot'[q] = slot[q] /\ slot[q].order \in Orders
        BY <1>2, <2>1, <3>2 DEF OrderInv, TypeOK, Slot, Idle
      <4> QED
        BY <1>1, <1>2, <2>1, <3>2, <4>1 DEF RulesInv, WorkedOnExist
    <3> QED
      BY <3>1, <3>2
  <2>2. consumer # ConsumerIdle => consumer.order \in Orders
    BY DEF OrderInv, TypeOK, Consumer
  <2> QED
    BY <1>1, <1>2, <2>1, <2>2 DEF RulesInv, WorkedOnExist
<1> QED
  BY <1>1, <1>2, <1>4, <1>5 DEF RulesInv, ConsumerDecides, RuledStep

LEMMA ProgressRules ==
  ASSUME OrderInv, RulesInv, NEW r \in Requests,
         Pay(r) \/ Record(r) \/ Publish(r) \/ PublishFails(r) \/ PublishTwice(r)
  PROVE  RulesInv' /\ RuledStep
<1>1. UNCHANGED <<status, consumer>> /\ \A q \in Requests \ {r} : slot'[q] = slot[q]
  BY RecordSlot DEF Pay, Record, Publish, PublishFails, PublishTwice, Finish, OrderInv, TypeOK
<1>2. CASE Pay(r)
  <2>1. slot[r].order \in Orders /\ status[slot[r].order] # "NONE"
    BY <1>2 DEF Pay, At, OrderInv, TypeOK, Slot, Idle, RulesInv, WorkedOnExist
  <2>2. slot'[r] = Idle \/ (slot'[r].pc = "read" /\ slot'[r].order = slot[r].order)
    BY <1>2 DEF Pay, Reading, OrderInv, TypeOK
  <2> QED
    BY <1>1, <2>1, <2>2, SlotRules
<1>3. CASE Record(r)
  <2>1. slot[r].order \in Orders /\ status[slot[r].order] # "NONE"
    BY <1>3, DecidedSlot DEF Record, At, OrderInv, RulesInv, WorkedOnExist
  <2>2. slot'[r] = Idle \/ (slot'[r].pc = "recorded" /\ slot'[r].order = slot[r].order)
    BY <1>3, RecordSlot, MovedSlot DEF OrderInv, TypeOK
  <2> QED
    BY <1>1, <2>1, <2>2, SlotRules
<1>4. CASE Publish(r) \/ PublishFails(r) \/ PublishTwice(r)
  <2>1. slot'[r] = Idle
    BY <1>4 DEF Publish, PublishFails, PublishTwice, Finish, OrderInv, TypeOK
  <2> QED
    BY <1>1, <2>1, SlotRules
<1> QED
  BY <1>2, <1>3, <1>4

LEMMA SaveRules ==
  ASSUME OrderInv, RulesInv, NEW r \in Requests, Save(r)
  PROVE  RulesInv' /\ RuledStep
<1>1. PICK o \in Orders, t \in Statuses :
        /\ o = slot[r].order /\ t = slot[r].target /\ At(r, "read")
        /\ IsValidStatusTransition(slot[r].seen, t)
        /\ status[o] # "NONE"
  BY DecidedSlot DEF Save, At, OrderInv, DecisionsFollowRules, RulesInv, WorkedOnExist
<1>2. /\ status'[o] = t /\ t # "NONE" /\ \A p \in Orders \ {o} : status'[p] = status[p]
      /\ \A q \in Requests \ {r} : slot'[q] = slot[q]
      /\ UNCHANGED consumer
  BY <1>1 DEF Save, Goto, OrderInv, TypeOK, Statuses
<1>3. slot'[r].pc = "saved" /\ slot'[r].order = o
  BY <1>1, MovedSlot DEF Save, Goto, At, OrderInv, TypeOK
<1>4. NewOrdersAreNew'
  <2> SUFFICES ASSUME NEW q \in Requests, slot'[q].pc = "validated"
               PROVE  /\ status'[slot'[q].order] = "NONE"
                      /\ \A p \in Requests \ {q} : slot'[p].order # slot'[q].order
    BY DEF NewOrdersAreNew, At
  <2>1. /\ q # r /\ slot'[q] = slot[q] /\ slot[q].order \in Orders /\ At(q, "validated")
        /\ status[slot[q].order] = "NONE"
    BY <1>2, <1>3 DEF OrderInv, TypeOK, Slot, Idle, At, RulesInv, NewOrdersAreNew
  <2> QED
    BY <1>1, <1>2, <1>3, <2>1 DEF RulesInv, NewOrdersAreNew
<1>5. WorkedOnExist'
  <2>1. ASSUME NEW q \in Requests, slot'[q].pc \in {"paying", "read", "saved", "recorded"}
        PROVE  status'[slot'[q].order] # "NONE"
    <3>1. CASE q = r
      BY <1>2, <1>3, <3>1
    <3>2. CASE q # r
      <4>1. slot'[q] = slot[q] /\ slot[q].order \in Orders
        BY <1>2, <2>1, <3>2 DEF OrderInv, TypeOK, Slot, Idle
      <4> QED
        BY <1>1, <1>2, <2>1, <3>2, <4>1 DEF RulesInv, WorkedOnExist
    <3> QED
      BY <3>1, <3>2
  <2>2. consumer # ConsumerIdle => consumer.order \in Orders
    BY DEF OrderInv, TypeOK, Consumer
  <2> QED
    BY <1>1, <1>2, <2>1, <2>2 DEF RulesInv, WorkedOnExist
<1>6. RuledStep
  BY <1>1, <1>2 DEF RuledStep
<1> QED
  BY <1>2, <1>4, <1>5, <1>6 DEF RulesInv, ConsumerDecides

LEMMA ConsumerRules ==
  ASSUME OrderInv, RulesInv, ConsumerStep \/ OrderCrash \/ ReplyExpires
  PROVE  RulesInv' /\ RuledStep
<1>1. CASE OrderCrash
  BY <1>1 DEF OrderCrash, RulesInv, NewOrdersAreNew, ConsumerDecides, WorkedOnExist, RuledStep, At, Idle,
     ConsumerIdle
<1>2. CASE CancelSave
  <2>1. PICK o \in Orders :
          /\ o = consumer.order /\ consumer.pc = "read" /\ status[o] # "NONE"
          /\ IsValidStatusTransition(consumer.seen, "CANCELLED")
    BY <1>2 DEF CancelSave, OrderInv, TypeOK, Consumer, ConsumerIdle, RulesInv, ConsumerDecides, WorkedOnExist
  <2>2. /\ status'[o] = "CANCELLED" /\ \A p \in Orders \ {o} : status'[p] = status[p]
        /\ slot' = slot /\ consumer'.pc = "saved" /\ consumer'.order = o
    <3>1. consumer \in [pc : {"read", "saved"}, order : Orders, seen : Statuses]
      BY <2>1 DEF OrderInv, TypeOK, Consumer, ConsumerIdle
    <3> QED
      BY <1>2, <2>1, <3>1 DEF CancelSave, OrderInv, TypeOK
  <2>3. NewOrdersAreNew'
    <3> SUFFICES ASSUME NEW q \in Requests, At(q, "validated")
                 PROVE  status'[slot[q].order] = "NONE"
      BY <2>2 DEF NewOrdersAreNew, At, RulesInv
    <3>1. slot[q].order \in Orders
      BY DEF At, OrderInv, TypeOK, Slot, Idle
    <3> QED
      BY <2>1, <2>2, <3>1 DEF RulesInv, NewOrdersAreNew
  <2>4. \A q \in Requests : slot[q].pc \in {"paying", "read", "saved", "recorded"} => slot[q].order \in Orders
    BY DEF OrderInv, TypeOK, Slot, Idle
  <2> QED
    BY <2>1, <2>2, <2>3, <2>4 DEF RulesInv, WorkedOnExist, ConsumerDecides, RuledStep
<1>3. ASSUME NEW o \in Orders, CancelRead(o) PROVE RulesInv' /\ RuledStep
  <2>1. /\ consumer'.order = o /\ consumer'.seen = status[o] /\ status[o] # "NONE"
        /\ IsValidStatusTransition(consumer'.seen, "CANCELLED")
        /\ UNCHANGED <<status, slot>>
    BY <1>3, DecidedStatuses DEF CancelRead, IsCancellableStatus, IsValidStatusTransition
  <2> QED
    BY <2>1 DEF RulesInv, NewOrdersAreNew, ConsumerDecides, WorkedOnExist, RuledStep, At
<1>4. CASE \/ HandleReserved \/ ReplyExpires \/ CancelUnrecorded
          \/ \E o \in Orders : CancelReject(o)
  <2>1. UNCHANGED <<status, slot>> /\ (consumer' = consumer \/ consumer' = ConsumerIdle)
    BY <1>4 DEF HandleReserved, ReplyExpires, CancelUnrecorded, CancelReject
  <2> QED
    BY <2>1 DEF RulesInv, NewOrdersAreNew, ConsumerDecides, WorkedOnExist, RuledStep, At, ConsumerIdle
<1> QED
  BY <1>1, <1>2, <1>3, <1>4 DEF ConsumerStep

LEMMA RulesNext ==
  ASSUME OrderInv, RulesInv, [Next]_vars
  PROVE  RulesInv' /\ RuledStep
<1>1. CASE UNCHANGED vars \/ InventoryAnswers
  <2>1. UNCHANGED <<status, slot, consumer>>
    BY <1>1 DEF vars, InventoryAnswers
  <2> QED
    BY <2>1 DEF RulesInv, NewOrdersAreNew, ConsumerDecides, WorkedOnExist, RuledStep, At
<1> QED
  BY <1>1, CallRules, SavePendingRules, ProgressRules, SaveRules, ConsumerRules
     DEF Next, OrderStep, RequestProgress, OrderFault

\* However many requests race and whatever fails, a status leaves the table
\* only where one of them saves over a status it has not read
\* (order.service.ts:156-175 and 203-219).
THEOREM RulesBreakByOverwriting == Spec => OnlyOverwritesBreakRules
<1>1. Init => OrderInv /\ RulesInv
  BY OrderInit, RulesInit
<1>2. OrderInv /\ RulesInv /\ [Next]_vars => OrderInv' /\ RulesInv' /\ [RuledStep]_vars
  BY OrderNextInv, RulesNext
<1>3. OnlyOverwritesBreakRules <=> [][RuledStep]_vars
  BY DEF OnlyOverwritesBreakRules, RuledStep
<1> HIDE DEF RuledStep
<1> QED
  BY <1>1, <1>2, <1>3, PTL DEF Spec
===============================================================================
