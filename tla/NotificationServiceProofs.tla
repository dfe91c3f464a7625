----------------------- MODULE NotificationServiceProofs -----------------------
(***************************************************************************)
(* Types of the Notification Service, and that an entry marked as sent and *)
(* a settled message mean what they say: for any number of messages,       *)
(* requests, restarts and failing statements.                              *)
(***************************************************************************)
EXTENDS NotificationService, SequenceTheorems, TLAPS

\* What is true of the entity a worker holds between two awaits: it is one of a
\* notification whose mail went out if it says so, and it is in the database
\* once the first save is through.
WorkIsTrue(w) ==
  work[w].pc # "idle" =>
    /\ work[w].entity.exists
    /\ work[w].entity.sent => work[w].id \in delivered \cup (IF w = Consumer THEN {} ELSE marked)
    /\ work[w].loaded.exists => log[work[w].id].exists
    /\ work[w].pc \in {"send", "done"} => log[work[w].id].exists /\ work[w].next = work[w].pc
    /\ work[w].pc = "failed" => log[work[w].id].exists \/ failures > 0
    /\ work[w].next = "done" => work[w].entity.sent

NotificationInv ==
  /\ TypeOK
  /\ \A w \in Workers : WorkIsTrue(w)
  /\ SentMeansDelivered
  /\ SettledIsOnRecord

\* A worker that is not idle has all the fields of a notification in progress.
LEMMA BusyWork ==
  ASSUME TypeOK, NEW w \in Workers, work[w].pc # "idle"
  PROVE  /\ work[w].id \in Notifications
         /\ work[w].entity \in Entry
         /\ work[w].loaded \in Entry
         /\ work[w].next \in {"send", "done", "failed", "marked"}
         /\ work[w].pc \in {"save", "write", "send", "done", "failed", "marked"}
         /\ work[w] \in Work /\ work[w] # Idle
<1>1. work[w] \in Work
  BY DEF TypeOK
<1>2. Idle.pc = "idle"
  BY DEF Idle
<1>. QED
  BY <1>1, <1>2 DEF Work

\* What starts a save is work.
LEMMA SavingIsWork ==
  ASSUME NEW n \in Notifications, NEW e \in Entry, NEW next \in {"send", "done", "failed", "marked"}
  PROVE  Saving(n, e, next) \in Work
<1>1. NoEntry \in Entry
  BY DEF NoEntry, Entry
<1>. QED
  BY <1>1 DEF Saving, Work

\* So is what a save does to the work of a worker.
LEMMA SavedIsWork ==
  ASSUME NEW r \in Work, r # Idle, NEW pc \in {"write", "send", "done", "failed", "marked"}, NEW entry \in Entry
  PROVE  [r EXCEPT !.pc = pc, !.loaded = entry] \in Work
BY DEF Work

\* The outcomes of a mail are entries.
LEMMA OutcomeIsEntry ==
  ASSUME NEW e \in Entry
  PROVE  /\ [e EXCEPT !.sent = TRUE] \in Entry
         /\ Counted(e) \in Entry
<1>1. e.retryCount + 1 \in Nat
  BY DEF Entry
<1>2. ASSUME NEW k \in Nat PROVE [e EXCEPT !.retryCount = k] \in Entry
  BY DEF Entry
<1>3. [e EXCEPT !.sent = TRUE] \in Entry
  BY DEF Entry
<1>. QED
  BY <1>1, <1>2, <1>3 DEF Counted

\* An UPDATE of the differing columns makes an entry of an entry.
LEMMA MergedEntry ==
  ASSUME NEW row \in Entry, NEW loaded \in Entry, NEW entity \in Entry
  PROVE  /\ Merged(row, loaded, entity) \in Entry
         /\ \A f \in {"exists", "sent", "retryCount"} :
              Merged(row, loaded, entity)[f] = IF entity[f] # loaded[f] THEN entity[f] ELSE row[f]
<1>1. DOMAIN row = {"exists", "sent", "retryCount"}
  BY DEF Entry
<1>2. PICK m : m = Merged(row, loaded, entity)
  OBVIOUS
<1>3. m = [f \in {"exists", "sent", "retryCount"} |-> IF entity[f] # loaded[f] THEN entity[f] ELSE row[f]]
  BY <1>1, <1>2 DEF Merged
<1>4. \A f \in {"exists", "sent", "retryCount"} :
        m[f] = IF entity[f] # loaded[f] THEN entity[f] ELSE row[f]
  BY <1>3
<1>5. m.exists \in BOOLEAN /\ m.sent \in BOOLEAN /\ m.retryCount \in Nat
  BY <1>4 DEF Entry
<1>6. m = [exists |-> m.exists, sent |-> m.sent, retryCount |-> m.retryCount]
  BY <1>3
<1>. QED
  BY <1>2, <1>4, <1>5, <1>6 DEF Entry

-------------------------------------------------------------------------------
(* Types *)

LEMMA TypeInit == ASSUME Init PROVE TypeOK
<1>1. NoEntry \in Entry /\ Idle \in Work
  BY DEF NoEntry, Entry, Work
<1>. QED
  BY <1>1, ConsumerAssumption DEF Init, TypeOK, Workers

\* Replacing the work of one worker keeps the type, and the consumer's queue is
\* not empty as long as it stays what it is.
LEMMA WorkStaysTyped ==
  ASSUME TypeOK, NEW w \in Workers, NEW new \in Work
  PROVE  [work EXCEPT ![w] = new] \in [Workers -> Work]
BY DEF TypeOK

LEMMA TypeStep == ASSUME TypeOK, Next PROVE TypeOK'
<1>0. /\ Consumer \in Workers /\ Calls \subseteq Workers
      /\ Consumer \notin Calls
      /\ NoEntry \in Entry /\ FreshEntry \in Entry /\ Idle \in Work
      /\ work \in [Workers -> Work] /\ log \in [Notifications -> Entry]
  BY ConsumerAssumption DEF Workers, NoEntry, FreshEntry, Entry, Work, TypeOK
<1>1. ASSUME NEW pattern \in Patterns, Arrive(pattern) PROVE TypeOK'
  <2>1. queue' \in Seq(Patterns) /\ queue' # <<>>
    BY <1>1 DEF Arrive, TypeOK
  <2>. QED
    BY <1>1, <2>1 DEF Arrive, TypeOK
<1>2. ASSUME NEW n \in Notifications, Handle(n) PROVE TypeOK'
  <2>1. work' \in [Workers -> Work]
    BY <1>0, <1>2, SavingIsWork, WorkStaysTyped DEF Handle, SendNotification
  <2>. QED
    BY <1>2, <2>1 DEF Handle, TypeOK
<1>3. CASE RejectUnknown
  <2>1. queue' \in Seq(Patterns)
    BY <1>3 DEF RejectUnknown, TypeOK
  <2>. QED
    BY <1>3, <2>1 DEF RejectUnknown, TypeOK
<1>4. ASSUME NEW c \in Calls, NEW n \in Notifications, Post(c, n) \/ Retry(c, n)
      PROVE  TypeOK'
  <2>1. work' \in [Workers -> Work]
    BY <1>0, <1>4, SavingIsWork, WorkStaysTyped DEF Post, Retry, SendNotification
  <2>2. work'[Consumer] = work[Consumer]
    BY <1>0, <1>4 DEF Post, Retry, SendNotification
  <2>. QED
    BY <1>4, <2>1, <2>2 DEF Post, Retry, TypeOK
<1>5. ASSUME NEW c \in Calls, NEW n \in Notifications, MarkAsProcessed(c, n) PROVE TypeOK'
  <2>1. [log[n] EXCEPT !.sent = TRUE] \in Entry
    BY <1>0 DEF Entry
  <2>2. work' \in [Workers -> Work]
    BY <1>0, <1>5, <2>1, SavingIsWork, WorkStaysTyped DEF MarkAsProcessed
  <2>3. work'[Consumer] = work[Consumer]
    BY <1>0, <1>5 DEF MarkAsProcessed
  <2>. QED
    BY <1>5, <2>2, <2>3 DEF MarkAsProcessed, TypeOK
<1>6. ASSUME NEW w \in Workers, SaveLoad(w) PROVE TypeOK'
  <2>1. log[work[w].id] \in Entry
    BY <1>0, <1>6, BusyWork DEF SaveLoad
  <2>2. [work[w] EXCEPT !.pc = "write", !.loaded = log[work[w].id]] \in Work
    BY <1>6, <2>1, BusyWork, SavedIsWork DEF SaveLoad
  <2>3. work' \in [Workers -> Work]
    BY <1>0, <1>6, <2>2, WorkStaysTyped DEF SaveLoad
  <2>4. work'[Consumer] # Idle => work[Consumer] # Idle
    BY <1>0, <1>6 DEF SaveLoad, Idle
  <2>. QED
    BY <1>6, <2>3, <2>4 DEF SaveLoad, TypeOK
<1>7. ASSUME NEW w \in Workers, SaveWrite(w) PROVE TypeOK'
  <2>1. /\ work[w].id \in Notifications /\ work[w].entity \in Entry
        /\ work[w].loaded \in Entry
    BY <1>7, BusyWork DEF SaveWrite
  <2>2. log' \in [Notifications -> Entry]
    BY <1>0, <1>7, <2>1, MergedEntry DEF SaveWrite
  <2>3. [work[w] EXCEPT !.pc = work[w].next, !.loaded = NoEntry] \in Work
    BY <1>0, <1>7, BusyWork, SavedIsWork DEF SaveWrite
  <2>4. work' \in [Workers -> Work]
    BY <1>0, <1>7, <2>3, WorkStaysTyped DEF SaveWrite
  <2>5. work'[Consumer] # Idle => work[Consumer] # Idle
    BY <1>0, <1>7 DEF SaveWrite, Idle
  <2>. QED
    BY <1>7, <2>2, <2>4, <2>5 DEF SaveWrite, TypeOK
<1>8. ASSUME NEW w \in Workers, Send(w) PROVE TypeOK'
  <2>1. work[w].id \in Notifications /\ work[w].entity \in Entry
    BY <1>8, BusyWork DEF Send
  <2>2. /\ [work[w].entity EXCEPT !.sent = TRUE] \in Entry
        /\ Counted(work[w].entity) \in Entry
    BY <2>1, OutcomeIsEntry
  <2>3. PICK entity \in Entry, next \in {"done", "failed"} :
          work' = [work EXCEPT ![w] = Saving(work[w].id, entity, next)]
    BY <1>8, <2>2 DEF Send
  <2>4. work' \in [Workers -> Work]
    BY <2>1, <2>3, SavingIsWork, WorkStaysTyped
  <2>5. work'[Consumer] # Idle => work[Consumer] # Idle
    BY <1>0, <1>8, <2>3 DEF Send, Idle
  <2>6. delivered' \subseteq Notifications
    BY <1>8, <2>1 DEF Send, TypeOK
  <2>. QED
    BY <1>8, <2>4, <2>5, <2>6 DEF Send, TypeOK
<1>9. CASE Settle
  <2>1. work[Consumer].id \in Notifications /\ queue # <<>>
    BY <1>0, <1>9, BusyWork DEF Settle, TypeOK
  <2>2. work' \in [Workers -> Work] /\ work'[Consumer] = Idle
    BY <1>0, <1>9, WorkStaysTyped DEF Settle
  <2>3. queue' \in Seq(Patterns)
    BY <1>9, <2>1 DEF Settle, TypeOK
  <2>4. settled' \in [Notifications -> {"none", "acked", "rejected"}]
    BY <1>9, <2>1 DEF Settle, TypeOK
  <2>. QED
    BY <1>9, <2>2, <2>3, <2>4 DEF Settle, TypeOK
<1>10. ASSUME NEW c \in Calls, Return(c) PROVE TypeOK'
  <2>1. work' \in [Workers -> Work]
    BY <1>0, <1>10, WorkStaysTyped DEF Return
  <2>2. work'[Consumer] = work[Consumer]
    BY <1>0, <1>10 DEF Return
  <2>. QED
    BY <1>10, <2>1, <2>2 DEF Return, TypeOK
<1>11. CASE MessageExpires
  <2>1. CASE work[Consumer] = Idle
    <3>1. queue' = Tail(queue) /\ queue # <<>> /\ queue \in Seq(Patterns)
      BY <1>11, <2>1 DEF MessageExpires, TypeOK
    <3>2. queue' \in Seq(Patterns)
      BY <3>1
    <3>. QED
      BY <1>11, <2>1, <3>2 DEF MessageExpires, TypeOK
  <2>2. CASE work[Consumer] # Idle
    <3>1. /\ queue' = <<Head(queue)>> \o Tail(Tail(queue))
          /\ Len(queue) > 1 /\ queue \in Seq(Patterns)
      BY <1>11, <2>2 DEF MessageExpires, TypeOK
    <3>2. Head(queue) \in Patterns /\ Tail(queue) \in Seq(Patterns) /\ Tail(queue) # <<>>
      <4>1. queue # <<>>
        BY <3>1
      <4>2. Head(queue) \in Patterns /\ Tail(queue) \in Seq(Patterns)
        BY <3>1, <4>1
      <4>3. Len(Tail(queue)) = Len(queue) - 1
        BY <3>1, <4>1
      <4>4. Len(Tail(queue)) # 0
        BY <3>1, <4>3
      <4>. QED
        BY <4>2, <4>4, EmptySeq
    <3>3. <<Head(queue)>> \in Seq(Patterns) /\ Tail(Tail(queue)) \in Seq(Patterns)
      BY <3>2
    <3>4. queue' \in Seq(Patterns) /\ queue' # <<>>
      BY <3>1, <3>3
    <3>. QED
      BY <1>11, <3>4 DEF MessageExpires, TypeOK
  <2>. QED
    BY <2>1, <2>2
<1>12. CASE Crash
  BY <1>0, <1>12 DEF Crash, TypeOK
<1>13. ASSUME NEW w \in Workers, SaveFails(w) PROVE TypeOK'
  <2>1. /\ work[w].id \in Notifications /\ Counted(work[w].entity) \in Entry
        /\ [work[w] EXCEPT !.pc = "failed", !.loaded = NoEntry] \in Work
    BY <1>0, <1>13, BusyWork, OutcomeIsEntry, SavedIsWork DEF SaveFails
  <2>2. PICK new \in Work : work' = [work EXCEPT ![w] = new]
    BY <1>0, <1>13, <2>1, SavingIsWork DEF SaveFails, SaveThrows
  <2>3. work' \in [Workers -> Work]
    BY <1>0, <2>2, WorkStaysTyped
  <2>4. work'[Consumer] # Idle => work[Consumer] # Idle
    BY <1>0, <1>13, <2>2 DEF SaveFails, Idle
  <2>. QED
    BY <1>13, <2>3, <2>4 DEF SaveFails, TypeOK
<1>. QED
  BY <1>0, <1>1, <1>2, <1>3, <1>4, <1>5, <1>6, <1>7, <1>8, <1>9, <1>10, <1>11, <1>12, <1>13
  DEF Next, ConsumerStep, CallStep, Progress

\* The Notification Service keeps its types, for any number of messages,
\* requests and restarts.
THEOREM Typing == Spec => []TypeOK
<1>1. ASSUME TypeOK, UNCHANGED vars PROVE TypeOK'
  BY <1>1 DEF vars, TypeOK
<1>. QED
  BY <1>1, TypeInit, TypeStep, PTL DEF Spec

-------------------------------------------------------------------------------
(* What entries and settled messages say *)

\* Entries, mails and ticks are never taken back.
Grows ==
  /\ \A n \in Notifications : log[n].exists => log'[n].exists
  /\ delivered \subseteq delivered'
  /\ marked \subseteq marked'
  /\ failures > 0 => failures' > 0

\* A worker that does not move stays true to its word as the others go on.
LEMMA OthersStayTrue ==
  ASSUME TypeOK, Grows, NEW v \in Workers, WorkIsTrue(v), work'[v] = work[v]
  PROVE  WorkIsTrue(v)'
<1>1. SUFFICES ASSUME work[v].pc # "idle" PROVE WorkIsTrue(v)'
  BY DEF WorkIsTrue
<1>2. work[v].id \in Notifications
  BY <1>1, BusyWork
<1>. QED
  BY <1>1, <1>2 DEF WorkIsTrue, Grows

\* A step that writes no entry and settles nothing keeps the properties.
LEMMA LogUnchanged ==
  ASSUME TypeOK, TypeOK', SentMeansDelivered, SettledIsOnRecord, Grows,
         log' = log, settled' = settled
  PROVE  SentMeansDelivered' /\ SettledIsOnRecord'
BY DEF SentMeansDelivered, SettledIsOnRecord, Grows, TypeOK

\* Starting a save of an entity that may be saved keeps the invariant.
LEMMA StartStep ==
  ASSUME NotificationInv, TypeOK', NEW w \in Workers, NEW n \in Notifications,
         NEW entity \in Entry, NEW next \in {"send", "done", "failed", "marked"},
         work' = [work EXCEPT ![w] = Saving(n, entity, next)],
         entity.exists,
         next = "done" => entity.sent,
         entity.sent => n \in delivered' \cup (IF w = Consumer THEN {} ELSE marked'),
         Grows, log' = log, settled' = settled
  PROVE  NotificationInv'
<1>1. work'[w] = Saving(n, entity, next)
  BY DEF NotificationInv, TypeOK
<1>2. WorkIsTrue(w)'
  BY <1>1 DEF WorkIsTrue, Saving, NoEntry
<1>3. ASSUME NEW v \in Workers, v # w PROVE WorkIsTrue(v)'
  <2>1. work'[v] = work[v]
    BY <1>3 DEF NotificationInv, TypeOK
  <2>. QED
    BY <2>1, OthersStayTrue DEF NotificationInv
<1>. QED
  BY <1>2, <1>3, LogUnchanged DEF NotificationInv

LEMMA NotificationStep == ASSUME NotificationInv, Next PROVE NotificationInv'
<1>0. /\ TypeOK /\ TypeOK'
      /\ Consumer \in Workers /\ Calls \subseteq Workers
      /\ Consumer \notin Calls
      /\ FreshEntry \in Entry /\ FreshEntry.exists /\ ~FreshEntry.sent
      /\ work \in [Workers -> Work] /\ log \in [Notifications -> Entry]
      /\ \A w \in Workers : WorkIsTrue(w)
      /\ SentMeansDelivered /\ SettledIsOnRecord /\ failures \in Nat
  BY TypeStep, ConsumerAssumption DEF NotificationInv, Workers, FreshEntry, Entry, TypeOK
<1>1. ASSUME work' = work, log' = log, delivered' = delivered, settled' = settled,
             marked' = marked, failures' = failures
      PROVE  NotificationInv'
  <2>1. Grows
    BY <1>0, <1>1 DEF Grows
  <2>2. \A w \in Workers : WorkIsTrue(w)'
    BY <1>0, <1>1, <2>1, OthersStayTrue
  <2>. QED
    BY <1>0, <1>1, <2>1, <2>2, LogUnchanged DEF NotificationInv
<1>2. CASE (\E pattern \in Patterns : Arrive(pattern)) \/ MessageExpires \/ RejectUnknown
  BY <1>1, <1>2 DEF Arrive, MessageExpires, RejectUnknown
<1>3. ASSUME NEW w \in Workers, NEW n \in Notifications, SendNotification(w, n),
             UNCHANGED <<log, delivered, settled, marked, failures>>
      PROVE  NotificationInv'
  <2>1. Grows
    BY <1>0, <1>3 DEF Grows
  <2>. QED
    BY <1>0, <1>3, <2>1, StartStep DEF SendNotification
<1>4. ASSUME NEW n \in Notifications, Handle(n) PROVE NotificationInv'
  BY <1>0, <1>3, <1>4 DEF Handle
<1>5. ASSUME NEW c \in Calls, NEW n \in Notifications, Post(c, n) \/ Retry(c, n)
      PROVE  NotificationInv'
  BY <1>0, <1>3, <1>5 DEF Post, Retry
<1>6. ASSUME NEW c \in Calls, NEW n \in Notifications, MarkAsProcessed(c, n)
      PROVE  NotificationInv'
  <2>1. PICK entity : entity = [log[n] EXCEPT !.sent = TRUE]
    OBVIOUS
  <2>2. entity \in Entry /\ entity.exists /\ log[n].exists
    BY <1>0, <1>6, <2>1 DEF MarkAsProcessed, Entry
  <2>3. Grows /\ n \in marked' /\ c # Consumer
    BY <1>0, <1>6 DEF Grows, MarkAsProcessed
  <2>. QED
    BY <1>0, <1>6, <2>1, <2>2, <2>3, StartStep DEF MarkAsProcessed
<1>7. ASSUME NEW w \in Workers, SaveLoad(w) PROVE NotificationInv'
  <2>1. /\ work[w].pc = "save" /\ work[w].id \in Notifications
        /\ work'[w].pc = "write"
        /\ work'[w].id = work[w].id
        /\ work'[w].entity = work[w].entity
        /\ work'[w].next = work[w].next
        /\ work'[w].loaded = log[work[w].id]
    BY <1>0, <1>7, BusyWork DEF SaveLoad, Work, Idle
  <2>2. Grows
    BY <1>0, <1>7 DEF SaveLoad, Grows
  <2>3. WorkIsTrue(w)'
    BY <1>0, <1>7, <2>1 DEF SaveLoad, WorkIsTrue
  <2>4. ASSUME NEW v \in Workers, v # w PROVE WorkIsTrue(v)'
    <3>1. work'[v] = work[v]
      BY <1>0, <1>7, <2>4 DEF SaveLoad
    <3>. QED
      BY <1>0, <2>2, <3>1, OthersStayTrue
  <2>. QED
    BY <1>0, <1>7, <2>2, <2>3, <2>4, LogUnchanged DEF SaveLoad, NotificationInv
<1>8. ASSUME NEW w \in Workers, SaveWrite(w) PROVE NotificationInv'
  <2>. DEFINE id == work[w].id
              row == Merged(log[id], work[w].loaded, work[w].entity)
  <2>1. /\ id \in Notifications
        /\ work[w].entity \in Entry /\ work[w].loaded \in Entry /\ log[id] \in Entry
        /\ work[w].entity.exists
        /\ work[w].entity.sent => id \in delivered \cup (IF w = Consumer THEN {} ELSE marked)
        /\ work[w].loaded.exists => log[id].exists
        /\ work[w].next = "done" => work[w].entity.sent
    BY <1>0, <1>8, BusyWork DEF SaveWrite, WorkIsTrue
  <2>2. /\ row.exists
        /\ row.sent => work[w].entity.sent \/ log[id].sent
    BY <1>0, <2>1, MergedEntry DEF Entry
  <2>3. /\ log'[id] = row
        /\ \A n \in Notifications : n # id => log'[n] = log[n]
    BY <1>0, <1>8, <2>1 DEF SaveWrite
  <2>4. Grows
    BY <1>0, <1>8, <2>2, <2>3 DEF SaveWrite, Grows
  <2>5. /\ work'[w].id = id
        /\ work'[w].entity = work[w].entity
        /\ work'[w].loaded = NoEntry
        /\ work'[w].pc = work[w].next /\ work'[w].next = work[w].next
    BY <1>0, <1>8, BusyWork DEF SaveWrite, Work, Idle
  <2>6. WorkIsTrue(w)'
    BY <1>8, <2>1, <2>2, <2>3, <2>5 DEF SaveWrite, WorkIsTrue, NoEntry
  <2>7. ASSUME NEW v \in Workers, v # w PROVE WorkIsTrue(v)'
    <3>1. work'[v] = work[v]
      BY <1>0, <1>8, <2>7 DEF SaveWrite
    <3>. QED
      BY <1>0, <2>4, <3>1, OthersStayTrue
  <2>8. SentMeansDelivered'
    BY <1>0, <1>8, <2>1, <2>2, <2>3 DEF SaveWrite, SentMeansDelivered
  <2>9. SettledIsOnRecord'
    BY <1>0, <1>8, <2>4 DEF SaveWrite, SettledIsOnRecord, Grows
  <2>. QED
    BY <1>0, <2>6, <2>7, <2>8, <2>9 DEF NotificationInv
<1>9. ASSUME NEW w \in Workers, Send(w) PROVE NotificationInv'
  <2>. DEFINE id == work[w].id
              sent == [work[w].entity EXCEPT !.sent = TRUE]
              failed == Counted(work[w].entity)
  <2>1. /\ id \in Notifications /\ work[w].entity \in Entry
        /\ work[w].entity.exists
        /\ work[w].entity.sent => id \in delivered \cup (IF w = Consumer THEN {} ELSE marked)
    BY <1>0, <1>9, BusyWork DEF Send, WorkIsTrue
  <2>2. /\ sent \in Entry /\ sent.exists /\ sent.sent
        /\ failed \in Entry /\ failed.exists
        /\ failed.sent = work[w].entity.sent
    BY <2>1, OutcomeIsEntry DEF Entry, Counted
  <2>3. PICK taken \in ProviderOutcomes :
          /\ work' = [work EXCEPT ![w] = IF taken THEN Saving(id, sent, "done")
                                                 ELSE Saving(id, failed, "failed")]
          /\ delivered' = IF taken THEN delivered \cup {id} ELSE delivered
    BY <1>9 DEF Send
  <2>4. Grows
    BY <1>0, <1>9 DEF Send, Grows
  <2>5. log' = log /\ settled' = settled /\ marked' = marked
    BY <1>9 DEF Send
  <2>. HIDE DEF id, sent, failed
  <2>6. CASE taken
    BY <1>0, <2>1, <2>2, <2>3, <2>4, <2>5, <2>6, StartStep
  <2>7. CASE ~taken
    <3>1. work' = [work EXCEPT ![w] = Saving(id, failed, "failed")] /\ delivered' = delivered
      BY <2>3, <2>7
    <3>. QED
      BY <1>0, <2>1, <2>2, <2>4, <2>5, <3>1, StartStep
  <2>. QED
    BY <2>6, <2>7
<1>10. ASSUME NEW w \in Workers, work' = [work EXCEPT ![w] = Idle],
              UNCHANGED <<log, delivered, marked, failures>>
       PROVE  \A v \in Workers : WorkIsTrue(v)'
  <2>1. Grows
    BY <1>0, <1>10 DEF Grows
  <2>2. WorkIsTrue(w)'
    BY <1>0, <1>10 DEF WorkIsTrue, Idle
  <2>3. ASSUME NEW v \in Workers, v # w PROVE WorkIsTrue(v)'
    <3>1. work'[v] = work[v]
      BY <1>0, <1>10, <2>3
    <3>. QED
      BY <1>0, <2>1, <3>1, OthersStayTrue
  <2>. QED
    BY <2>2, <2>3
<1>11. CASE Settle
  <2>. DEFINE id == work[Consumer].id
  <2>1. /\ id \in Notifications
        /\ work[Consumer].pc = "done" => log[id].exists /\ id \in delivered
        /\ work[Consumer].pc = "failed" => log[id].exists \/ failures > 0
    BY <1>0, <1>11, BusyWork DEF Settle, WorkIsTrue
  <2>2. /\ settled'[id] = IF work[Consumer].pc = "done" THEN "acked" ELSE "rejected"
        /\ work[Consumer].pc \in {"done", "failed"}
        /\ \A n \in Notifications : n # id => settled'[n] = settled[n]
    BY <1>0, <1>11, <2>1 DEF Settle, TypeOK
  <2>3. SettledIsOnRecord'
    BY <1>0, <1>11, <2>1, <2>2 DEF Settle, SettledIsOnRecord
  <2>4. SentMeansDelivered'
    BY <1>0, <1>11 DEF Settle, SentMeansDelivered
  <2>. QED
    BY <1>0, <1>10, <1>11, <2>3, <2>4 DEF Settle, NotificationInv
<1>12. ASSUME NEW c \in Calls, Return(c) PROVE NotificationInv'
  BY <1>0, <1>10, <1>12 DEF Return, NotificationInv, SentMeansDelivered, SettledIsOnRecord
<1>13. CASE Crash
  <2>1. \A w \in Workers : WorkIsTrue(w)'
    BY <1>13 DEF Crash, WorkIsTrue, Idle
  <2>. QED
    BY <1>0, <1>13, <2>1 DEF Crash, NotificationInv, SentMeansDelivered, SettledIsOnRecord
<1>14. ASSUME NEW w \in Workers, SaveFails(w) PROVE NotificationInv'
  <2>. DEFINE id == work[w].id
              failed == Counted(work[w].entity)
  <2>1. /\ id \in Notifications /\ work[w].entity \in Entry /\ work[w].entity.exists
        /\ work[w].entity.sent => id \in delivered \cup (IF w = Consumer THEN {} ELSE marked)
        /\ work[w].loaded \in Entry
    BY <1>0, <1>14, BusyWork DEF SaveFails, WorkIsTrue
  <2>2. /\ failed \in Entry /\ failed.exists /\ failed.sent = work[w].entity.sent
    BY <2>1, OutcomeIsEntry DEF Entry, Counted
  <2>3. /\ Grows /\ log' = log /\ settled' = settled /\ marked' = marked
        /\ delivered' = delivered /\ (failures' > 0 \/ log[id].exists)
    BY <1>0, <1>14 DEF SaveFails, Collides, Grows
  <2>4. CASE work[w].next = "done"
    <3>1. work' = [work EXCEPT ![w] = Saving(id, failed, "failed")]
      BY <1>0, <1>14, <2>4 DEF SaveFails, SaveThrows
    <3>. HIDE DEF id, failed
    <3>. QED
      BY <1>0, <2>1, <2>2, <2>3, <2>4, <3>1, StartStep
  <2>5. CASE work[w].next # "done"
    <3>1. work' = [work EXCEPT ![w] = [@ EXCEPT !.pc = "failed", !.loaded = NoEntry]]
      BY <1>0, <1>14, <2>5 DEF SaveFails, SaveThrows
    <3>2. /\ work'[w].pc = "failed" /\ work'[w].id = id /\ work'[w].loaded = NoEntry
          /\ work'[w].entity = work[w].entity /\ work'[w].next = work[w].next
      <4>1. work[w] \in Work /\ work[w] # Idle
        BY <1>0, <1>14, BusyWork DEF SaveFails
      <4>2. work'[w] = [work[w] EXCEPT !.pc = "failed", !.loaded = NoEntry]
        BY <1>0, <3>1
      <4>. QED
        BY <4>1, <4>2 DEF Work
    <3>3. WorkIsTrue(w)'
      BY <1>0, <1>14, <2>1, <2>3, <2>5, <3>2 DEF SaveFails, WorkIsTrue, NoEntry
    <3>4. ASSUME NEW v \in Workers, v # w PROVE WorkIsTrue(v)'
      BY <1>0, <2>3, <3>1, <3>4, OthersStayTrue
    <3>. QED
      BY <1>0, <2>3, <3>3, <3>4, LogUnchanged DEF NotificationInv
  <2>. QED
    BY <2>4, <2>5
<1>. QED
  BY <1>0, <1>2, <1>4, <1>5, <1>6, <1>7, <1>8, <1>9, <1>11, <1>12, <1>13, <1>14
  DEF Next, ConsumerStep, CallStep, Progress

LEMMA NotificationInit == ASSUME Init PROVE NotificationInv
<1>1. TypeOK
  BY TypeInit
<1>2. \A w \in Workers : WorkIsTrue(w)
  BY DEF Init, WorkIsTrue, Idle
<1>. QED
  BY <1>1, <1>2 DEF Init, NotificationInv, SentMeansDelivered, SettledIsOnRecord, NoEntry

LEMMA NotificationInvariance == Spec => []NotificationInv
<1>1. ASSUME NotificationInv, UNCHANGED vars PROVE NotificationInv'
  BY <1>1 DEF vars, NotificationInv, TypeOK, WorkIsTrue, SentMeansDelivered, SettledIsOnRecord
<1>. QED
  BY <1>1, NotificationInit, NotificationStep, PTL DEF Spec

\* An entry says that its mail was sent only if the provider took one or a
\* client ticked it off, however many requests overwrite each other's entry
\* (notification.service.ts:36-80 and 145-150).
THEOREM SentEntriesAreTrue == Spec => []SentMeansDelivered
<1>1. NotificationInv => SentMeansDelivered
  BY DEF NotificationInv
<1>. QED
  BY <1>1, NotificationInvariance, PTL

\* A message acknowledged left a mail and an entry behind and one rejected an
\* entry unless a statement failed, whenever the service stops
\* (notification.controller.ts:79-98).
THEOREM SettledMessagesLeaveTheirEntry == Spec => []SettledIsOnRecord
<1>1. NotificationInv => SettledIsOnRecord
  BY DEF NotificationInv
<1>. QED
  BY <1>1, NotificationInvariance, PTL
===============================================================================
