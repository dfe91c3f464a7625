------------------------- MODULE EventPublisherProofs -------------------------
(***************************************************************************)
(* The numbers of an order's events are consecutive, for any number of     *)
(* calls and whatever the row holds at the start.  A call that created the *)
(* row and got its number keeps it, so a state in which at most one did    *)
(* was reached through such states only; there the row counts the granted  *)
(* numbers and the holder of its lock has the next one.                    *)
(*                                                                         *)
(* And a publish keeps its promise about the two queues, through any       *)
(* number of errors, lost confirmations and restarts: the notification of  *)
(* an event is attempted only once the event's own call is over, so the    *)
(* way two calls of executeWithRetry stand tells how the publish stands.   *)
(*                                                                         *)
(* The waits between the attempts grow, whatever the jitter: each wait of  *)
(* a policy has a range of its own and the ranges do not overlap.          *)
(***************************************************************************)
EXTENDS EventPublisher, TLAPS

\* At most one call that found no row has got its number.
LoneCreator ==
  \A c, d \in Callers :
    /\ call[c].creates /\ call[c].stage = "granted"
    /\ call[d].creates /\ call[d].stage = "granted"
    => c = d

\* The locks and the stages, whoever creates the row.
Discipline ==
  /\ \A c, d \in Callers :
       call[c].stage = "written" /\ call[d].stage = "written" => c = d
  /\ \A c \in Callers :
       call[c].stage \in {"absent", "inserting", "updating"} => call[c].creates
  /\ \A c \in Callers : call[c].stage = "ready" => ~call[c].creates

\* What the row, the granted numbers and the calls in progress have in common.
Counting ==
  /\ row = Len(granted)
  /\ \A i \in DOMAIN granted : granted[i] = i
  /\ \A c \in Callers : call[c].stage = "written" =>
       /\ ~call[c].creates => row > 0 /\ call[c].number = row + 1 /\ call[c].column = row + 1
       /\ call[c].creates /\ row = 0 => call[c].number = 1 /\ call[c].column = 1
  /\ \A c \in Callers :
       call[c].creates /\ call[c].stage \notin {"granted", "failed"} /\ row > 0
         => \E d \in Callers : call[d].creates /\ call[d].stage = "granted"
  /\ \A c \in Callers : call[c].stage = "updating" => row > 0

NumberInv == SequenceTypeOK /\ Discipline /\ (LoneCreator => Counting)

LEMMA NumberInit == ASSUME SequenceInit PROVE NumberInv
<1>1. row \in Nat
  BY InitialRowsAssumption DEF SequenceInit
<1>2. /\ granted \in Seq(Nat)
      /\ Len(granted) = row
      /\ \A i \in DOMAIN granted : granted[i] = i
  BY <1>1 DEF SequenceInit
<1>3. \A c \in Callers : call[c] = [stage |-> "ready", number |-> 0, column |-> 0,
                                    seen |-> 0, creates |-> FALSE]
  BY DEF SequenceInit
<1>4. call \in [Callers -> Call]
  BY DEF SequenceInit, Call, Stages
<1> QED
  BY <1>1, <1>2, <1>3, <1>4 DEF NumberInv, SequenceTypeOK, Discipline, Counting

\* Every step of a call keeps the type, the discipline and the counting.
LEMMA NumberStep ==
  ASSUME NumberInv, NEW c \in Callers, SequenceStep(c) \/ DatabaseFails(c)
  PROVE  NumberInv'
<1> DEFINE Kept == \A d \in Callers : d # c => call'[d] = call[d]
<1>0. /\ row \in Nat
      /\ granted \in Seq(Nat)
      /\ call \in [Callers -> Call]
      /\ call[c] \in Call
      /\ \A d \in Callers : call[d].creates \in BOOLEAN
  BY DEF NumberInv, SequenceTypeOK, Call
<1>1. CASE IncrementLocked(c)
  <2>1. /\ call[c].stage = "ready" /\ row > 0
        /\ \A d \in Callers : call[d].stage # "written"
        /\ call'[c].stage = "written"
        /\ call'[c].number = row + 1 /\ call'[c].column = row + 1
        /\ call'[c].creates = call[c].creates
        /\ row' = row /\ granted' = granted
        /\ Kept
    BY <1>0, <1>1 DEF IncrementLocked, WriteRow, Unlocked, Call
  <2>2. call' \in [Callers -> Call]
    <3>1. /\ row + 1 \in Nat
          /\ "written" \in Stages
      BY <1>0 DEF Stages
    <3>2. ASSUME NEW stage \in Stages, NEW number \in Nat, NEW column \in Nat
          PROVE  [call EXCEPT ![c].stage = stage, ![c].number = number, ![c].column = column]
                   \in [Callers -> Call]
      BY <1>0 DEF Call
    <3> QED
      BY <1>1, <3>1, <3>2 DEF IncrementLocked, WriteRow, Unlocked
  <2>3. SequenceTypeOK'
    BY <1>0, <2>1, <2>2 DEF SequenceTypeOK, Call
  <2>4. Discipline'
    BY <1>0, <2>1 DEF NumberInv, Discipline
  <2>5. ASSUME LoneCreator' PROVE Counting'
    <3>1. LoneCreator
      BY <1>0, <2>1, <2>5 DEF LoneCreator
    <3>2. Counting
      BY <3>1 DEF NumberInv
    <3> QED
      BY <1>0, <2>1, <2>5, <3>1, <3>2 DEF NumberInv, Discipline, Counting, LoneCreator
  <2> QED
    BY <2>3, <2>4, <2>5 DEF NumberInv
<1>2. CASE FindNoRow(c)
  <2>1. /\ call[c].stage = "ready" /\ row = 0
        /\ call'[c].stage = "absent" /\ call'[c].creates
        /\ row' = row /\ granted' = granted
        /\ Kept
    BY <1>0, <1>2 DEF FindNoRow, Call
  <2>2. call' \in [Callers -> Call]
    BY <1>0, <1>2 DEF FindNoRow, Call, Stages
  <2>3. SequenceTypeOK'
    BY <1>0, <2>1, <2>2 DEF SequenceTypeOK, Call
  <2>4. Discipline'
    BY <1>0, <2>1 DEF NumberInv, Discipline
  <2>5. ASSUME LoneCreator' PROVE Counting'
    <3>1. LoneCreator
      BY <1>0, <2>1, <2>5 DEF LoneCreator
    <3>2. Counting
      BY <3>1 DEF NumberInv
    <3> QED
      BY <1>0, <2>1, <2>5, <3>1, <3>2 DEF NumberInv, Discipline, Counting, LoneCreator
  <2> QED
    BY <2>3, <2>4, <2>5 DEF NumberInv
<1>3. CASE SaveLoads(c)
  <2>1. /\ call[c].stage = "absent"
        /\ call'[c].stage = IF row = 0 THEN "inserting" ELSE "updating"
        /\ call'[c].creates = call[c].creates
        /\ row' = row /\ granted' = granted
        /\ Kept
    BY <1>0, <1>3 DEF SaveLoads, Call
  <2>2. call' \in [Callers -> Call]
    BY <1>0, <1>3 DEF SaveLoads, Call, Stages
  <2>3. SequenceTypeOK'
    BY <1>0, <2>1, <2>2 DEF SequenceTypeOK, Call
  <2>4. Discipline'
    BY <1>0, <2>1 DEF NumberInv, Discipline
  <2>5. ASSUME LoneCreator' PROVE Counting'
    <3>1. LoneCreator
      BY <1>0, <2>1, <2>5 DEF LoneCreator
    <3>2. Counting
      BY <3>1 DEF NumberInv
    <3> QED
      BY <1>0, <2>1, <2>5, <3>1, <3>2 DEF NumberInv, Discipline, Counting, LoneCreator
  <2> QED
    BY <2>3, <2>4, <2>5 DEF NumberInv
<1>4. CASE Insert(c)
  <2>1. /\ call[c].stage = "inserting"
        /\ \A d \in Callers : call[d].stage # "written"
        /\ call'[c].stage = IF row = 0 THEN "written" ELSE "failed"
        /\ row = 0 => call'[c].number = 1 /\ call'[c].column = 1
        /\ call'[c].creates = call[c].creates
        /\ row' = row /\ granted' = granted
        /\ Kept
    BY <1>0, <1>4 DEF Insert, WriteRow, Reach, Unlocked, Call
  <2>2. call' \in [Callers -> Call]
    <3>1. /\ row + 1 \in Nat
          /\ {"written", "failed"} \subseteq Stages
      BY <1>0 DEF Stages
    <3>2. ASSUME NEW stage \in Stages, NEW number \in Nat, NEW column \in Nat
          PROVE  [call EXCEPT ![c].stage = stage, ![c].number = number, ![c].column = column]
                   \in [Callers -> Call]
      BY <1>0 DEF Call
    <3>3. [call EXCEPT ![c].stage = "failed"] \in [Callers -> Call]
      BY <1>0, <3>1 DEF Call
    <3>4. CASE row = 0
      <4>1. call' = [call EXCEPT ![c].stage = "written", ![c].number = 1, ![c].column = 1]
        BY <1>4, <3>4 DEF Insert, WriteRow
      <4> QED
        BY <3>1, <3>2, <4>1
    <3>5. CASE row # 0
      BY <1>4, <3>3, <3>5 DEF Insert, Reach
    <3> QED
      BY <3>4, <3>5
  <2>3. SequenceTypeOK'
    BY <1>0, <2>1, <2>2 DEF SequenceTypeOK, Call
  <2>4. Discipline'
    BY <1>0, <2>1 DEF NumberInv, Discipline
  <2>5. ASSUME LoneCreator' PROVE Counting'
    <3>1. LoneCreator
      BY <1>0, <2>1, <2>5 DEF LoneCreator
    <3>2. Counting
      BY <3>1 DEF NumberInv
    <3> QED
      BY <1>0, <2>1, <2>5, <3>1, <3>2 DEF NumberInv, Discipline, Counting, LoneCreator
  <2> QED
    BY <2>3, <2>4, <2>5 DEF NumberInv
<1>5. CASE SaveUpdates(c)
  <2>1. /\ call[c].stage = "updating"
        /\ \A d \in Callers : call[d].stage # "written"
        /\ call'[c].stage = "written"
        /\ call'[c].creates = call[c].creates
        /\ row' = row /\ granted' = granted
        /\ Kept
    BY <1>0, <1>5 DEF SaveUpdates, WriteRow, Unlocked, Call
  <2>2. call' \in [Callers -> Call]
    BY <1>0, <1>5 DEF SaveUpdates, WriteRow, Unlocked, Call, Stages
  <2>3. SequenceTypeOK'
    BY <1>0, <2>1, <2>2 DEF SequenceTypeOK, Call
  <2>4. Discipline'
    BY <1>0, <2>1 DEF NumberInv, Discipline
  <2>5. ASSUME LoneCreator' PROVE Counting'
    <3>1. LoneCreator
      BY <1>0, <2>1, <2>5 DEF LoneCreator
    <3>2. Counting
      BY <3>1 DEF NumberInv
    <3> QED
      BY <1>0, <2>1, <2>5, <3>1, <3>2 DEF NumberInv, Discipline, Counting, LoneCreator
  <2> QED
    BY <2>3, <2>4, <2>5 DEF NumberInv
<1>6. CASE CommitNumber(c)
  <2>1. /\ call[c].stage = "written" /\ call'[c].stage = "granted"
        /\ call'[c].creates = call[c].creates
        /\ row' = call[c].column
        /\ granted' = Append(granted, call[c].number)
        /\ Kept
    BY <1>0, <1>6 DEF CommitNumber, Reach, Call
  <2>2. call' \in [Callers -> Call]
    BY <1>0, <1>6 DEF CommitNumber, Reach, Call, Stages
  <2>3. SequenceTypeOK'
    BY <1>0, <2>1, <2>2 DEF SequenceTypeOK, Call
  <2>4. Discipline'
    BY <1>0, <2>1 DEF NumberInv, Discipline
  <2>5. ASSUME LoneCreator' PROVE Counting'
    <3>1. LoneCreator
      BY <1>0, <2>1, <2>5 DEF LoneCreator
    <3>2. Counting
      BY <3>1 DEF NumberInv
    <3> QED
      BY <1>0, <2>1, <2>5, <3>1, <3>2 DEF NumberInv, Discipline, Counting, LoneCreator
  <2> QED
    BY <2>3, <2>4, <2>5 DEF NumberInv
<1>7. CASE DatabaseFails(c)
  <2>1. /\ call[c].stage \notin {"granted", "failed"} /\ call'[c].stage = "failed"
        /\ call'[c].creates = call[c].creates
        /\ row' = row /\ granted' = granted
        /\ Kept
    BY <1>0, <1>7 DEF DatabaseFails, Reach, Call
  <2>2. call' \in [Callers -> Call]
    BY <1>0, <1>7 DEF DatabaseFails, Reach, Call, Stages
  <2>3. SequenceTypeOK'
    BY <1>0, <2>1, <2>2 DEF SequenceTypeOK, Call
  <2>4. Discipline'
    BY <1>0, <2>1 DEF NumberInv, Discipline
  <2>5. ASSUME LoneCreator' PROVE Counting'
    <3>1. LoneCreator
      BY <1>0, <2>1, <2>5 DEF LoneCreator
    <3>2. Counting
      BY <3>1 DEF NumberInv
    <3> QED
      BY <1>0, <2>1, <3>2 DEF Counting
  <2> QED
    BY <2>3, <2>4, <2>5 DEF NumberInv
<1> QED
  BY <1>1, <1>2, <1>3, <1>4, <1>5, <1>6, <1>7 DEF SequenceStep

\* A restart ends the transactions in progress and nothing else.
LEMMA NumberRestart ==
  ASSUME NumberInv, TransactionsAreLost
  PROVE  NumberInv'
<1>0. /\ row \in Nat
      /\ granted \in Seq(Nat)
      /\ call \in [Callers -> Call]
      /\ \A d \in Callers : call[d].creates \in BOOLEAN
  BY DEF NumberInv, SequenceTypeOK, Call
<1>1. /\ row' = row /\ granted' = granted
      /\ \A d \in Callers :
           /\ call'[d].creates = call[d].creates
           /\ call[d].stage \in {"ready", "granted"} => call'[d] = call[d]
           /\ call[d].stage \notin {"ready", "granted"} => call'[d].stage = "failed"
  BY <1>0 DEF TransactionsAreLost, Call
<1>2. SequenceTypeOK'
  <2>1. ASSUME NEW d \in Callers PROVE [call[d] EXCEPT !.stage = "failed"] \in Call
    BY <1>0 DEF Call, Stages
  <2>2. call' \in [Callers -> Call]
    BY <1>0, <2>1 DEF TransactionsAreLost
  <2> QED
    BY <1>0, <1>1, <2>2 DEF SequenceTypeOK
<1>3. Discipline'
  BY <1>1 DEF NumberInv, Discipline
<1>4. ASSUME LoneCreator' PROVE Counting'
  <2>1. LoneCreator
    BY <1>1, <1>4 DEF LoneCreator
  <2>2. Counting
    BY <2>1 DEF NumberInv
  <2> QED
    BY <1>0, <1>1, <2>2 DEF Counting
<1> QED
  BY <1>2, <1>3, <1>4 DEF NumberInv

\* The buffer and the sending leave the numbers alone.
LEMMA NumberNext ==
  ASSUME NumberInv, [PublisherNext]_publisherVars
  PROVE  NumberInv'
<1>1. CASE \E c \in Callers : SequenceStep(c) \/ DatabaseFails(c)
  BY <1>1, NumberStep
<1>2. CASE TransactionsAreLost
  BY <1>2, NumberRestart
<1>3. CASE UNCHANGED sequenceVars
  BY <1>3 DEF sequenceVars, NumberInv, SequenceTypeOK, Discipline, LoneCreator, Counting
<1> QED
  BY <1>1, <1>2, <1>3 DEF PublisherNext, PublisherStep, publisherVars, TakeNumber, NumberFails,
                          Buffered, Emit, EmitFails, BufferTimer, Restart

\* The numbers of one order's events have no gap and no repetition, for every
\* set of racing calls, failing databases and restarts, unless two calls that
\* both found no row both return one.
THEOREM Numbering == PublisherSpec => []NumbersAreConsecutive
<1>1. PublisherInit => NumberInv
  BY NumberInit DEF PublisherInit
<1>2. NumberInv /\ [PublisherNext]_publisherVars => NumberInv'
  BY NumberNext
<1>3. NumberInv => NumbersAreConsecutive
  BY DEF NumberInv, LoneCreator, Counting, NumbersAreConsecutive
<1> QED
  BY <1>1, <1>2, <1>3, PTL DEF PublisherSpec

-------------------------------------------------------------------------------
\* What a longer list holds that the list does not is the last of it.
LEMMA AppendedBy ==
  ASSUME NEW S, NEW list \in Seq(S), NEW e, NEW x, x \in Range(Append(list, e)), x # e
  PROVE  x \in Range(list)
BY DEF Range

Event(c) == <<c, "event">>
Notice(c) == <<c, "notification">>

\* How the two calls of a publish stand to each other and to the queues.
PublishInv ==
  /\ try \in [Operations -> Try]
  /\ copies \in [Operations -> Nat]
  /\ \A o \in Operations : try[o].state = "trying" => copies[o] <= try[o].attempt
  /\ \A c \in Callers :
       /\ try[Event(c)].state = "done" => copies[Event(c)] > 0
       /\ try[Event(c)].state # "done" =>
            copies[Notice(c)] = 0 /\ try[Notice(c)].state \in {"trying", "lost"}
       /\ try[Event(c)].state = "trying" => try[Notice(c)].state = "trying"

LEMMA Pairs ==
  ASSUME NEW c \in Callers
  PROVE  /\ Event(c) \in Operations
         /\ Notice(c) \in Operations
         /\ Event(c)[1] = c
         /\ Notice(c)[1] = c
         /\ \A d \in Callers : d # c => /\ Event(d) # Event(c) /\ Event(d) # Notice(c)
                                       /\ Notice(d) # Event(c) /\ Notice(d) # Notice(c)
         /\ Event(c) # Notice(c)
         /\ \A leg \in Legs : <<c, leg>> \in {Event(c), Notice(c)}
  BY OperationsAssumption DEF Event, Notice, Legs

LEMMA PublishInit == ASSUME PublisherInit PROVE PublishInv
<1>1. \A o \in Operations : try[o] = [state |-> "trying", attempt |-> 0] /\ copies[o] = 0
  BY DEF PublisherInit, RetryInit
<1>2. try \in [Operations -> Try] /\ copies \in [Operations -> Nat]
  BY RetriesAssumption DEF PublisherInit, RetryInit, Try
<1> QED
  BY <1>1, <1>2, Pairs DEF PublishInv

\* What an attempt changes, and what it may leave behind.
LEMMA AttemptEffect ==
  ASSUME PublishInv, NEW c \in Callers, NEW leg \in Legs, Emit(c, leg) \/ EmitFails(c, leg)
  PROVE  LET o == <<c, leg>>
         IN  /\ o \in Operations
             /\ try[o].state = "trying"
             /\ leg = "notification" => try[Event(c)].state = "done"
             /\ try' \in [Operations -> Try]
             /\ copies' \in [Operations -> Nat]
             /\ \A other \in Operations : other # o =>
                  try'[other] = try[other] /\ copies'[other] = copies[other]
             /\ copies[o] <= MaxRetries
             /\ \/ /\ try'[o].state = "done"
                   /\ copies'[o] = copies[o] + 1
                \/ /\ try'[o].state \in {"refused", "exhausted"}
                   /\ copies'[o] \in {copies[o], copies[o] + 1}
                \/ /\ try'[o].state = "trying"
                   /\ try'[o].attempt = try[o].attempt + 1
                   /\ copies'[o] \in {copies[o], copies[o] + 1}
<1> DEFINE o == <<c, leg>>
<1>1. /\ o \in Operations
      /\ try[o] \in Try
      /\ copies[o] \in Nat
      /\ MaxRetries \in Nat
  BY OperationsAssumption, RetriesAssumption DEF PublishInv
<1>2. try[o].state = "trying" /\ Due(c, leg)
  BY DEF Emit, EmitFails, AttemptSucceeds, AttemptFails
<1>3. leg = "notification" => try[Event(c)].state = "done"
  BY <1>2 DEF Due, Event
<1>4. copies[o] <= MaxRetries
  BY <1>1, <1>2 DEF PublishInv, Try
<1>5. /\ copies' \in [Operations -> Nat]
      /\ \A other \in Operations : other # o => copies'[other] = copies[other]
      /\ copies'[o] \in {copies[o], copies[o] + 1}
      /\ Emit(c, leg) => copies'[o] = copies[o] + 1
  BY <1>1 DEF PublishInv, Emit, EmitFails
<1>6. ASSUME NEW state \in {"done", "refused", "exhausted"}, Ends(o, state)
      PROVE  /\ try' \in [Operations -> Try]
             /\ \A other \in Operations : other # o => try'[other] = try[other]
             /\ try'[o].state = state
  BY <1>1, <1>6 DEF PublishInv, Ends, Try
<1>7. CASE Emit(c, leg)
  <2>1. Ends(o, "done")
    BY <1>7 DEF Emit, AttemptSucceeds
  <2> QED
    BY <1>1, <1>2, <1>3, <1>4, <1>5, <1>6, <1>7, <2>1
<1>8. CASE EmitFails(c, leg)
  <2>1. CASE Ends(o, "exhausted") \/ Ends(o, "refused")
    BY <1>1, <1>2, <1>3, <1>4, <1>5, <1>6, <2>1
  <2>2. CASE try' = [try EXCEPT ![o].attempt = @ + 1] /\ try[o].attempt < MaxRetries
    <3> DEFINE next == [try[o] EXCEPT !.attempt = @ + 1]
    <3>0. /\ try[o].attempt + 1 \in 0..MaxRetries
          /\ try[o].attempt \in 0..MaxRetries
      BY <1>1, <2>2 DEF Try
    <3>2. next \in Try /\ next.state = "trying" /\ next.attempt = try[o].attempt + 1
      BY <1>1, <1>2, <3>0 DEF Try
    <3>3. try' = [try EXCEPT ![o] = next]
      BY <2>2
    <3> HIDE DEF next
    <3>1. /\ try' \in [Operations -> Try]
          /\ \A other \in Operations : other # o => try'[other] = try[other]
          /\ try'[o].state = "trying"
          /\ try'[o].attempt = try[o].attempt + 1
      BY <1>1, <3>2, <3>3 DEF PublishInv
    <3> QED
      BY <1>1, <1>2, <1>3, <1>4, <1>5, <3>1
  <2> QED
    BY <1>8, <2>1, <2>2 DEF EmitFails, AttemptFails
<1> QED
  BY <1>7, <1>8

\* What a restart changes.
LEMMA RestartEffect ==
  ASSUME PublishInv, Restart
  PROVE  /\ copies' = copies
         /\ try' \in [Operations -> Try]
         /\ \A c \in Callers :
              \/ try'[Event(c)] = try[Event(c)] /\ try'[Notice(c)] = try[Notice(c)]
              \/ \A o \in {Event(c), Notice(c)} :
                   /\ try[o].state = "trying" => try'[o].state = "lost"
                   /\ try[o].state # "trying" => try'[o] = try[o]
<1> DEFINE started == {o \in Operations : call[o[1]].stage = "granted"}
<1>1. copies' = copies /\ CallsAreLost(started)
  BY DEF Restart
<1>2. ASSUME NEW o \in Operations
      PROVE  /\ try'[o] \in Try
             /\ o \in started /\ try[o].state = "trying" => try'[o].state = "lost"
             /\ ~(o \in started /\ try[o].state = "trying") => try'[o] = try[o]
  BY <1>1 DEF PublishInv, CallsAreLost, Try
<1>3. try' \in [Operations -> Try]
  BY <1>1, <1>2 DEF CallsAreLost
<1>4. ASSUME NEW c \in Callers
      PROVE  Event(c) \in started <=> Notice(c) \in started
  BY Pairs
<1> QED
  BY <1>1, <1>2, <1>3, <1>4, Pairs

LEMMA PublishNext ==
  ASSUME PublishInv, [PublisherNext]_publisherVars
  PROVE  PublishInv'
<1>1. ASSUME NEW c \in Callers, NEW leg \in Legs, Emit(c, leg) \/ EmitFails(c, leg)
      PROVE  PublishInv'
  <2>1. ASSUME NEW o \in Operations
        PROVE  (try[o].state = "trying" => copies[o] <= try[o].attempt)'
    <3>1. /\ try[o].attempt \in Nat
          /\ copies[o] \in Nat
          /\ try[o].state = "trying" => copies[o] <= try[o].attempt
      BY RetriesAssumption DEF PublishInv, Try
    <3>2. CASE o = <<c, leg>>
      BY <1>1, <3>1, <3>2, AttemptEffect
    <3>3. CASE o # <<c, leg>>
      BY <1>1, <3>1, <3>3, AttemptEffect
    <3> QED
      BY <3>2, <3>3
  <2>2. ASSUME NEW d \in Callers
        PROVE  (/\ try[Event(d)].state = "done" => copies[Event(d)] > 0
                /\ try[Event(d)].state # "done" =>
                     copies[Notice(d)] = 0 /\ try[Notice(d)].state \in {"trying", "lost"}
                /\ try[Event(d)].state = "trying" => try[Notice(d)].state = "trying")'
    <3>1. CASE d = c /\ leg = "event"
      BY <1>1, <3>1, AttemptEffect, Pairs DEF PublishInv, Event
    <3>2. CASE d = c /\ leg = "notification"
      BY <1>1, <3>2, AttemptEffect, Pairs DEF PublishInv, Notice
    <3>3. CASE d # c
      BY <1>1, <3>3, AttemptEffect, Pairs DEF PublishInv
    <3> QED
      BY <3>1, <3>2, <3>3 DEF Legs
  <2> QED
    BY <1>1, <2>1, <2>2, AttemptEffect DEF PublishInv, Event, Notice
<1>2. CASE Restart
  <2>1. ASSUME NEW c \in Callers, NEW o \in {Event(c), Notice(c)}
        PROVE  /\ try'[o].state = try[o].state => try'[o] = try[o]
               /\ try'[o].state \in {try[o].state, "lost"}
               /\ try'[o].state = "trying" => try[o].state = "trying"
    BY <1>2, RestartEffect
  <2>2. ASSUME NEW o \in Operations
        PROVE  (try[o].state = "trying" => copies[o] <= try[o].attempt)'
    <3>1. PICK c \in Callers : o \in {Event(c), Notice(c)}
      BY OperationsAssumption DEF Event, Notice, Legs
    <3> QED
      BY <1>2, <2>1, <3>1, RestartEffect DEF PublishInv
  <2>3. ASSUME NEW c \in Callers
        PROVE  (/\ try[Event(c)].state = "done" => copies[Event(c)] > 0
                /\ try[Event(c)].state # "done" =>
                     copies[Notice(c)] = 0 /\ try[Notice(c)].state \in {"trying", "lost"}
                /\ try[Event(c)].state = "trying" => try[Notice(c)].state = "trying")'
    <3>1. /\ copies'[Event(c)] = copies[Event(c)]
          /\ copies'[Notice(c)] = copies[Notice(c)]
      BY <1>2, RestartEffect
    <3>2. CASE try'[Event(c)] = try[Event(c)] /\ try'[Notice(c)] = try[Notice(c)]
      BY <3>1, <3>2 DEF PublishInv
    <3>3. CASE \A o \in {Event(c), Notice(c)} :
                 /\ try[o].state = "trying" => try'[o].state = "lost"
                 /\ try[o].state # "trying" => try'[o] = try[o]
      BY <3>1, <3>3 DEF PublishInv
    <3> QED
      BY <1>2, <3>2, <3>3, RestartEffect
  <2> QED
    BY <1>2, <2>2, <2>3, RestartEffect DEF PublishInv, Event, Notice
<1>3. CASE UNCHANGED <<try, copies>>
  BY <1>3 DEF PublishInv, Event, Notice
<1> QED
  BY <1>1, <1>2, <1>3 DEF PublisherNext, PublisherStep, publisherVars, retryVars, TakeNumber,
                          NumberFails, Buffered, BufferTimer

\* Nothing is buffered or sent for a call that has no number.
NumberedFirst ==
  \A c \in Callers :
    Added(c) \/ try[Event(c)].state # "trying" => call[c].stage = "granted"

ArrivalsAreEvents == arrivals \in Seq([by : Callers, number : Nat])

DeliveryInv == NumberInv /\ PublishInv /\ ArrivalsAreEvents /\ NumberedFirst

\* A call that is over stays as it ended.
LEMMA StageSteps ==
  ASSUME SequenceTypeOK, [PublisherNext]_publisherVars, NEW c \in Callers,
         call[c].stage \in {"granted", "failed"}
  PROVE  call'[c].stage = call[c].stage
<1>0. call \in [Callers -> Call]
  BY DEF SequenceTypeOK
<1>1. ASSUME NEW d \in Callers, SequenceStep(d) \/ DatabaseFails(d)
      PROVE  call'[c].stage = call[c].stage
  <2>1. d = c /\ (DatabaseFails(d) \/ SequenceStep(d)) => call[d].stage \notin {"granted", "failed"}
    BY DEF SequenceStep, DatabaseFails, IncrementLocked, FindNoRow, SaveLoads, Insert, SaveUpdates,
           CommitNumber
  <2>2. d # c => call'[c] = call[c]
    BY <1>0, <1>1 DEF SequenceStep, DatabaseFails, IncrementLocked, FindNoRow, SaveLoads, Insert,
                      SaveUpdates, CommitNumber, WriteRow, Reach
  <2> QED
    BY <1>1, <2>1, <2>2
<1>2. CASE TransactionsAreLost
  BY <1>0, <1>2 DEF TransactionsAreLost
<1>3. CASE UNCHANGED sequenceVars
  BY <1>3 DEF sequenceVars
<1> QED
  BY <1>1, <1>2, <1>3 DEF PublisherNext, PublisherStep, publisherVars, TakeNumber, NumberFails,
                          Buffered, Emit, EmitFails, BufferTimer, Restart

LEMMA ArrivalsNext ==
  ASSUME SequenceTypeOK, ArrivalsAreEvents, [PublisherNext]_publisherVars
  PROVE  ArrivalsAreEvents'
<1>1. ASSUME NEW c \in Callers, Buffered(c) PROVE ArrivalsAreEvents'
  <2>1. arrivals' = Append(arrivals, [by |-> c, number |-> call[c].number])
    BY <1>1 DEF Buffered, AddEvent
  <2>2. [by |-> c, number |-> call[c].number] \in [by : Callers, number : Nat]
    BY DEF SequenceTypeOK, Call
  <2> QED
    BY <2>1, <2>2 DEF ArrivalsAreEvents
<1>2. CASE Restart
  BY <1>2 DEF Restart, BuffersAreLost, ArrivalsAreEvents
<1>3. CASE UNCHANGED arrivals
  BY <1>3 DEF ArrivalsAreEvents
<1> QED
  BY <1>1, <1>2, <1>3 DEF PublisherNext, PublisherStep, publisherVars, bufferVars, TakeNumber,
                          NumberFails, Emit, EmitFails, BufferTimer, EventProcessed, CleanUp

LEMMA NumberedFirstNext ==
  ASSUME DeliveryInv, [PublisherNext]_publisherVars
  PROVE  NumberedFirst'
<1> SUFFICES ASSUME NEW c \in Callers, (Added(c) \/ try[Event(c)].state # "trying")'
             PROVE  call'[c].stage = "granted"
  BY DEF NumberedFirst, Event
<1>1. CASE call[c].stage = "granted"
  BY <1>1, StageSteps DEF DeliveryInv, NumberInv
<1>2. CASE Added(c) \/ try[Event(c)].state # "trying"
  BY <1>1, <1>2 DEF DeliveryInv, NumberedFirst
<1>3. ASSUME UNCHANGED <<arrivals, try>> PROVE call'[c].stage = "granted"
  BY <1>2, <1>3 DEF Added, Event
<1>4. ASSUME NEW d \in Callers, Buffered(d) PROVE call'[c].stage = "granted"
  <2>1. /\ arrivals' = Append(arrivals, [by |-> d, number |-> call[d].number])
        /\ try' = try /\ call[d].stage = "granted"
    BY <1>4 DEF Buffered, AddEvent, retryVars
  <2>2. CASE c = d
    BY <1>1, <2>1, <2>2
  <2>3. CASE c # d
    <3>1. Added(c)' => Added(c)
      BY <2>1, <2>3, AppendedBy DEF Added, DeliveryInv, ArrivalsAreEvents
    <3> QED
      BY <1>2, <2>1, <3>1 DEF Event
  <2> QED
    BY <2>2, <2>3
<1>5. ASSUME NEW d \in Callers, NEW leg \in Legs, Emit(d, leg) \/ EmitFails(d, leg)
      PROVE  call'[c].stage = "granted"
  <2>1. arrivals' = arrivals /\ Due(d, leg)
    BY <1>5 DEF Emit, EmitFails, bufferVars
  <2>2. CASE <<d, leg>> = Event(c)
    <3>1. Added(c)
      BY <2>1, <2>2 DEF Due, Event
    <3> QED
      BY <1>2, <3>1
  <2>3. CASE <<d, leg>> # Event(c)
    <3>1. try'[Event(c)] = try[Event(c)]
      BY <1>5, <2>3, AttemptEffect, Pairs DEF DeliveryInv
    <3> QED
      BY <1>2, <2>1, <3>1 DEF Added, Event
  <2> QED
    BY <2>2, <2>3
<1>6. CASE Restart
  <2>1. arrivals' = <<>>
    BY <1>6 DEF Restart, BuffersAreLost
  <2>2. ~Added(c)'
    BY <2>1 DEF Added, Range
  <2>3. CASE try'[Event(c)] = try[Event(c)]
    BY <1>2, <2>2, <2>3 DEF Event
  <2>4. CASE try'[Event(c)] # try[Event(c)]
    <3>1. CallsAreLost({o \in Operations : call[o[1]].stage = "granted"})
      BY <1>6 DEF Restart
    <3>2. call[c].stage = "granted"
      BY <2>4, <3>1, Pairs DEF CallsAreLost, DeliveryInv, PublishInv
    <3> QED
      BY <1>1, <3>2
  <2> QED
    BY <2>3, <2>4
<1>7. CASE BufferTimer
  <2>1. UNCHANGED <<arrivals, try>>
    BY <1>7 DEF BufferTimer, EventProcessed, CleanUp, retryVars
  <2> QED
    BY <1>3, <2>1
<1>8. CASE (\E d \in Callers : TakeNumber(d) \/ NumberFails(d)) \/ UNCHANGED publisherVars
  <2>1. UNCHANGED <<arrivals, try>>
    BY <1>8 DEF TakeNumber, NumberFails, publisherVars, bufferVars, retryVars
  <2> QED
    BY <1>3, <2>1
<1> QED
  BY <1>4, <1>5, <1>6, <1>7, <1>8 DEF PublisherNext, PublisherStep

-------------------------------------------------------------------------------
outcomes == [c \in Callers |-> Outcome(c)]
eventCopies == [c \in Callers |-> copies[<<c, "event">>]]
noticeCopies == [c \in Callers |-> copies[<<c, "notification">>]]

\* How a publish that may have its number stands, told by its two calls.
LEMMA OutcomeStates ==
  ASSUME PublishInv, NEW c \in Callers, call[c].stage # "failed"
  PROVE  /\ Outcome(c) = "open" <=>
              \/ try[Event(c)].state = "trying"
              \/ try[Event(c)].state = "done" /\ try[Notice(c)].state = "trying"
         /\ Outcome(c) = "sent" <=> try[Notice(c)].state = "done"
         /\ Outcome(c) \in {"open", "sent", "failed"}
<1>1. /\ try[Event(c)] \in Try
      /\ try[Notice(c)] \in Try
  BY Pairs DEF PublishInv
<1>2. /\ try[Event(c)].state # "done" => try[Notice(c)].state \in {"trying", "lost"}
      /\ try[Event(c)].state = "trying" => try[Notice(c)].state = "trying"
  BY DEF PublishInv
<1> QED
  BY <1>1, <1>2 DEF Outcome, Legs, Try, Event, Notice

\* The same of the next state.
LEMMA OutcomeStatesNext ==
  ASSUME PublishInv', NEW c \in Callers, call'[c].stage # "failed"
  PROVE  /\ Outcome(c)' = "open" <=>
              \/ try'[Event(c)].state = "trying"
              \/ try'[Event(c)].state = "done" /\ try'[Notice(c)].state = "trying"
         /\ Outcome(c)' = "sent" <=> try'[Notice(c)].state = "done"
         /\ Outcome(c)' \in {"open", "sent", "failed"}
<1>1. /\ try'[Event(c)] \in Try
      /\ try'[Notice(c)] \in Try
  BY Pairs DEF PublishInv
<1>2. /\ try'[Event(c)].state # "done" => try'[Notice(c)].state \in {"trying", "lost"}
      /\ try'[Event(c)].state = "trying" => try'[Notice(c)].state = "trying"
  BY DEF PublishInv
<1> QED
  BY <1>1, <1>2 DEF Outcome, Legs, Try, Event, Notice

LEMMA AttemptDelivers ==
  ASSUME PublishInv, PublishInv', NumberedFirst, NEW c \in Callers, NEW leg \in Legs,
         Emit(c, leg) \/ EmitFails(c, leg)
  PROVE  Delivery!DeliveryNext \/ UNCHANGED <<outcomes, eventCopies, noticeCopies>>
<1> DEFINE o == <<c, leg>>
<1>1. /\ o \in Operations
      /\ try[o].state = "trying"
      /\ leg = "notification" => try[Event(c)].state = "done"
      /\ \A other \in Operations : other # o =>
           try'[other] = try[other] /\ copies'[other] = copies[other]
      /\ copies[o] < MaxRetries + 1
      /\ copies'[o] \in {copies[o], copies[o] + 1}
      /\ try'[o].state = "done" => copies'[o] = copies[o] + 1
  <2>1. copies[o] <= MaxRetries /\ copies[o] \in Nat
    BY AttemptEffect DEF PublishInv
  <2> QED
    BY <2>1, RetriesAssumption, AttemptEffect
<1>0. call' = call /\ call[c].stage = "granted"
  <2>1. call' = call /\ Due(c, leg)
    BY DEF Emit, EmitFails, sequenceVars
  <2> QED
    BY <2>1 DEF Due, NumberedFirst, Legs, Event
<1>2. \A d \in Callers : d # c =>
        /\ Outcome(d)' = Outcome(d)
        /\ copies'[Event(d)] = copies[Event(d)]
        /\ copies'[Notice(d)] = copies[Notice(d)]
  BY <1>0, <1>1, Pairs DEF Outcome, Legs, Event, Notice
<1>3. /\ Outcome(c) = "open"
      /\ Outcome(c)' \in {"open", "sent", "failed"}
  BY <1>0, <1>1, OutcomeStates, OutcomeStatesNext DEF Legs, Event, Notice
<1>4. outcomes' = [outcomes EXCEPT ![c] = Outcome(c)']
  <2>1. ASSUME NEW d \in Callers
        PROVE  Outcome(d)' = [outcomes EXCEPT ![c] = Outcome(c)'][d]
    BY <1>2 DEF outcomes
  <2> QED
    BY <2>1 DEF outcomes
<1>5. CASE leg = "event"
  <2>1. /\ Outcome(c)' \in {"open", "failed"}
        /\ copies[Notice(c)] = 0
        /\ copies'[Notice(c)] = copies[Notice(c)]
        /\ o = Event(c)
    <3>1. try[Notice(c)].state = "trying" /\ copies[Notice(c)] = 0
      BY <1>1, <1>5 DEF PublishInv, Event
    <3> QED
      BY <1>0, <1>1, <1>3, <1>5, <3>1, OutcomeStatesNext, Pairs DEF Event, Notice
  <2>2. noticeCopies' = noticeCopies
    BY <1>2, <2>1 DEF noticeCopies, Notice
  <2>3. outcomes' \in {outcomes, [outcomes EXCEPT ![c] = "failed"]}
    BY <1>3, <1>4, <2>1 DEF outcomes
  <2>4. CASE copies'[o] = copies[o] + 1
    <3>1. eventCopies' = [eventCopies EXCEPT ![c] = @ + 1]
      BY <1>2, <2>1, <2>4 DEF eventCopies, Event
    <3>2. Delivery!PutEvent(c)
      BY <1>1, <1>3, <2>1, <2>2, <2>3, <3>1
      DEF Delivery!PutEvent, outcomes, eventCopies, noticeCopies, Event, Notice
    <3> QED
      BY <3>2 DEF Delivery!DeliveryNext
  <2>5. CASE copies'[o] = copies[o]
    <3>1. eventCopies' = eventCopies
      BY <1>2, <2>1, <2>5 DEF eventCopies, Event
    <3>2. CASE outcomes' = outcomes
      BY <2>2, <3>1, <3>2
    <3>3. CASE outcomes' = [outcomes EXCEPT ![c] = "failed"]
      <4>1. Delivery!GiveUp({c})
        BY <1>3, <2>2, <3>1, <3>3
        DEF Delivery!GiveUp, outcomes, eventCopies, noticeCopies
      <4> QED
        BY <4>1 DEF Delivery!DeliveryNext
    <3> QED
      BY <2>3, <3>2, <3>3
  <2> QED
    BY <1>1, <2>4, <2>5
<1>6. CASE leg = "notification"
  <2>1. /\ copies[Event(c)] > 0
        /\ copies'[Event(c)] = copies[Event(c)]
        /\ o = Notice(c)
        /\ Outcome(c)' = "sent" => copies'[o] = copies[o] + 1
    BY <1>0, <1>1, <1>6, OutcomeStatesNext, Pairs DEF PublishInv, Notice
  <2>2. eventCopies' = eventCopies
    BY <1>2, <2>1 DEF eventCopies, Event
  <2>3. CASE copies'[o] = copies[o] + 1
    <3>1. noticeCopies' = [noticeCopies EXCEPT ![c] = @ + 1]
      BY <1>2, <2>1, <2>3 DEF noticeCopies, Notice
    <3>2. Delivery!PutNotice(c)
      BY <1>1, <1>3, <1>4, <2>1, <2>2, <3>1
      DEF Delivery!PutNotice, outcomes, eventCopies, noticeCopies, Event, Notice
    <3> QED
      BY <3>2 DEF Delivery!DeliveryNext
  <2>4. CASE copies'[o] = copies[o]
    <3>1. noticeCopies' = noticeCopies
      BY <1>2, <2>1, <2>4 DEF noticeCopies, Notice
    <3>2. Outcome(c)' \in {"open", "failed"}
      <4>1. copies[o] \in Nat
        BY <1>1 DEF PublishInv
      <4> QED
        BY <1>3, <2>1, <2>4, <4>1
    <3>3. CASE Outcome(c)' = "open"
      BY <1>3, <1>4, <2>2, <3>1, <3>3 DEF outcomes
    <3>4. CASE Outcome(c)' = "failed"
      <4>1. Delivery!GiveUp({c})
        BY <1>3, <1>4, <2>2, <3>1, <3>4
        DEF Delivery!GiveUp, outcomes, eventCopies, noticeCopies
      <4> QED
        BY <4>1 DEF Delivery!DeliveryNext
    <3> QED
      BY <3>2, <3>3, <3>4
  <2> QED
    BY <1>1, <2>3, <2>4
<1> QED
  BY <1>5, <1>6 DEF Legs

\* A step that sends nothing gives up any number of publishes at most.
LEMMA OthersGiveUp ==
  ASSUME PublishInv, PublishInv', NumberedFirst, copies' = copies,
         \A c \in Callers : call[c].stage \in {"granted", "failed"} => call'[c].stage = call[c].stage,
         \A c \in Callers :
           \/ try'[Event(c)] = try[Event(c)] /\ try'[Notice(c)] = try[Notice(c)]
           \/ \A o \in {Event(c), Notice(c)} :
                /\ try[o].state = "trying" => try'[o].state = "lost"
                /\ try[o].state # "trying" => try'[o] = try[o]
  PROVE  Delivery!DeliveryNext
<1> DEFINE cut == {c \in Callers : Outcome(c) = "open" /\ Outcome(c)' # "open"}
<1>1. eventCopies' = eventCopies /\ noticeCopies' = noticeCopies
  BY DEF eventCopies, noticeCopies
<1>2. ASSUME NEW c \in Callers
      PROVE  Outcome(c)' = IF c \in cut THEN "failed" ELSE Outcome(c)
  <2>1. CASE call[c].stage \in {"granted", "failed"}
              /\ try'[Event(c)] = try[Event(c)] /\ try'[Notice(c)] = try[Notice(c)]
    BY <2>1 DEF Outcome, Legs, Event, Notice
  <2>2. CASE call[c].stage = "granted" /\ \A o \in {Event(c), Notice(c)} :
               /\ try[o].state = "trying" => try'[o].state = "lost"
               /\ try[o].state # "trying" => try'[o] = try[o]
    BY <2>2, OutcomeStates, OutcomeStatesNext
  <2>3. CASE call[c].stage # "granted"
    <3>1. /\ try[Event(c)].state = "trying" /\ try[Notice(c)].state = "trying"
          /\ try'[Notice(c)].state \in {"trying", "lost"}
      BY <2>3 DEF NumberedFirst, PublishInv
    <3>2. Outcome(c) = IF call[c].stage = "failed" THEN "failed" ELSE "open"
      BY <3>1 DEF Outcome, Legs, Event, Notice
    <3>3. call[c].stage = "failed" => call'[c].stage = "failed"
      OBVIOUS
    <3>4. Outcome(c)' \in {"open", "failed"} /\ (call'[c].stage = "failed" => Outcome(c)' = "failed")
      BY <3>1 DEF Outcome, Notice
    <3> QED
      BY <3>2, <3>3, <3>4
  <2> QED
    BY <2>1, <2>2, <2>3
<1>3. outcomes' = [c \in Callers |-> IF c \in cut THEN "failed" ELSE outcomes[c]]
  BY <1>2 DEF outcomes
<1>4. Delivery!GiveUp(cut)
  BY <1>1, <1>3 DEF Delivery!GiveUp, outcomes, eventCopies, noticeCopies
<1> QED
  BY <1>4 DEF Delivery!DeliveryNext

\* A publish keeps its promise about the queues for any number of publishers,
\* retries, errors and restarts.
THEOREM PublishingDelivers == PublisherSpec => KeepsDelivery
<1>1. PublisherInit => DeliveryInv /\ Delivery!DeliveryInit
  <2> SUFFICES ASSUME PublisherInit PROVE NumberedFirst /\ Delivery!DeliveryInit
    BY PublishInit, NumberInit DEF DeliveryInv, ArrivalsAreEvents, PublisherInit, BufferInit
  <2>1. \A o \in Operations : try[o].state = "trying" /\ copies[o] = 0
    BY DEF PublisherInit, RetryInit
  <2>2. ASSUME NEW c \in Callers
        PROVE  Outcome(c) = "open" /\ copies[<<c, "event">>] = 0 /\ copies[<<c, "notification">>] = 0
    <3>1. call[c] = [stage |-> "ready", number |-> 0, column |-> 0, seen |-> 0, creates |-> FALSE]
      BY Zenon DEF PublisherInit, SequenceInit
    <3>2. call[c].stage # "failed"
      BY <3>1
    <3> QED
      BY <2>1, <3>2, Pairs, PublishInit, OutcomeStates DEF Event, Notice
  <2>3. \A c \in Callers : ~Added(c)
    BY DEF PublisherInit, BufferInit, Added, Range
  <2> QED
    BY <2>1, <2>2, <2>3, Pairs DEF Delivery!DeliveryInit, NumberedFirst
<1>2. DeliveryInv /\ [PublisherNext]_publisherVars => DeliveryInv'
  BY NumberNext, PublishNext, ArrivalsNext, NumberedFirstNext DEF DeliveryInv, NumberInv
<1>3. DeliveryInv /\ DeliveryInv' /\ [PublisherNext]_publisherVars
        => [Delivery!DeliveryNext]_(Delivery!deliveryVars)
  <2> SUFFICES ASSUME DeliveryInv, DeliveryInv', [PublisherNext]_publisherVars
               PROVE  Delivery!DeliveryNext \/ UNCHANGED <<outcomes, eventCopies, noticeCopies>>
    BY DEF Delivery!deliveryVars, outcomes, eventCopies, noticeCopies
  <2>1. CASE \E c \in Callers, leg \in Legs : Emit(c, leg) \/ EmitFails(c, leg)
    BY <2>1, AttemptDelivers DEF DeliveryInv
  <2>0. \A c \in Callers : call[c].stage \in {"granted", "failed"} => call'[c].stage = call[c].stage
    BY StageSteps DEF DeliveryInv, NumberInv
  <2>2. CASE Restart
    BY <2>0, <2>2, RestartEffect, OthersGiveUp DEF DeliveryInv
  <2>3. CASE UNCHANGED <<try, copies>>
    BY <2>0, <2>3, OthersGiveUp DEF DeliveryInv
  <2> QED
    BY <2>1, <2>2, <2>3 DEF PublisherNext, PublisherStep, publisherVars, retryVars, TakeNumber,
                            NumberFails, Buffered, BufferTimer
<1> QED
  BY <1>1, <1>2, <1>3, PTL DEF PublisherSpec, KeepsDelivery, Delivery!DeliverySpec
-------------------------------------------------------------------------------
(* The waits between attempts *)

\* Every value of Math.random(), in thousandths.
Jitters == 0 .. 999

Within(delay, low, high) == delay \in Nat /\ low <= delay /\ delay < high

LEMMA Powers ==
  /\ 3 ^ 0 = 1 /\ 3 ^ 1 = 3 /\ 3 ^ 2 = 9 /\ 3 ^ 3 = 27 /\ 3 ^ 4 = 81
  /\ 2 ^ 0 = 1 /\ 2 ^ 1 = 2 /\ 2 ^ 2 = 4 /\ 2 ^ 3 = 8 /\ 2 ^ 4 = 16
  /\ 1 ^ 0 = 1 /\ 1 ^ 1 = 1 /\ 1 ^ 2 = 1
OBVIOUS

\* The waits of a policy that doubles them and is not cut off by its cap lie in
\* ranges one behind the other, and the jitter does not lead out of a range.
LEMMA DoublingGrows ==
  ASSUME NEW base \in {1000, 2000}, NEW max \in {15000, 20000, 30000}, base * 5 <= max
  PROVE  OrderBacksOff(Policy(3, base, max, 2, 1), Jitters)
<1>1. PICK policy : policy = Policy(3, base, max, 2, 1)
  OBVIOUS
<1>2. policy.retries - 1 = 2 /\ policy.max = max
  BY <1>1 DEF Policy
<1>3. SUFFICES ASSUME NEW attempt \in 0..2, NEW draw \in Jitters, NEW other \in Jitters
               PROVE  /\ OrderDelay(policy, attempt, draw) <= policy.max
                      /\ attempt > 0 => OrderDelay(policy, attempt - 1, other)
                                          < OrderDelay(policy, attempt, draw)
  BY <1>1, <1>2 DEF OrderBacksOff
<1>4. ASSUME NEW d \in Jitters
      PROVE  /\ Within(OrderDelay(policy, 0, d), base, 2 * base)
             /\ Within(OrderDelay(policy, 1, d), 2 * base, 4 * base)
             /\ Within(OrderDelay(policy, 2, d), 4 * base, 5 * base)
  <2>1. /\ OrderDelay(policy, 0, d) = (base * (10000 + d)) \div 10000
        /\ OrderDelay(policy, 1, d) = (2 * base * (10000 + d)) \div 10000
        /\ OrderDelay(policy, 2, d) = (4 * base * (10000 + d)) \div 10000
    BY <1>1, Powers DEF OrderDelay, Grown, Policy, Smaller, Jitters
  <2>2. Within((base * (10000 + d)) \div 10000, base, 2 * base)
    BY DEF Jitters, Within
  <2>3. Within((2 * base * (10000 + d)) \div 10000, 2 * base, 4 * base)
    BY DEF Jitters, Within
  <2>4. Within((4 * base * (10000 + d)) \div 10000, 4 * base, 5 * base)
    BY DEF Jitters, Within
  <2> QED
    BY <2>1, <2>2, <2>3, <2>4
<1>5. CASE attempt = 0
  <2>1. OrderDelay(policy, 0, draw) <= policy.max
    BY <1>2, <1>4 DEF Within
  <2> QED
    BY <1>5, <2>1
<1>6. CASE attempt = 1
  <2>1. attempt - 1 = 0
    BY <1>6
  <2>2. /\ OrderDelay(policy, 1, draw) <= policy.max
        /\ OrderDelay(policy, 0, other) < OrderDelay(policy, 1, draw)
    BY <1>2, <1>4 DEF Within
  <2> QED
    BY <1>6, <2>1, <2>2
<1>7. CASE attempt = 2
  <2>1. attempt - 1 = 1
    BY <1>7
  <2>2. /\ OrderDelay(policy, 2, draw) <= policy.max
        /\ OrderDelay(policy, 1, other) < OrderDelay(policy, 2, draw)
    BY <1>2, <1>4 DEF Within
  <2> QED
    BY <1>7, <2>1, <2>2
<1> QED
  BY <1>5, <1>6, <1>7

\* The database policy grows by one half at a time, through five retries.
LEMMA DatabaseGrows == OrderBacksOff(Policy(5, 500, 10000, 3, 2), Jitters)
<1>1. PICK policy : policy = Policy(5, 500, 10000, 3, 2)
  OBVIOUS
<1>2. policy.retries - 1 = 4 /\ policy.max = 10000
  BY <1>1 DEF Policy
<1>3. SUFFICES ASSUME NEW attempt \in 0..4, NEW draw \in Jitters, NEW other \in Jitters
               PROVE  /\ OrderDelay(policy, attempt, draw) <= policy.max
                      /\ attempt > 0 => OrderDelay(policy, attempt - 1, other)
                                          < OrderDelay(policy, attempt, draw)
  BY <1>1, <1>2 DEF OrderBacksOff
<1>4. ASSUME NEW d \in Jitters
      PROVE  /\ Within(OrderDelay(policy, 0, d), 500, 750)
             /\ Within(OrderDelay(policy, 1, d), 750, 1125)
             /\ Within(OrderDelay(policy, 2, d), 1125, 1687)
             /\ Within(OrderDelay(policy, 3, d), 1687, 2531)
             /\ Within(OrderDelay(policy, 4, d), 2531, 3000)
  <2>1. /\ OrderDelay(policy, 0, d) = (500 * (10000 + d)) \div 10000
        /\ OrderDelay(policy, 1, d) = (1500 * (10000 + d)) \div 20000
        /\ OrderDelay(policy, 2, d) = (4500 * (10000 + d)) \div 40000
        /\ OrderDelay(policy, 3, d) = (13500 * (10000 + d)) \div 80000
        /\ OrderDelay(policy, 4, d) = (40500 * (10000 + d)) \div 160000
    BY <1>1, Powers DEF OrderDelay, Grown, Policy, Smaller, Jitters
  <2>2. /\ Within((500 * (10000 + d)) \div 10000, 500, 750)
        /\ Within((1500 * (10000 + d)) \div 20000, 750, 1125)
        /\ Within((4500 * (10000 + d)) \div 40000, 1125, 1687)
        /\ Within((13500 * (10000 + d)) \div 80000, 1687, 2531)
        /\ Within((40500 * (10000 + d)) \div 160000, 2531, 3000)
    BY DEF Jitters, Within
  <2> QED
    BY <2>1, <2>2
<1>5. CASE attempt = 0
  <2>1. OrderDelay(policy, 0, draw) <= policy.max
    BY <1>2, <1>4 DEF Within
  <2> QED
    BY <1>5, <2>1
<1>6. CASE attempt = 1
  <2>1. attempt - 1 = 0
    BY <1>6
  <2>2. /\ OrderDelay(policy, 1, draw) <= policy.max
        /\ OrderDelay(policy, 0, other) < OrderDelay(policy, 1, draw)
    BY <1>2, <1>4 DEF Within
  <2> QED
    BY <1>6, <2>1, <2>2
<1>7. CASE attempt = 2
  <2>1. attempt - 1 = 1
    BY <1>7
  <2>2. /\ OrderDelay(policy, 2, draw) <= policy.max
        /\ OrderDelay(policy, 1, other) < OrderDelay(policy, 2, draw)
    BY <1>2, <1>4 DEF Within
  <2> QED
    BY <1>7, <2>1, <2>2
<1>8. CASE attempt = 3
  <2>1. attempt - 1 = 2
    BY <1>8
  <2>2. /\ OrderDelay(policy, 3, draw) <= policy.max
        /\ OrderDelay(policy, 2, other) < OrderDelay(policy, 3, draw)
    BY <1>2, <1>4 DEF Within
  <2> QED
    BY <1>8, <2>1, <2>2
<1>9. CASE attempt = 4
  <2>1. attempt - 1 = 3
    BY <1>9
  <2>2. /\ OrderDelay(policy, 4, draw) <= policy.max
        /\ OrderDelay(policy, 3, other) < OrderDelay(policy, 4, draw)
    BY <1>2, <1>4 DEF Within
  <2> QED
    BY <1>9, <2>1, <2>2
<1> QED
  BY <1>5, <1>6, <1>7, <1>8, <1>9

\* No wait of the Inventory Service comes near the cap that cuts off the jitter.
LEMMA InventoryGrows == InventoryBacksOff(InventoryPolicy, Jitters)
<1>1. InventoryPolicy.retries - 1 = 2 /\ InventoryPolicy.max = 30000
  BY DEF InventoryPolicy, Policy
<1>2. SUFFICES ASSUME NEW attempt \in 0..2, NEW draw \in Jitters, NEW other \in Jitters
               PROVE  /\ InventoryDelay(InventoryPolicy, attempt, draw) <= InventoryPolicy.max
                      /\ attempt > 0 => InventoryDelay(InventoryPolicy, attempt - 1, other)
                                          < InventoryDelay(InventoryPolicy, attempt, draw)
  BY <1>1 DEF InventoryBacksOff
<1>3. ASSUME NEW d \in Jitters
      PROVE  /\ Within(InventoryDelay(InventoryPolicy, 0, d), 1000, 2000)
             /\ Within(InventoryDelay(InventoryPolicy, 1, d), 2000, 4000)
             /\ Within(InventoryDelay(InventoryPolicy, 2, d), 4000, 5000)
  BY Powers DEF InventoryDelay, InventoryPolicy, Grown, Policy, Smaller, Jitters, Within
<1>4. CASE attempt = 0
  <2>1. InventoryDelay(InventoryPolicy, 0, draw) <= InventoryPolicy.max
    BY <1>1, <1>3 DEF Within
  <2> QED
    BY <1>4, <2>1
<1>5. CASE attempt = 1
  <2>1. attempt - 1 = 0
    BY <1>5
  <2>2. /\ InventoryDelay(InventoryPolicy, 1, draw) <= InventoryPolicy.max
        /\ InventoryDelay(InventoryPolicy, 0, other) < InventoryDelay(InventoryPolicy, 1, draw)
    BY <1>1, <1>3 DEF Within
  <2> QED
    BY <1>5, <2>1, <2>2
<1>6. CASE attempt = 2
  <2>1. attempt - 1 = 1
    BY <1>6
  <2>2. /\ InventoryDelay(InventoryPolicy, 2, draw) <= InventoryPolicy.max
        /\ InventoryDelay(InventoryPolicy, 1, other) < InventoryDelay(InventoryPolicy, 2, draw)
    BY <1>1, <1>3 DEF Within
  <2> QED
    BY <1>6, <2>1, <2>2
<1> QED
  BY <1>4, <1>5, <1>6

\* In every policy the services ship a later wait is the longer one and none is
\* above the cap, for all the values of the jitter and not only those that the
\* run tries.
THEOREM EveryJitterBacksOff == PoliciesBackOff(Jitters)
<1>1. OrderBacksOff(Policy(3, 1000, 15000, 2, 1), Jitters)
  BY DoublingGrows
<1>2. OrderBacksOff(Policy(3, 2000, 20000, 2, 1), Jitters)
  BY DoublingGrows
<1>3. OrderBacksOff(Policy(3, 1000, 30000, 2, 1), Jitters)
  BY DoublingGrows
<1> QED
  BY <1>1, <1>2, <1>3, DatabaseGrows, InventoryGrows DEF PoliciesBackOff, OrderPolicies

\* No call of a publish repeats more often than the policy allows, and the waits
\* between its attempts grow, through errors, lost confirmations and restarts.
THEOREM RetriesThinOut == PublisherSpec => []RetriesBackOff
<1>1. PublishInv => \A o \in Operations : try[o].attempt <= MaxRetries
  BY RetriesAssumption DEF PublishInv, Try
<1>2. WaitsGrow
  <2>1. Draws \subseteq Jitters
    BY DEF Draws, Jitters
  <2> QED
    BY <2>1, EveryJitterBacksOff DEF WaitsGrow, PoliciesBackOff, OrderBacksOff, InventoryBacksOff
<1>3. PublishInv => RetriesBackOff
  BY <1>1, <1>2 DEF RetriesBackOff
<1>4. PublisherInit => PublishInv
  BY PublishInit
<1>5. PublishInv /\ [PublisherNext]_publisherVars => PublishInv'
  BY PublishNext
<1> QED
  BY <1>3, <1>4, <1>5, PTL DEF PublisherSpec
===============================================================================
