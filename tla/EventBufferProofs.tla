---------------------------- MODULE EventBufferProofs ----------------------------
(***************************************************************************)
(* What the event buffer does with the events of the publishers, for any   *)
(* number of them, of loops at work on one buffer, of clean-ups and of     *)
(* restarts: nothing that could be processed is kept back, an event is     *)
(* lost only to one that overtook it, none is processed twice, and events  *)
(* that arrive in order keep it.                                           *)
(***************************************************************************)
EXTENDS EventPublisherProofs, SequenceTheorems, WellFoundedInduction

Numbered == [by : Callers, number : Nat]
Kept == [pending : Seq(Numbered), last : Nat]
Run == [by : Callers, buffer : Nat, event : Numbered]

BufferTypeOK ==
  /\ buffers \in Seq(Kept)
  /\ current \in 0 .. Len(buffers)
  /\ runs \in Seq(Run)
  /\ \A i \in DOMAIN runs : runs[i].buffer \in DOMAIN buffers
  /\ arrivals \in Seq(Numbered)
  /\ processed \in Seq(Numbered)

-------------------------------------------------------------------------------
(* Sequences *)

LEMMA LeastIndex ==
  ASSUME NEW T, T \subseteq Nat, T # {}
  PROVE  \E i \in T : \A j \in T : i <= j
<1> DEFINE Less == {ss \in Nat \X Nat : ss[1] < ss[2]}
<1>1. IsWellFoundedOn(Less, Nat)
  BY NatLessThanWellFounded DEF OpToRel
<1> HIDE DEF Less
<1>2. PICK i \in T : \A j \in T : <<j, i>> \notin Less
  BY <1>1, WFMin
<1>3. ASSUME NEW j \in T PROVE i <= j
  <2>1. i \in Nat /\ j \in Nat /\ <<j, i>> \notin Less
    BY <1>2
  <2>2. j < i => <<j, i>> \in Less
    BY <2>1 DEF Less
  <2> QED
    BY <2>1, <2>2
<1> QED
  BY <1>3

\* The place of a number always exists.
LEMMA FirstAboveIs ==
  ASSUME NEW events \in Seq(Numbered), NEW number \in Nat
  PROVE  /\ FirstAbove(events, number) \in 1 .. Len(events) + 1
         /\ \A j \in 1 .. FirstAbove(events, number) - 1 : events[j].number <= number
         /\ FirstAbove(events, number) <= Len(events) => events[FirstAbove(events, number)].number > number
<1> DEFINE T == {i \in 1 .. Len(events) : events[i].number > number}
           Place(i) == /\ \A j \in 1 .. i - 1 : events[j].number <= number
                       /\ i <= Len(events) => events[i].number > number
<1>1. Len(events) \in Nat /\ \A i \in 1 .. Len(events) : events[i] \in Numbered /\ events[i].number \in Nat
  <2>1. \A i \in 1 .. Len(events) : events[i] \in Numbered
    OBVIOUS
  <2> QED
    BY <2>1 DEF Numbered
<1>2. \E i \in 1 .. Len(events) + 1 : Place(i)
  <2>1. CASE T = {}
    <3>1. Place(Len(events) + 1)
      BY <1>1, <2>1
    <3> QED
      BY <1>1, <3>1
  <2>2. CASE T # {}
    <3>1. T \subseteq Nat
      OBVIOUS
    <3> HIDE DEF T
    <3>2. PICK i \in T : \A j \in T : i <= j
      BY <2>2, <3>1, LeastIndex
    <3>3. i \in 1 .. Len(events) /\ Place(i)
      BY <1>1, <3>2 DEF T
    <3> QED
      BY <1>1, <3>3
  <2> QED
    BY <2>1, <2>2
<1>3. FirstAbove(events, number) = CHOOSE i \in 1 .. Len(events) + 1 : Place(i)
  BY DEF FirstAbove
<1> HIDE DEF Place
<1>4. FirstAbove(events, number) \in 1 .. Len(events) + 1 /\ Place(FirstAbove(events, number))
  BY <1>2, <1>3
<1> QED
  BY <1>4 DEF Place

\* An event is sorted in at its place, and the others keep their order.
LEMMA SortedInIs ==
  ASSUME NEW pending \in Seq(Numbered), NEW event \in Numbered
  PROVE  LET sorted == SortedIn(pending, event)
             i == FirstAbove(pending, event.number)
         IN  /\ sorted \in Seq(Numbered) /\ Len(sorted) = Len(pending) + 1
             /\ sorted[i] = event
             /\ \A j \in 1 .. i - 1 : sorted[j] = pending[j]
             /\ \A j \in i .. Len(pending) : sorted[j + 1] = pending[j]
<1>1. PICK i \in 1 .. Len(pending) + 1 : i = FirstAbove(pending, event.number)
  BY FirstAboveIs DEF Numbered
<1> DEFINE low == SubSeq(pending, 1, i - 1)
           high == SubSeq(pending, i, Len(pending))
<1>2. Len(pending) \in Nat /\ i \in Nat /\ \A j \in 1 .. Len(pending) : pending[j] \in Numbered
  OBVIOUS
<1>3. /\ low \in Seq(Numbered) /\ Len(low) = i - 1 /\ \A j \in 1 .. i - 1 : low[j] = pending[j]
  <2>1. \A j \in 1 .. i - 1 : pending[j] \in Numbered
    BY <1>2
  <2>2. /\ low \in Seq(Numbered) /\ Len(low) = IF 1 <= i - 1 THEN i - 1 - 1 + 1 ELSE 0
        /\ \A j \in 1 .. i - 1 - 1 + 1 : low[j] = pending[1 + j - 1]
    BY <1>2, <2>1, SubSeqProperties
  <2> QED
    BY <1>2, <2>2
<1>4. /\ high \in Seq(Numbered) /\ Len(high) = Len(pending) - i + 1
      /\ \A j \in 1 .. Len(pending) - i + 1 : high[j] = pending[i + j - 1]
  <2>1. \A j \in i .. Len(pending) : pending[j] \in Numbered
    BY <1>2
  <2>2. /\ high \in Seq(Numbered) /\ Len(high) = IF i <= Len(pending) THEN Len(pending) - i + 1 ELSE 0
        /\ \A j \in 1 .. Len(pending) - i + 1 : high[j] = pending[i + j - 1]
    BY <1>2, <2>1, SubSeqProperties
  <2> QED
    BY <1>2, <2>2
<1> HIDE DEF low, high
<1>5. /\ low \o <<event>> \in Seq(Numbered) /\ Len(low \o <<event>>) = i
      /\ (low \o <<event>>)[i] = event
      /\ \A j \in 1 .. i - 1 : (low \o <<event>>)[j] = pending[j]
  BY <1>2, <1>3
<1>6. SortedIn(pending, event) = (low \o <<event>>) \o high
  BY <1>1 DEF SortedIn, InsertAt, low, high
<1> DEFINE front == low \o <<event>>
<1> HIDE DEF front
<1>7. /\ front \o high \in Seq(Numbered) /\ Len(front \o high) = i + (Len(pending) - i + 1)
      /\ \A j \in 1 .. i + (Len(pending) - i + 1) : (front \o high)[j] = IF j <= i THEN front[j] ELSE high[j - i]
  BY <1>4, <1>5, ConcatProperties DEF front
<1> DEFINE sorted == front \o high
<1> HIDE DEF sorted
<1>8. /\ sorted \in Seq(Numbered) /\ Len(sorted) = Len(pending) + 1 /\ sorted[i] = event
      /\ \A j \in 1 .. i - 1 : sorted[j] = pending[j]
  <2>1. \A j \in 1 .. i : sorted[j] = front[j]
    BY <1>2, <1>7 DEF sorted
  <2> QED
    BY <1>2, <1>5, <1>7, <2>1 DEF sorted, front
<1>9. \A j \in i .. Len(pending) : sorted[j + 1] = pending[j]
  <2> SUFFICES ASSUME NEW j \in i .. Len(pending) PROVE sorted[j + 1] = pending[j]
    OBVIOUS
  <2>1. /\ j + 1 \in 1 .. i + (Len(pending) - i + 1) /\ ~(j + 1 <= i)
        /\ j + 1 - i \in 1 .. Len(pending) - i + 1 /\ i + (j + 1 - i) - 1 = j
    BY <1>2
  <2> QED
    BY <1>4, <1>7, <2>1 DEF sorted
<1>10. SortedIn(pending, event) = sorted
  BY <1>6 DEF sorted, front
<1> QED
  BY <1>1, <1>8, <1>9, <1>10
\* What is left of pending events once those up to a number are dropped.
LEMMA DueIs ==
  ASSUME NEW pending \in Seq(Numbered), NEW n \in 1 .. Len(pending) + 1
  PROVE  LET due == SubSeq(pending, n, Len(pending))
         IN  /\ due \in Seq(Numbered) /\ Len(due) = Len(pending) - n + 1
             /\ \A j \in 1 .. Len(pending) - n + 1 : due[j] = pending[n + j - 1]
             /\ due = <<>> <=> n = Len(pending) + 1
<1> DEFINE due == SubSeq(pending, n, Len(pending))
<1>1. Len(pending) \in Nat /\ n \in Nat /\ \A j \in n .. Len(pending) : pending[j] \in Numbered
  OBVIOUS
<1>2. /\ due \in Seq(Numbered) /\ Len(due) = IF n <= Len(pending) THEN Len(pending) - n + 1 ELSE 0
      /\ \A j \in 1 .. Len(pending) - n + 1 : due[j] = pending[n + j - 1]
  BY <1>1, SubSeqProperties
<1> HIDE DEF due
<1>3. Len(due) = Len(pending) - n + 1 /\ (due = <<>> <=> Len(due) = 0)
  BY <1>1, <1>2
<1> QED
  BY <1>1, <1>2, <1>3 DEF due

-------------------------------------------------------------------------------
(* The loop *)

\* What the loop on buffer b did, when it started with these pending events
\* behind the number last and dropped those before the n-th: it waits for a
\* missing event, or took the n-th to process it.
Waited(b, pending, last, others, n) ==
  /\ runs' = others
  /\ Len(buffers'[b].pending) = Len(pending) - n + 1
  /\ \A j \in DOMAIN buffers'[b].pending : buffers'[b].pending[j] = pending[n + j - 1]
  /\ n <= Len(pending) => pending[n].number > last /\ ~Processable(pending[n].number, last)

Took(b, pending, last, by, others, n) ==
  /\ n <= Len(pending) /\ pending[n].number > last
  /\ runs' = Append(others, [by |-> by, buffer |-> b, event |-> pending[n]])
  /\ Len(buffers'[b].pending) = Len(pending) - n
  /\ \A j \in DOMAIN buffers'[b].pending : buffers'[b].pending[j] = pending[n + j]

Looped(b, pending, last, by, others, n) ==
  /\ n \in 1 .. Len(pending) + 1
  /\ \A j \in 1 .. n - 1 : pending[j].number <= last
  /\ b \in DOMAIN buffers' /\ buffers'[b].last = last
  /\ Waited(b, pending, last, others, n) \/ Took(b, pending, last, by, others, n)

LEMMA LoopIs ==
  ASSUME NEW objects \in Seq(Kept), NEW b \in DOMAIN objects, NEW by, NEW others,
         RunLoop(objects, b, by, others)
  PROVE  /\ buffers' \in Seq(Kept) /\ Len(buffers') = Len(objects)
         /\ \A a \in DOMAIN objects \ {b} : buffers'[a] = objects[a]
         /\ \E n \in Nat : Looped(b, objects[b].pending, objects[b].last, by, others, n)
<1>1. PICK pending \in Seq(Numbered), last \in Nat : pending = objects[b].pending /\ last = objects[b].last
  <2>1. objects[b] \in Kept
    OBVIOUS
  <2> QED
    BY <2>1 DEF Kept
<1>2. PICK n \in 1 .. Len(pending) + 1 :
        /\ n = FirstAbove(pending, last)
        /\ \A j \in 1 .. n - 1 : pending[j].number <= last
        /\ n <= Len(pending) => pending[n].number > last
  BY FirstAboveIs
<1>3. PICK due \in Seq(Numbered) :
        /\ due = SubSeq(pending, n, Len(pending)) /\ Len(due) = Len(pending) - n + 1
        /\ \A j \in 1 .. Len(pending) - n + 1 : due[j] = pending[n + j - 1]
        /\ due = <<>> <=> n = Len(pending) + 1
  BY DueIs
<1> DEFINE go == due # <<>> /\ Processable(Head(due).number, last)
<1>4. /\ buffers' = [objects EXCEPT ![b].pending = IF go THEN Tail(due) ELSE due]
      /\ runs' = IF go THEN Append(others, [by |-> by, buffer |-> b, event |-> Head(due)]) ELSE others
  BY <1>1, <1>2, <1>3 DEF RunLoop
<1>5. PICK rest \in Seq(Numbered) : rest = IF go THEN Tail(due) ELSE due
  <2>1. due # <<>> => Tail(due) \in Seq(Numbered)
    OBVIOUS
  <2>2. (IF go THEN Tail(due) ELSE due) \in Seq(Numbered)
    BY <2>1
  <2> QED
    BY <2>2
<1> HIDE DEF go
<1>6. /\ buffers' \in Seq(Kept) /\ Len(buffers') = Len(objects)
      /\ \A a \in DOMAIN objects \ {b} : buffers'[a] = objects[a]
      /\ b \in DOMAIN buffers' /\ buffers'[b].pending = rest /\ buffers'[b].last = last
  <2>1. buffers' = [objects EXCEPT ![b] = [objects[b] EXCEPT !.pending = rest]]
    BY <1>4, <1>5
  <2>2. objects[b] \in Kept /\ DOMAIN objects = 1 .. Len(objects)
    OBVIOUS
  <2>3. PICK kept \in Kept : kept = [objects[b] EXCEPT !.pending = rest] /\ kept.pending = rest /\ kept.last = last
    <3>1. [objects[b] EXCEPT !.pending = rest] \in Kept
      BY <2>2 DEF Kept
    <3>2. [objects[b] EXCEPT !.pending = rest].pending = rest /\ [objects[b] EXCEPT !.pending = rest].last = last
      BY <1>1, <2>2 DEF Kept
    <3> QED
      BY <3>1, <3>2
  <2>4. buffers' = [objects EXCEPT ![b] = kept]
    BY <2>1, <2>3
  <2>5. /\ buffers' \in Seq(Kept) /\ Len(buffers') = Len(objects)
        /\ \A a \in 1 .. Len(objects) : buffers'[a] = IF a = b THEN kept ELSE objects[a]
    BY <2>2, <2>4, ExceptSeq
  <2>6. DOMAIN buffers' = 1 .. Len(objects)
    BY <2>5
  <2> QED
    BY <2>2, <2>3, <2>5, <2>6
<1>7. n \in Nat /\ Len(pending) \in Nat
  OBVIOUS
<1>8. CASE go
  <2>1. n <= Len(pending) /\ Head(due) = due[1] /\ due[1] = pending[n]
    BY <1>3, <1>7, <1>8 DEF go
  <2>2. Len(rest) = Len(pending) - n /\ DOMAIN rest = 1 .. Len(pending) - n
        /\ \A j \in DOMAIN rest : rest[j] = due[j + 1]
    <3>1. rest = Tail(due) /\ due # <<>>
      BY <1>5, <1>8 DEF go
    <3> QED
      BY <1>3, <1>7, <3>1
  <2>3. \A j \in DOMAIN rest : rest[j] = pending[n + j]
    <3> SUFFICES ASSUME NEW j \in DOMAIN rest PROVE rest[j] = pending[n + j]
      OBVIOUS
    <3>1. j + 1 \in 1 .. Len(pending) - n + 1 /\ n + (j + 1) - 1 = n + j
      BY <1>7, <2>2
    <3> QED
      BY <1>3, <2>2, <3>1
  <2>4. Took(b, pending, last, by, others, n)
    BY <1>2, <1>4, <1>6, <1>8, <2>1, <2>2, <2>3 DEF Took
  <2> QED
    BY <1>1, <1>2, <1>6, <1>7, <2>4 DEF Looped
<1>9. CASE ~go
  <2>1. n <= Len(pending) => pending[n].number > last /\ ~Processable(pending[n].number, last)
    <3> SUFFICES ASSUME n <= Len(pending) PROVE ~Processable(pending[n].number, last)
      BY <1>2
    <3>1. due # <<>> /\ Head(due) = due[1] /\ due[1] = pending[n]
      BY <1>3, <1>7
    <3> QED
      BY <1>9, <3>1 DEF go
  <2>2. rest = due /\ DOMAIN rest = 1 .. Len(pending) - n + 1
    BY <1>3, <1>5, <1>9
  <2>3. runs' = others
    BY <1>4, <1>9
  <2>4. buffers'[b].pending = due
    BY <1>6, <2>2
  <2>5. Waited(b, pending, last, others, n)
    BY <1>3, <2>1, <2>2, <2>3, <2>4 DEF Waited
  <2> QED
    BY <1>1, <1>2, <1>6, <1>7, <2>5 DEF Looped
<1> QED
  BY <1>6, <1>8, <1>9
\* What addEvent does before the loop starts: from these pending events, behind
\* the number last, in buffer b.
Opened(b, pending, last) ==
  \/ /\ current = 0
     /\ b = Len(buffers) + 1 /\ pending = <<>> /\ last = 0
  \/ /\ current # 0
     /\ b = current /\ pending = buffers[b].pending /\ last = buffers[b].last

LEMMA AddedIs ==
  ASSUME BufferTypeOK, NEW event \in Numbered, AddEvent(event)
  PROVE  /\ buffers' \in Seq(Kept) /\ current' \in Nat
         /\ arrivals' = Append(arrivals, event) /\ UNCHANGED processed
         /\ \A a \in DOMAIN buffers \ {current'} : a \in DOMAIN buffers' /\ buffers'[a] = buffers[a]
         /\ DOMAIN buffers' = DOMAIN buffers \cup {current'}
         /\ \E n \in Nat, pending \in Seq(Numbered), last \in Nat :
              /\ Opened(current', pending, last)
              /\ Looped(current', SortedIn(pending, event), last, event.by, runs, n)
<1>0. PICK fresh : fresh = IF current = 0 THEN Append(buffers, Buffer(<<>>, 0)) ELSE buffers
  OBVIOUS
<1>1. PICK b \in Nat : b = IF current = 0 THEN Len(fresh) ELSE current
  <2>1. Buffer(<<>>, 0) \in Kept
    BY DEF Buffer, Kept
  <2> QED
    BY <1>0, <2>1 DEF BufferTypeOK
<1>2. /\ RunLoop([fresh EXCEPT ![b].pending = SortedIn(@, event)], b, event.by, runs)
      /\ current' = b /\ arrivals' = Append(arrivals, event) /\ UNCHANGED processed
  BY <1>0, <1>1 DEF AddEvent
<1>3. /\ fresh \in Seq(Kept) /\ b \in DOMAIN fresh
      /\ \A a \in DOMAIN buffers : a \in DOMAIN fresh /\ fresh[a] = buffers[a]
      /\ DOMAIN fresh = DOMAIN buffers \cup {b}
  <2>1. CASE current = 0
    <3>1. Buffer(<<>>, 0) \in Kept
      BY DEF Buffer, Kept
    <3> QED
      BY <1>0, <1>1, <2>1, <3>1 DEF BufferTypeOK
  <2>2. CASE current # 0
    <3>1. fresh = buffers /\ b = current
      BY <1>0, <1>1, <2>2
    <3>2. buffers \in Seq(Kept) /\ DOMAIN buffers = 1 .. Len(buffers) /\ current \in DOMAIN buffers
      BY <2>2 DEF BufferTypeOK
    <3> QED
      BY <3>1, <3>2
  <2> QED
    BY <2>1, <2>2
<1>4. Opened(b, fresh[b].pending, fresh[b].last)
  <2>1. CASE current = 0
    <3>1. b = Len(buffers) + 1 /\ fresh[b] = Buffer(<<>>, 0)
      BY <1>0, <1>1, <2>1 DEF BufferTypeOK
    <3> QED
      BY <2>1, <3>1 DEF Opened, Buffer
  <2>2. CASE current # 0
    BY <1>0, <1>1, <2>2 DEF Opened
  <2> QED
    BY <2>1, <2>2
<1>5. PICK pending \in Seq(Numbered), last \in Nat : pending = fresh[b].pending /\ last = fresh[b].last
  <2>1. fresh[b] \in Kept
    BY <1>3, ElementOfSeq, LenProperties
  <2> QED
    BY <2>1 DEF Kept
<1>6. PICK sorted \in Seq(Numbered) : sorted = SortedIn(pending, event)
  BY SortedInIs
<1>7. PICK kept \in Kept : kept = [fresh[b] EXCEPT !.pending = sorted] /\ kept.pending = sorted /\ kept.last = last
  <2>1. fresh[b] \in Kept
    BY <1>3, ElementOfSeq, LenProperties
  <2>2. [fresh[b] EXCEPT !.pending = sorted] \in Kept
    BY <2>1 DEF Kept
  <2>3. [fresh[b] EXCEPT !.pending = sorted].pending = sorted /\ [fresh[b] EXCEPT !.pending = sorted].last = last
    BY <1>5, <2>1 DEF Kept
  <2> QED
    BY <2>2, <2>3
<1>8. PICK objects : objects = [fresh EXCEPT ![b] = kept]
  OBVIOUS
<1>9. [fresh EXCEPT ![b].pending = SortedIn(@, event)] = objects
  BY <1>5, <1>6, <1>7, <1>8
<1>10. /\ objects \in Seq(Kept) /\ DOMAIN objects = DOMAIN fresh /\ b \in DOMAIN objects /\ objects[b] = kept
       /\ \A a \in DOMAIN fresh \ {b} : objects[a] = fresh[a]
  <2>1. DOMAIN fresh = 1 .. Len(fresh)
    BY <1>3, LenProperties
  <2>2. /\ objects \in Seq(Kept) /\ Len(objects) = Len(fresh)
        /\ \A a \in 1 .. Len(fresh) : objects[a] = IF a = b THEN kept ELSE fresh[a]
    BY <1>3, <1>8, <2>1, ExceptSeq
  <2>3. DOMAIN objects = 1 .. Len(fresh)
    BY <2>2
  <2> QED
    BY <1>3, <2>1, <2>2, <2>3
<1>11. RunLoop(objects, b, event.by, runs)
  BY <1>2, <1>9
<1>12. PICK n \in Nat :
         /\ buffers' \in Seq(Kept) /\ Len(buffers') = Len(objects)
         /\ \A a \in DOMAIN objects \ {b} : buffers'[a] = objects[a]
         /\ Looped(b, sorted, last, event.by, runs, n)
  <2>1. objects[b].pending = sorted /\ objects[b].last = last
    BY <1>7, <1>10
  <2> QED
    BY <1>10, <1>11, <2>1, LoopIs
<1>13. DOMAIN buffers' = DOMAIN objects
  BY <1>10, <1>12
<1> QED
  BY <1>2, <1>3, <1>4, <1>5, <1>6, <1>10, <1>12, <1>13

\* What happens when the oldest timer fires.
LEMMA ProcessedIs ==
  ASSUME BufferTypeOK, EventProcessed
  PROVE  /\ runs # <<>> /\ Head(runs) \in Run /\ Head(runs).buffer \in DOMAIN buffers
         /\ buffers' \in Seq(Kept) /\ DOMAIN buffers' = DOMAIN buffers
         /\ \A a \in DOMAIN buffers \ {Head(runs).buffer} : buffers'[a] = buffers[a]
         /\ processed' = Append(processed, Head(runs).event) /\ UNCHANGED <<current, arrivals>>
         /\ \E n \in Nat :
              Looped(Head(runs).buffer, buffers[Head(runs).buffer].pending, Head(runs).event.number,
                     Head(runs).by, Tail(runs), n)
<1>1. runs # <<>> /\ 1 \in DOMAIN runs /\ Head(runs) = runs[1]
  BY DEF EventProcessed, BufferTypeOK
<1>2. PICK run \in Run : run = Head(runs) /\ run.buffer \in DOMAIN buffers
  BY <1>1 DEF BufferTypeOK
<1>3. PICK b \in DOMAIN buffers, number \in Nat : b = run.buffer /\ number = run.event.number
  BY <1>2 DEF Run, Numbered
<1>4. buffers[b] \in Kept /\ buffers \in Seq(Kept) /\ DOMAIN buffers = 1 .. Len(buffers)
  BY DEF BufferTypeOK
<1>5. PICK kept \in Kept : /\ kept = [buffers[b] EXCEPT !.last = number]
                           /\ kept.pending = buffers[b].pending /\ kept.last = number
  <2>1. [buffers[b] EXCEPT !.last = number] \in Kept
    BY <1>4 DEF Kept
  <2>2. /\ [buffers[b] EXCEPT !.last = number].pending = buffers[b].pending
        /\ [buffers[b] EXCEPT !.last = number].last = number
    BY <1>4 DEF Kept
  <2> QED
    BY <2>1, <2>2
<1>6. PICK objects : objects = [buffers EXCEPT ![b] = kept]
  OBVIOUS
<1>7. /\ RunLoop(objects, b, run.by, Tail(runs))
      /\ processed' = Append(processed, run.event) /\ UNCHANGED <<current, arrivals>>
  BY <1>2, <1>3, <1>5, <1>6 DEF EventProcessed
<1>8. /\ objects \in Seq(Kept) /\ Len(objects) = Len(buffers)
      /\ \A a \in 1 .. Len(buffers) : objects[a] = IF a = b THEN kept ELSE buffers[a]
  BY <1>4, <1>6, ExceptSeq
<1>9. DOMAIN objects = DOMAIN buffers
  BY <1>4, <1>8
<1>10. PICK n \in Nat :
         /\ buffers' \in Seq(Kept) /\ Len(buffers') = Len(objects)
         /\ \A a \in DOMAIN objects \ {b} : buffers'[a] = objects[a]
         /\ Looped(b, kept.pending, kept.last, run.by, Tail(runs), n)
  <2>1. objects[b] = kept
    BY <1>4, <1>8
  <2> QED
    BY <1>7, <1>8, <1>9, <2>1, LoopIs
<1>11. DOMAIN buffers' = DOMAIN buffers
  BY <1>4, <1>8, <1>10
<1> QED
  BY <1>1, <1>2, <1>3, <1>4, <1>5, <1>7, <1>8, <1>9, <1>10, <1>11
-------------------------------------------------------------------------------
(* Types *)

LEMMA LoopType ==
  ASSUME NEW others \in Seq(Run), \A i \in DOMAIN others : others[i].buffer \in DOMAIN buffers',
         NEW b \in Nat, NEW pending \in Seq(Numbered), NEW last \in Nat, NEW by \in Callers, NEW n \in Nat,
         Looped(b, pending, last, by, others, n)
  PROVE  runs' \in Seq(Run) /\ \A i \in DOMAIN runs' : runs'[i].buffer \in DOMAIN buffers'
<1>1. b \in DOMAIN buffers' /\ n \in 1 .. Len(pending) + 1
  BY DEF Looped
<1>2. CASE Waited(b, pending, last, others, n)
  BY <1>2 DEF Waited
<1>3. CASE Took(b, pending, last, by, others, n)
  <2>1. pending[n] \in Numbered
    BY <1>1, <1>3 DEF Took
  <2>2. PICK run \in Run : run = [by |-> by, buffer |-> b, event |-> pending[n]] /\ run.buffer = b
    <3>1. [by |-> by, buffer |-> b, event |-> pending[n]] \in Run
      BY <2>1 DEF Run
    <3> QED
      BY <3>1
  <2>3. runs' = Append(others, run)
    BY <1>3, <2>2 DEF Took
  <2> QED
    BY <1>1, <2>2, <2>3
<1> QED
  BY <1>2, <1>3 DEF Looped

\* Who touches the buffers.
LEMMA BufferSteps ==
  ASSUME NumberInv, [PublisherNext]_publisherVars
  PROVE  \/ UNCHANGED bufferVars
         \/ \E c \in Callers : Buffered(c)
         \/ (EventProcessed \/ CleanUp) /\ UNCHANGED sequenceVars
         \/ Restart /\ BuffersAreLost /\ TransactionsAreLost
BY DEF PublisherNext, PublisherStep, publisherVars, TakeNumber, NumberFails, Emit, EmitFails, BufferTimer, Restart

LEMMA EventIsNumbered ==
  ASSUME NumberInv, NEW c \in Callers, Buffered(c)
  PROVE  \E event \in Numbered :
           /\ event.by = c /\ event.number = call[c].number
           /\ call[c].stage = "granted" /\ UNCHANGED sequenceVars
           /\ AddEvent(event)
           /\ \A i \in DOMAIN arrivals : arrivals[i].by # c
<1>1. call[c] \in Call
  BY DEF NumberInv, SequenceTypeOK
<1>2. [by |-> c, number |-> call[c].number] \in Numbered
  BY <1>1 DEF Call, Numbered
<1>3. \A i \in DOMAIN arrivals : arrivals[i].by # c
  BY DEF Buffered, Added, Range
<1> QED
  BY <1>2, <1>3 DEF Buffered

LEMMA BufferTypeInit == PublisherInit => BufferTypeOK
<1> SUFFICES ASSUME PublisherInit PROVE BufferTypeOK
  OBVIOUS
<1>1. row \in Nat
  BY InitialRowsAssumption DEF PublisherInit, SequenceInit
<1>2. Buffer(<<>>, row) \in Kept
  BY <1>1 DEF Buffer, Kept
<1>3. buffers \in Seq(Kept) /\ current \in 0 .. Len(buffers)
  <2>1. PICK kept \in Kept : kept = Buffer(<<>>, row)
    BY <1>2
  <2>2. CASE buffers = <<>> /\ current = 0
    BY <2>2
  <2>3. CASE buffers = <<kept>> /\ current = 1
    BY <2>3
  <2> QED
    BY <2>1, <2>2, <2>3 DEF PublisherInit, BufferInit
<1> QED
  BY <1>3 DEF PublisherInit, BufferInit, BufferTypeOK

LEMMA AddedType ==
  ASSUME BufferTypeOK, NEW event \in Numbered, AddEvent(event)
  PROVE  BufferTypeOK'
<1>1. PICK n \in Nat, pending \in Seq(Numbered), last \in Nat :
        Looped(current', SortedIn(pending, event), last, event.by, runs, n)
  BY AddedIs
<1>2. /\ buffers' \in Seq(Kept) /\ current' \in Nat
      /\ arrivals' = Append(arrivals, event) /\ UNCHANGED processed
      /\ DOMAIN buffers' = DOMAIN buffers \cup {current'}
  BY AddedIs
<1>3. SortedIn(pending, event) \in Seq(Numbered) /\ event.by \in Callers
  BY SortedInIs DEF Numbered
<1>4. runs \in Seq(Run) /\ \A i \in DOMAIN runs : runs[i].buffer \in DOMAIN buffers'
  BY <1>2 DEF BufferTypeOK
<1>5. runs' \in Seq(Run) /\ \A i \in DOMAIN runs' : runs'[i].buffer \in DOMAIN buffers'
  BY <1>1, <1>2, <1>3, <1>4, LoopType
<1>6. current' \in 0 .. Len(buffers')
  <2>1. current' \in DOMAIN buffers' /\ DOMAIN buffers' = 1 .. Len(buffers') /\ Len(buffers') \in Nat
    BY <1>2, LenProperties
  <2> QED
    BY <1>2, <2>1
<1> QED
  BY <1>2, <1>5, <1>6 DEF BufferTypeOK

LEMMA ProcessedType ==
  ASSUME BufferTypeOK, EventProcessed
  PROVE  BufferTypeOK'
<1>1. PICK run \in Run : run = Head(runs) /\ run.buffer \in DOMAIN buffers /\ run.buffer \in Nat
  BY ProcessedIs DEF Run
<1>2. run.by \in Callers /\ run.event \in Numbered /\ run.event.number \in Nat
  BY <1>1 DEF Run, Numbered
<1>3. /\ buffers' \in Seq(Kept) /\ DOMAIN buffers' = DOMAIN buffers
      /\ processed' = Append(processed, run.event) /\ UNCHANGED <<current, arrivals>> /\ runs # <<>>
  BY <1>1, ProcessedIs
<1>4. PICK n \in Nat, pending \in Seq(Numbered) :
        Looped(run.buffer, pending, run.event.number, run.by, Tail(runs), n)
  <2>1. buffers[run.buffer] \in Kept
    BY <1>1 DEF BufferTypeOK
  <2>2. buffers[run.buffer].pending \in Seq(Numbered)
    BY <2>1 DEF Kept
  <2> QED
    BY <1>1, <2>2, ProcessedIs
<1>5. Tail(runs) \in Seq(Run) /\ \A i \in DOMAIN Tail(runs) : Tail(runs)[i].buffer \in DOMAIN buffers'
  <2>1. /\ runs \in Seq(Run) /\ Tail(runs) \in Seq(Run)
        /\ \A i \in DOMAIN Tail(runs) : i + 1 \in DOMAIN runs /\ Tail(runs)[i] = runs[i + 1]
    BY <1>3 DEF BufferTypeOK
  <2> QED
    BY <1>3, <2>1 DEF BufferTypeOK
<1>6. runs' \in Seq(Run) /\ \A i \in DOMAIN runs' : runs'[i].buffer \in DOMAIN buffers'
  BY <1>1, <1>2, <1>4, <1>5, LoopType
<1>7. Len(buffers') = Len(buffers)
  BY <1>3 DEF BufferTypeOK
<1> QED
  BY <1>2, <1>3, <1>6, <1>7 DEF BufferTypeOK

LEMMA BufferTypeNext ==
  ASSUME NumberInv, BufferTypeOK, [PublisherNext]_publisherVars
  PROVE  BufferTypeOK'
<1>1. CASE UNCHANGED bufferVars
  BY <1>1 DEF bufferVars, BufferTypeOK
<1>2. ASSUME NEW c \in Callers, Buffered(c) PROVE BufferTypeOK'
  BY <1>2, EventIsNumbered, AddedType
<1>3. CASE EventProcessed
  BY <1>3, ProcessedType
<1>4. CASE CleanUp
  BY <1>4 DEF CleanUp, BufferTypeOK
<1>5. CASE BuffersAreLost
  BY <1>5 DEF BuffersAreLost, BufferTypeOK
<1> QED
  BY <1>1, <1>2, <1>3, <1>4, <1>5, BufferSteps
-------------------------------------------------------------------------------
(* Waiting *)

Busy(b) == \E i \in DOMAIN runs : runs[i].buffer = b

MustWait(b) ==
  LET pending == buffers[b].pending
  IN  pending # <<>> => pending[1].number > buffers[b].last /\ ~Processable(pending[1].number, buffers[b].last)

Waits == \A b \in DOMAIN buffers : ~Busy(b) => MustWait(b)

\* The loop stops where it must wait, or leaves a timer behind.
LEMMA LoopWaits ==
  ASSUME NEW others \in Seq(Run), NEW b \in Nat, NEW pending \in Seq(Numbered), NEW last \in Nat,
         NEW by, NEW n \in Nat, Looped(b, pending, last, by, others, n), buffers' \in Seq(Kept)
  PROVE  /\ ~Busy(b)' => MustWait(b)'
         /\ \A a : (\E i \in DOMAIN others : others[i].buffer = a) => Busy(a)'
<1>1. b \in DOMAIN buffers' /\ buffers'[b].last = last /\ buffers'[b] \in Kept /\ n \in 1 .. Len(pending) + 1
  BY ElementOfSeq, LenProperties DEF Looped
<1>2. PICK rest \in Seq(Numbered) : rest = buffers'[b].pending
  BY <1>1 DEF Kept
<1>3. CASE Waited(b, pending, last, others, n)
  <2>1. /\ runs' = others /\ Len(rest) = Len(pending) - n + 1
        /\ \A j \in DOMAIN rest : rest[j] = pending[n + j - 1]
        /\ n <= Len(pending) => pending[n].number > last /\ ~Processable(pending[n].number, last)
    BY <1>2, <1>3 DEF Waited
  <2>2. rest # <<>> => n <= Len(pending) /\ rest[1] = pending[n]
    <3> SUFFICES ASSUME rest # <<>> PROVE n <= Len(pending) /\ rest[1] = pending[n]
      OBVIOUS
    <3>1. 1 \in DOMAIN rest /\ Len(rest) >= 1 /\ n + 1 - 1 = n /\ Len(pending) \in Nat
      OBVIOUS
    <3>2. rest[1] = pending[n + 1 - 1]
      BY <2>1, <3>1
    <3> QED
      BY <2>1, <3>1, <3>2
  <2>3. rest # <<>> => rest[1].number > last /\ ~Processable(rest[1].number, last)
    BY <2>1, <2>2
  <2>4. MustWait(b)'
    BY <1>1, <1>2, <2>3 DEF MustWait
  <2> QED
    BY <2>1, <2>4 DEF Busy
<1>4. CASE Took(b, pending, last, by, others, n)
  <2>1. PICK run : runs' = Append(others, run) /\ run.buffer = b
    <3>1. PICK run : run = [by |-> by, buffer |-> b, event |-> pending[n]]
      OBVIOUS
    <3>2. run.buffer = b /\ runs' = Append(others, run)
      BY <1>4, <3>1 DEF Took
    <3> QED
      BY <3>2
  <2>2. /\ Len(others) + 1 \in DOMAIN runs' /\ runs'[Len(others) + 1] = run
        /\ \A i \in DOMAIN others : i \in DOMAIN runs' /\ runs'[i] = others[i]
    BY <2>1
  <2> QED
    BY <2>1, <2>2 DEF Busy
<1> QED
  BY <1>3, <1>4 DEF Looped

LEMMA WaitsNext ==
  ASSUME NumberInv, BufferTypeOK, Waits, [PublisherNext]_publisherVars
  PROVE  Waits'
<1>1. CASE UNCHANGED bufferVars
  BY <1>1 DEF bufferVars, Waits, MustWait, Busy
<1>2. ASSUME NEW c \in Callers, Buffered(c) PROVE Waits'
  <2>1. PICK event \in Numbered : AddEvent(event)
    BY <1>2, EventIsNumbered
  <2>2. PICK b \in Nat :
          /\ b = current' /\ buffers' \in Seq(Kept)
          /\ \A a \in DOMAIN buffers \ {b} : buffers'[a] = buffers[a]
          /\ DOMAIN buffers' = DOMAIN buffers \cup {b}
    BY <2>1, AddedIs
  <2>3. PICK n \in Nat, sorted \in Seq(Numbered), last \in Nat : Looped(b, sorted, last, event.by, runs, n)
    BY <2>1, <2>2, AddedIs, SortedInIs
  <2>4. /\ ~Busy(b)' => MustWait(b)'
        /\ \A a : (\E i \in DOMAIN runs : runs[i].buffer = a) => Busy(a)'
    BY <2>2, <2>3, LoopWaits DEF BufferTypeOK
  <2>5. \A a : Busy(a) => Busy(a)'
    BY <2>4 DEF Busy
  <2>6. \A a \in DOMAIN buffers \ {b} : MustWait(a) => MustWait(a)'
    BY <2>2 DEF MustWait
  <2> QED
    BY <2>2, <2>4, <2>5, <2>6 DEF Waits
<1>3. CASE EventProcessed
  <2>1. PICK run \in Run, b \in Nat : run = Head(runs) /\ b = run.buffer
    BY <1>3, ProcessedIs DEF Run
  <2>2. /\ buffers' \in Seq(Kept) /\ DOMAIN buffers' = DOMAIN buffers /\ runs # <<>> /\ b \in DOMAIN buffers
        /\ \A a \in DOMAIN buffers \ {b} : buffers'[a] = buffers[a]
    BY <1>3, <2>1, ProcessedIs
  <2>3. PICK n \in Nat, pending \in Seq(Numbered), last \in Nat : Looped(b, pending, last, run.by, Tail(runs), n)
    <3>1. buffers[b] \in Kept
      BY <2>2 DEF BufferTypeOK
    <3>2. buffers[b].pending \in Seq(Numbered) /\ run.event.number \in Nat
      BY <3>1 DEF Kept, Run, Numbered
    <3> QED
      BY <1>3, <2>1, <3>2, ProcessedIs
  <2>4. /\ Tail(runs) \in Seq(Run) /\ runs[1] = run
        /\ \A i \in DOMAIN runs : i # 1 => i - 1 \in DOMAIN Tail(runs) /\ Tail(runs)[i - 1] = runs[i]
    <3>1. runs \in Seq(Run) /\ runs # <<>>
      BY <2>2 DEF BufferTypeOK
    <3> QED
      BY <2>1, <3>1
  <2>5. /\ ~Busy(b)' => MustWait(b)'
        /\ \A a : (\E i \in DOMAIN Tail(runs) : Tail(runs)[i].buffer = a) => Busy(a)'
    BY <2>2, <2>3, <2>4, LoopWaits
  <2>6. \A a : a # b /\ Busy(a) => \E i \in DOMAIN Tail(runs) : Tail(runs)[i].buffer = a
    BY <2>1, <2>4 DEF Busy
  <2>7. \A a \in DOMAIN buffers \ {b} : MustWait(a) => MustWait(a)'
    BY <2>2 DEF MustWait
  <2> QED
    BY <2>2, <2>5, <2>6, <2>7 DEF Waits
<1>4. CASE CleanUp
  BY <1>4 DEF CleanUp, Waits, MustWait, Busy
<1>5. CASE BuffersAreLost
  BY <1>5 DEF BuffersAreLost, Waits
<1> QED
  BY <1>1, <1>2, <1>3, <1>4, <1>5, BufferSteps

\* No buffer keeps an event back that it could process, whatever loops, timers
\* and restarts do to each other (event-buffer.service.ts:63-180).
THEOREM NothingProcessableIsLeft == PublisherSpec => []NothingProcessableWaits
<1> DEFINE Inv == NumberInv /\ BufferTypeOK /\ Waits
<1>1. PublisherInit => Inv
  <2> SUFFICES ASSUME PublisherInit PROVE Waits
    BY NumberInit, BufferTypeInit DEF PublisherInit
  <2>1. \A b \in DOMAIN buffers : buffers[b].pending = <<>>
    BY DEF PublisherInit, BufferInit, Buffer
  <2> QED
    BY <2>1 DEF Waits, MustWait
<1>2. Inv /\ [PublisherNext]_publisherVars => Inv'
  BY NumberNext, BufferTypeNext, WaitsNext
<1>3. Inv => NothingProcessableWaits
  <2> SUFFICES ASSUME BufferTypeOK, Waits, NEW b \in DOMAIN buffers,
                      \A r \in Range(runs) : r.buffer # b, buffers[b].pending # <<>>
               PROVE  LET first == Head(buffers[b].pending).number
                      IN  first > buffers[b].last /\ ~Processable(first, buffers[b].last)
    BY DEF NothingProcessableWaits
  <2>1. ~Busy(b)
    BY DEF Busy, Range
  <2>2. buffers[b] \in Kept
    BY DEF BufferTypeOK
  <2>3. Head(buffers[b].pending) = buffers[b].pending[1]
    BY <2>2 DEF Kept
  <2> QED
    BY <2>1, <2>3 DEF Waits, MustWait
<1> HIDE DEF Inv
<1> QED
  BY <1>1, <1>2, <1>3, PTL DEF PublisherSpec
-------------------------------------------------------------------------------
(* Keeping *)

EventsOf(list) == {list[i].event : i \in DOMAIN list}
EachOnce(list) == \A i, j \in DOMAIN list : i # j => list[i] # list[j]
RunOnce(list) == \A i, j \in DOMAIN list : i # j => list[i].event # list[j].event

Waiting == IF current = 0 THEN {} ELSE Range(buffers[current].pending)
Done == Range(processed)

\* Which event came before which.
Came(list) ==
  {p \in Range(list) \X Range(list) :
     \E j \in DOMAIN list : \E i \in 1 .. j - 1 : p = <<list[i], list[j]>>}

Behind(came, first, second) == first.number < second.number \/ <<first, second>> \in came

Lined(came, list) ==
  \A j \in DOMAIN list : \A i \in 1 .. j - 1 :
    list[i].number <= list[j].number /\ Behind(came, list[i], list[j])

Passed(e) == \E d \in Done : d.number >= e.number /\ <<d, e>> \in Came(arrivals)

\* Every number that is or will be passed through the buffer is above this one.
Above(number) ==
  /\ \A i \in DOMAIN arrivals : arrivals[i].number > number
  /\ \A c \in Callers : call[c].stage \in {"written", "granted"} => call[c].number > number
  /\ number > 0 =>
       /\ row >= number
       /\ \A c \in Callers : ~call[c].creates
       /\ \A c \in Callers : call[c].stage = "written" => call[c].column > number

LastIsPassed ==
  /\ Above(0)
  /\ \A b \in DOMAIN buffers : (\E d \in Done : d.number = buffers[b].last) \/ Above(buffers[b].last)

Sorting ==
  /\ \A b \in DOMAIN buffers : b # current => buffers[b].pending = <<>>
  /\ \A b \in DOMAIN buffers : EachOnce(buffers[b].pending)
  /\ RunOnce(runs) /\ EachOnce(processed)
  /\ Waiting \cap EventsOf(runs) = {} /\ Done \cap (Waiting \cup EventsOf(runs)) = {}
  /\ Waiting \cup EventsOf(runs) \cup Done \subseteq Range(arrivals)

\* What waits is above the last number and in line, behind what is processed
\* now unless that came first; so an event can only be lost to an earlier one.
InLine ==
  /\ \A b \in DOMAIN buffers :
       /\ Lined(Came(arrivals), buffers[b].pending)
       /\ \A j \in DOMAIN buffers[b].pending : buffers[b].pending[j].number > buffers[b].last
  /\ \A r \in EventsOf(runs), e \in Waiting : Behind(Came(arrivals), r, e)

KeptInv ==
  /\ Sorting /\ InLine /\ EachOnce(arrivals)
  /\ \A e \in Range(arrivals) : e \in Waiting \cup EventsOf(runs) \cup Done \/ Passed(e)

\* The loop takes one event at most from the pending ones to the runs, and
\* drops none that is not old.
LEMMA LoopKeeps ==
  ASSUME NEW others \in Seq(Run), NEW b \in Nat, NEW pending \in Seq(Numbered), NEW last \in Nat,
         NEW by \in Callers, NEW n \in Nat, Looped(b, pending, last, by, others, n), buffers' \in Seq(Kept),
         EachOnce(pending), RunOnce(others), EventsOf(others) \cap Range(pending) = {}
  PROVE  /\ EachOnce(buffers'[b].pending) /\ RunOnce(runs')
         /\ Range(buffers'[b].pending) \cap EventsOf(runs') = {}
         /\ Range(buffers'[b].pending) \subseteq Range(pending)
         /\ EventsOf(runs') \subseteq Range(pending) \cup EventsOf(others)
         /\ EventsOf(others) \subseteq EventsOf(runs')
         /\ \A e \in Range(pending) \cup EventsOf(others) :
              e \in Range(buffers'[b].pending) \cup EventsOf(runs') \/ e.number <= last
<1>1. /\ b \in DOMAIN buffers' /\ n \in 1 .. Len(pending) + 1 /\ DOMAIN pending = 1 .. Len(pending)
      /\ \A j \in 1 .. n - 1 : pending[j].number <= last
  BY DEF Looped
<1>2. PICK rest \in Seq(Numbered) : rest = buffers'[b].pending
  <2>1. buffers'[b] \in Kept
    BY <1>1, ElementOfSeq, LenProperties
  <2> QED
    BY <2>1 DEF Kept
<1>3. Len(pending) \in Nat /\ Len(rest) \in Nat /\ DOMAIN rest = 1 .. Len(rest)
  OBVIOUS
<1>4. CASE Waited(b, pending, last, others, n)
  <2>1. /\ runs' = others /\ Len(rest) = Len(pending) - n + 1
        /\ \A j \in DOMAIN rest : rest[j] = pending[n + j - 1]
    BY <1>2, <1>4 DEF Waited
  <2>2. \A j \in DOMAIN rest : n + j - 1 \in DOMAIN pending
    BY <1>1, <1>3, <2>1
  <2>3. EachOnce(rest)
    BY <1>1, <1>3, <2>1, <2>2 DEF EachOnce
  <2>4. Range(rest) \subseteq Range(pending)
    BY <2>1, <2>2 DEF Range
  <2>5. \A e \in Range(pending) : e \in Range(rest) \/ e.number <= last
    <3> SUFFICES ASSUME NEW i \in DOMAIN pending, ~(i < n) PROVE pending[i] \in Range(rest)
      BY <1>1 DEF Range
    <3>1. i - n + 1 \in DOMAIN rest /\ n + (i - n + 1) - 1 = i
      BY <1>1, <1>3, <2>1
    <3> QED
      BY <2>1, <3>1 DEF Range
  <2> QED
    BY <1>2, <2>1, <2>3, <2>4, <2>5
<1>5. CASE Took(b, pending, last, by, others, n)
  <2>1. n \in DOMAIN pending /\ pending[n] \in Numbered
    <3>1. n <= Len(pending)
      BY <1>5 DEF Took
    <3>2. n \in 1 .. Len(pending)
      BY <1>1, <1>3, <3>1
    <3> QED
      BY <1>1, <3>2, ElementOfSeq
  <2>2. PICK run \in Run : run = [by |-> by, buffer |-> b, event |-> pending[n]] /\ run.event = pending[n]
    <3>1. [by |-> by, buffer |-> b, event |-> pending[n]] \in Run
      BY <2>1 DEF Run
    <3> QED
      BY <3>1
  <2>3. runs' = Append(others, run)
    BY <1>5, <2>2 DEF Took
  <2>0. Len(rest) = Len(pending) - n
    BY <1>2, <1>5 DEF Took
  <2>4. \A j \in DOMAIN rest : n + j \in DOMAIN pending /\ n + j # n /\ rest[j] = pending[n + j]
    <3>0. \A j \in 1 .. Len(pending) - n : n + j \in 1 .. Len(pending) /\ n + j # n
      BY <1>3
    <3>1. \A j \in DOMAIN rest : n + j \in DOMAIN pending /\ n + j # n
      BY <1>1, <1>3, <2>0, <3>0
    <3> QED
      BY <1>2, <1>5, <3>1 DEF Took
  <2>5. EachOnce(rest) /\ Range(rest) \subseteq Range(pending) /\ pending[n] \notin Range(rest)
    <3>1. \A j, k \in DOMAIN rest : j # k => n + j # n + k
      BY <1>1, <1>3
    <3>2. EachOnce(rest)
      BY <2>4, <3>1 DEF EachOnce
    <3>3. \A j \in DOMAIN rest : rest[j] \in Range(pending) /\ rest[j] # pending[n]
      BY <2>1, <2>4 DEF Range, EachOnce
    <3> QED
      BY <3>2, <3>3 DEF Range
  <2>6. /\ DOMAIN runs' = DOMAIN others \cup {Len(others) + 1} /\ runs'[Len(others) + 1] = run
        /\ \A i \in DOMAIN others : i # Len(others) + 1 /\ runs'[i] = others[i]
    <3>1. Append(others, run) \in Seq(Run) /\ Len(Append(others, run)) = Len(others) + 1
      BY <2>2, AppendProperties
    <3>2. /\ Append(others, run)[Len(others) + 1] = run
          /\ \A i \in 1 .. Len(others) : Append(others, run)[i] = others[i]
      BY <2>2, AppendProperties
    <3>3. DOMAIN others = 1 .. Len(others) /\ Len(others) \in Nat /\ DOMAIN runs' = 1 .. Len(others) + 1
      BY <2>3, <3>1, LenProperties
    <3>4. DOMAIN runs' = DOMAIN others \cup {Len(others) + 1} /\ \A i \in DOMAIN others : i # Len(others) + 1
      BY <3>3
    <3> QED
      BY <2>3, <3>2, <3>3, <3>4
  <2>7. EventsOf(runs') = EventsOf(others) \cup {pending[n]}
    BY <2>2, <2>6 DEF EventsOf
  <2>8. RunOnce(runs')
    <3>1. \A i \in DOMAIN others : others[i].event # pending[n]
      BY <2>1 DEF EventsOf, Range
    <3> QED
      BY <2>2, <2>6, <3>1 DEF RunOnce
  <2>9. \A e \in Range(pending) : e \in Range(rest) \cup {pending[n]} \/ e.number <= last
    <3> SUFFICES ASSUME NEW i \in DOMAIN pending, ~(i < n), i # n PROVE pending[i] \in Range(rest)
      BY <1>1 DEF Range
    <3>1. i - n \in DOMAIN rest /\ n + (i - n) = i
      BY <1>1, <1>3, <2>0
    <3> QED
      BY <2>4, <3>1 DEF Range
  <2>10. pending[n] \in Range(pending)
    BY <2>1 DEF Range
  <2> QED
    BY <1>2, <2>5, <2>7, <2>8, <2>9, <2>10
<1> QED
  BY <1>4, <1>5 DEF Looped

\* An event that is sorted in is one more.
LEMMA SortedInOnce ==
  ASSUME NEW pending \in Seq(Numbered), NEW event \in Numbered, EachOnce(pending), event \notin Range(pending)
  PROVE  /\ EachOnce(SortedIn(pending, event))
         /\ Range(SortedIn(pending, event)) = Range(pending) \cup {event}
<1>1. PICK i \in 1 .. Len(pending) + 1, sorted \in Seq(Numbered) :
        /\ i = FirstAbove(pending, event.number) /\ sorted = SortedIn(pending, event)
        /\ Len(sorted) = Len(pending) + 1 /\ sorted[i] = event
        /\ \A j \in 1 .. i - 1 : sorted[j] = pending[j]
        /\ \A j \in i .. Len(pending) : sorted[j + 1] = pending[j]
  <2>1. event.number \in Nat
    BY DEF Numbered
  <2>2. FirstAbove(pending, event.number) \in 1 .. Len(pending) + 1
    BY <2>1, FirstAboveIs
  <2> QED
    BY <2>2, SortedInIs
<1>2. Len(pending) \in Nat /\ i \in Nat /\ DOMAIN pending = 1 .. Len(pending) /\ DOMAIN sorted = 1 .. Len(pending) + 1
  BY <1>1, LenProperties
<1> DEFINE from(j) == IF j < i THEN j ELSE j - 1
<1>3. \A j \in DOMAIN sorted : j # i => from(j) \in DOMAIN pending /\ sorted[j] = pending[from(j)]
  <2> SUFFICES ASSUME NEW j \in DOMAIN sorted, j # i
               PROVE  from(j) \in DOMAIN pending /\ sorted[j] = pending[from(j)]
    OBVIOUS
  <2>1. CASE j < i
    BY <1>1, <1>2, <2>1
  <2>2. CASE j > i
    <3>1. j - 1 \in i .. Len(pending) /\ (j - 1) + 1 = j
      BY <1>2, <2>2
    <3> QED
      BY <1>1, <1>2, <2>2, <3>1
  <2> QED
    BY <1>2, <2>1, <2>2
<1>4. \A j, k \in DOMAIN sorted : j # i /\ k # i /\ j # k => from(j) # from(k)
  BY <1>2
<1>5. \A j \in DOMAIN pending : \E k \in DOMAIN sorted : sorted[k] = pending[j]
  <2> SUFFICES ASSUME NEW j \in DOMAIN pending PROVE \E k \in DOMAIN sorted : sorted[k] = pending[j]
    OBVIOUS
  <2>1. CASE j < i
    <3>1. j \in DOMAIN sorted /\ j \in 1 .. i - 1
      BY <1>2, <2>1
    <3> QED
      BY <1>1, <3>1
  <2>2. CASE ~(j < i)
    <3>1. j + 1 \in DOMAIN sorted /\ j \in i .. Len(pending)
      BY <1>2, <2>2
    <3> QED
      BY <1>1, <3>1
  <2> QED
    BY <2>1, <2>2
<1> HIDE DEF from
<1>6. \A j \in DOMAIN pending : pending[j] # event
  BY DEF Range
<1>7. EachOnce(sorted)
  BY <1>1, <1>3, <1>4, <1>6 DEF EachOnce
<1>8. i \in DOMAIN sorted
  BY <1>2
<1>9. Range(sorted) = Range(pending) \cup {event}
  BY <1>1, <1>3, <1>5, <1>8 DEF Range
<1> QED
  BY <1>1, <1>7, <1>9
LEMMA CameGrows ==
  ASSUME NEW list \in Seq(Numbered), NEW event \in Numbered, NEW longer, longer = Append(list, event)
  PROVE  /\ Came(list) \subseteq Came(longer)
         /\ \A e \in Range(list) : <<e, event>> \in Came(longer)
<1>1. Len(list) \in Nat /\ DOMAIN list = 1 .. Len(list) /\ DOMAIN longer = 1 .. Len(list) + 1
  OBVIOUS
<1>2. longer[Len(list) + 1] = event /\ \A i \in DOMAIN list : i \in DOMAIN longer /\ longer[i] = list[i]
  BY <1>1
<1>3. Len(list) + 1 \in DOMAIN longer
  BY <1>1
<1>4. Range(list) \subseteq Range(longer) /\ event \in Range(longer)
  BY <1>2, <1>3 DEF Range
<1>5. \A j \in DOMAIN list : \A i \in 1 .. j - 1 : i \in DOMAIN list
  BY <1>1
<1>6. Came(list) \subseteq Came(longer)
  BY <1>2, <1>4, <1>5 DEF Came
<1>7. ASSUME NEW e \in Range(list) PROVE <<e, event>> \in Came(longer)
  <2>1. PICK i \in DOMAIN list : e = list[i]
    BY DEF Range
  <2>2. i \in 1 .. (Len(list) + 1) - 1
    BY <1>1, <2>1
  <2>3. <<e, event>> = <<longer[i], longer[Len(list) + 1]>>
    BY <1>2, <2>1
  <2> QED
    BY <1>3, <1>4, <2>2, <2>3 DEF Came
<1> QED
  BY <1>6, <1>7

LEMMA SortedInLined ==
  ASSUME NEW came, NEW pending \in Seq(Numbered), NEW event \in Numbered, Lined(came, pending),
         \A e \in Range(pending) : <<e, event>> \in came
  PROVE  Lined(came, SortedIn(pending, event))
<1>0. PICK i \in 1 .. Len(pending) + 1 :
        /\ i = FirstAbove(pending, event.number)
        /\ \A j \in 1 .. i - 1 : pending[j].number <= event.number
        /\ i <= Len(pending) => pending[i].number > event.number
  <2>1. event.number \in Nat
    BY DEF Numbered
  <2> QED
    BY <2>1, FirstAboveIs
<1>1. PICK sorted \in Seq(Numbered) :
        /\ sorted = SortedIn(pending, event)
        /\ Len(sorted) = Len(pending) + 1 /\ sorted[i] = event
        /\ \A j \in 1 .. i - 1 : sorted[j] = pending[j]
        /\ \A j \in i .. Len(pending) : sorted[j + 1] = pending[j]
  BY <1>0, SortedInIs
<1>2. /\ Len(pending) \in Nat /\ i \in Nat /\ event.number \in Nat
      /\ DOMAIN pending = 1 .. Len(pending) /\ DOMAIN sorted = 1 .. Len(pending) + 1
      /\ \A j \in 1 .. Len(pending) : pending[j].number \in Nat
  <2>1. \A j \in 1 .. Len(pending) : pending[j] \in Numbered
    OBVIOUS
  <2> QED
    BY <1>1, <2>1, LenProperties DEF Numbered
<1>3. \A j \in i .. Len(pending) : pending[j].number > event.number
  <2> SUFFICES ASSUME NEW j \in i .. Len(pending) PROVE pending[j].number > event.number
    OBVIOUS
  <2>1. i \in DOMAIN pending /\ j \in DOMAIN pending /\ (i # j => i \in 1 .. j - 1) /\ i <= Len(pending)
    BY <1>2
  <2>2. i # j => pending[i].number <= pending[j].number
    BY <2>1 DEF Lined
  <2>3. pending[i].number \in Nat /\ pending[j].number \in Nat
    BY <1>2, <2>1
  <2>4. pending[i].number > event.number
    BY <1>0, <2>1
  <2>5. CASE i = j
    BY <2>4, <2>5
  <2>6. CASE i # j
    BY <1>2, <2>2, <2>3, <2>4, <2>6
  <2> QED
    BY <2>5, <2>6
<1> DEFINE from(j) == IF j < i THEN j ELSE j - 1
<1>4. ASSUME NEW k \in DOMAIN sorted, k # i
      PROVE  from(k) \in DOMAIN pending /\ sorted[k] = pending[from(k)]
  <2>1. CASE k < i
    BY <1>1, <1>2, <2>1
  <2>2. CASE k > i
    <3>1. k - 1 \in i .. Len(pending) /\ (k - 1) + 1 = k
      BY <1>2, <2>2
    <3> QED
      BY <1>1, <1>2, <2>2, <3>1
  <2> QED
    BY <1>2, <1>4, <2>1, <2>2
<1>5. ASSUME NEW k \in DOMAIN sorted, NEW j \in 1 .. k - 1
      PROVE  sorted[j].number <= sorted[k].number /\ Behind(came, sorted[j], sorted[k])
  <2>1. j \in DOMAIN sorted /\ j # k
    BY <1>2
  <2>2. CASE k = i
    <3>1. sorted[k] = event /\ j \in 1 .. i - 1 /\ j \in DOMAIN pending
      BY <1>1, <1>2, <2>2
    <3>2. sorted[j] = pending[j] /\ pending[j].number <= event.number /\ pending[j] \in Range(pending)
      BY <1>0, <1>1, <3>1 DEF Range
    <3> QED
      BY <3>1, <3>2 DEF Behind
  <2>3. CASE j = i
    <3>1. k - 1 \in i .. Len(pending) /\ (k - 1) + 1 = k
      BY <1>2, <2>3
    <3>2. sorted[j] = event /\ sorted[k] = pending[k - 1] /\ pending[k - 1].number > event.number
      BY <1>1, <1>3, <2>3, <3>1
    <3>3. pending[k - 1].number \in Nat
      BY <1>2, <3>1
    <3> QED
      BY <1>2, <3>2, <3>3 DEF Behind
  <2>4. CASE k # i /\ j # i
    <3>1. /\ from(j) \in DOMAIN pending /\ sorted[j] = pending[from(j)]
          /\ from(k) \in DOMAIN pending /\ sorted[k] = pending[from(k)]
      BY <1>4, <2>1, <2>4
    <3>2. from(j) \in 1 .. from(k) - 1
      BY <1>2, <2>1, <2>4
    <3> HIDE DEF from
    <3> QED
      BY <3>1, <3>2 DEF Lined
  <2> QED
    BY <2>2, <2>3, <2>4
<1> QED
  BY <1>1, <1>5 DEF Lined

\* The loop keeps the line, and what it takes is first in it.
LEMMA LoopLined ==
  ASSUME NEW came, NEW others \in Seq(Run), NEW b \in Nat, NEW pending \in Seq(Numbered), NEW last \in Nat,
         NEW by \in Callers, NEW n \in Nat, Looped(b, pending, last, by, others, n), buffers' \in Seq(Kept),
         Lined(came, pending), \A r \in EventsOf(others), e \in Range(pending) : Behind(came, r, e)
  PROVE  /\ Lined(came, buffers'[b].pending)
         /\ \A j \in DOMAIN buffers'[b].pending : buffers'[b].pending[j].number > last
         /\ \A r \in EventsOf(runs'), e \in Range(buffers'[b].pending) : Behind(came, r, e)
<1>1. b \in DOMAIN buffers' /\ n \in 1 .. Len(pending) + 1 /\ DOMAIN pending = 1 .. Len(pending)
  BY DEF Looped
<1>2. PICK rest \in Seq(Numbered) : rest = buffers'[b].pending
  <2>1. buffers'[b] \in Kept
    BY <1>1, ElementOfSeq, LenProperties
  <2> QED
    BY <2>1 DEF Kept
<1>3. /\ Len(pending) \in Nat /\ Len(rest) \in Nat /\ DOMAIN rest = 1 .. Len(rest)
      /\ \A j \in 1 .. Len(pending) : pending[j].number \in Nat
  <2>1. \A j \in 1 .. Len(pending) : pending[j] \in Numbered
    OBVIOUS
  <2> QED
    BY <2>1 DEF Numbered
<1>4. PICK m \in {n - 1, n} :
        /\ Len(rest) = Len(pending) - m
        /\ \A j \in DOMAIN rest : rest[j] = pending[m + j]
        /\ m = n - 1 => runs' = others
        /\ m = n => /\ n <= Len(pending)
                    /\ runs' = Append(others, [by |-> by, buffer |-> b, event |-> pending[n]])
        /\ n <= Len(pending) => pending[n].number > last
  <2>1. CASE Waited(b, pending, last, others, n)
    <3>1. /\ Len(rest) = Len(pending) - (n - 1) /\ runs' = others
          /\ \A j \in DOMAIN rest : rest[j] = pending[n + j - 1]
          /\ n <= Len(pending) => pending[n].number > last
      BY <1>2, <1>3, <2>1 DEF Waited
    <3>2. \A j \in DOMAIN rest : (n - 1) + j = n + j - 1
      BY <1>3
    <3>3. \A j \in DOMAIN rest : rest[j] = pending[(n - 1) + j]
      BY <3>1, <3>2
    <3>4. n - 1 # n
      OBVIOUS
    <3> QED
      BY <3>1, <3>3, <3>4
  <2>2. CASE Took(b, pending, last, by, others, n)
    <3>1. n - 1 # n
      OBVIOUS
    <3> QED
      BY <1>2, <2>2, <3>1 DEF Took
  <2> QED
    BY <2>1, <2>2 DEF Looped
<1>5. /\ m \in Nat /\ n >= 1 /\ n <= m + 1
      /\ \A j \in DOMAIN rest : m + j \in DOMAIN pending /\ n <= m + j
  BY <1>1, <1>3, <1>4
<1>6. Lined(came, rest)
  <2> SUFFICES ASSUME NEW j \in DOMAIN rest, NEW i \in 1 .. j - 1
               PROVE  rest[i].number <= rest[j].number /\ Behind(came, rest[i], rest[j])
    BY DEF Lined
  <2>1. i \in DOMAIN rest /\ m + i \in 1 .. (m + j) - 1
    BY <1>3, <1>5
  <2>2. m + j \in DOMAIN pending /\ rest[i] = pending[m + i] /\ rest[j] = pending[m + j]
    BY <1>4, <1>5, <2>1
  <2>3. PICK k \in DOMAIN pending : k = m + j
    BY <2>2
  <2>4. PICK l \in 1 .. k - 1 : l = m + i
    BY <2>1, <2>3
  <2>5. pending[l].number <= pending[k].number /\ Behind(came, pending[l], pending[k])
    BY <2>3, <2>4 DEF Lined
  <2> QED
    BY <2>2, <2>3, <2>4, <2>5
<1>7. ASSUME NEW j \in DOMAIN rest PROVE rest[j].number > last
  <2>1. PICK k \in DOMAIN pending : k = m + j /\ n <= k /\ rest[j] = pending[k]
    BY <1>4, <1>5
  <2>2. n \in DOMAIN pending /\ (n # k => n \in 1 .. k - 1) /\ n <= Len(pending)
    BY <1>1, <1>3, <1>5, <2>1
  <2>3. n # k => pending[n].number <= pending[k].number
    BY <2>2 DEF Lined
  <2>4. pending[n].number > last /\ pending[n].number \in Nat /\ pending[k].number \in Nat
    BY <1>1, <1>3, <1>4, <2>1, <2>2
  <2> QED
    BY <2>1, <2>3, <2>4
<1>8. ASSUME NEW j \in DOMAIN rest PROVE rest[j] \in Range(pending) /\ (m = n => Behind(came, pending[n], rest[j]))
  <2>1. PICK k \in DOMAIN pending : k = m + j /\ rest[j] = pending[k]
    BY <1>4, <1>5
  <2>2. m = n => n \in 1 .. k - 1
    BY <1>1, <1>3, <1>5, <2>1
  <2> QED
    BY <2>1, <2>2 DEF Lined, Range
<1>9. EventsOf(runs') \subseteq EventsOf(others) \cup (IF m = n THEN {pending[n]} ELSE {})
  <2>1. CASE m = n
    <3>1. PICK run \in Run : run = [by |-> by, buffer |-> b, event |-> pending[n]] /\ run.event = pending[n]
      <4>1. pending[n] \in Numbered
        BY <1>1, <1>4, <2>1, ElementOfSeq
      <4>2. [by |-> by, buffer |-> b, event |-> pending[n]] \in Run
        BY <4>1 DEF Run
      <4> QED
        BY <4>2
    <3>2. runs' = Append(others, run)
      BY <1>4, <2>1, <3>1
    <3>3. \A i \in DOMAIN runs' : (i \in DOMAIN others /\ runs'[i] = others[i]) \/ runs'[i] = run
      BY <3>2
    <3> QED
      BY <2>1, <3>1, <3>3 DEF EventsOf
  <2>2. CASE m # n
    BY <1>4, <2>2
  <2> QED
    BY <2>1, <2>2
<1>10. \A r \in EventsOf(runs'), e \in Range(rest) : Behind(came, r, e)
  <2> SUFFICES ASSUME NEW r \in EventsOf(runs'), NEW e \in Range(rest) PROVE Behind(came, r, e)
    OBVIOUS
  <2>1. PICK j \in DOMAIN rest : e = rest[j]
    BY DEF Range
  <2> QED
    BY <1>8, <1>9, <2>1
<1> QED
  BY <1>2, <1>6, <1>7, <1>10
\* A number that is passed stays below those to come, until a restart.
LEMMA AboveStep ==
  ASSUME NumberInv, NEW number \in Nat, Above(number), UNCHANGED arrivals,
         NEW c \in Callers, SequenceStep(c) \/ DatabaseFails(c)
  PROVE  Above(number)'
<1> DEFINE Same == \A d \in Callers : d # c => call'[d] = call[d]
<1>1. /\ row \in Nat /\ call \in [Callers -> Call]
      /\ \A d \in Callers : call[d].number \in Nat /\ call[d].column \in Nat /\ call[d].creates \in BOOLEAN
  BY DEF NumberInv, SequenceTypeOK, Call
<1>2. /\ call[c].creates => number = 0
      /\ number > 0 => row >= number
  BY DEF Above
<1>3. CASE IncrementLocked(c)
  <2>1. /\ row > 0 /\ row' = row /\ Same
        /\ call'[c].stage = "written" /\ call'[c].number = row + 1 /\ call'[c].column = row + 1
        /\ call'[c].creates = call[c].creates
    BY <1>1, <1>3 DEF IncrementLocked, WriteRow, Call
  <2>2. row + 1 > number
    BY <1>1, <1>2, <2>1
  <2> QED
    BY <1>1, <2>1, <2>2 DEF Above
<1>4. CASE FindNoRow(c)
  <2>1. /\ row = 0 /\ row' = row /\ Same /\ call'[c].stage = "absent"
    BY <1>1, <1>4 DEF FindNoRow, Call
  <2>2. number = 0
    BY <1>2, <2>1
  <2> QED
    BY <1>1, <2>1, <2>2 DEF Above
<1>5. CASE SaveLoads(c) \/ Insert(c) \/ SaveUpdates(c)
  <2>1. number = 0
    BY <1>2, <1>5 DEF NumberInv, Discipline, SaveLoads, Insert, SaveUpdates
  <2>2. CASE SaveLoads(c)
    <3>1. Same /\ call'[c].stage \notin {"written", "granted"}
      BY <1>1, <2>2 DEF SaveLoads, Call
    <3> QED
      BY <1>1, <2>1, <3>1 DEF Above
  <2>3. CASE Insert(c) \/ SaveUpdates(c)
    <3>1. Same /\ (call'[c].stage \in {"written", "granted"} => call'[c].number = 1)
      BY <1>1, <2>3 DEF Insert, SaveUpdates, WriteRow, Reach, Call
    <3> QED
      BY <1>1, <2>1, <3>1 DEF Above
  <2> QED
    BY <1>5, <2>2, <2>3
<1>6. CASE CommitNumber(c)
  <2>1. /\ call[c].stage = "written" /\ row' = call[c].column /\ Same
        /\ call'[c].stage = "granted" /\ call'[c].number = call[c].number /\ call'[c].creates = call[c].creates
    BY <1>1, <1>6 DEF CommitNumber, Reach, Call
  <2> QED
    BY <1>1, <2>1 DEF Above
<1>7. CASE DatabaseFails(c)
  <2>1. row' = row /\ Same /\ call'[c].stage = "failed" /\ call'[c].creates = call[c].creates
    BY <1>1, <1>7 DEF DatabaseFails, Reach, Call
  <2> QED
    BY <1>1, <2>1 DEF Above
<1> QED
  BY <1>3, <1>4, <1>5, <1>6, <1>7 DEF SequenceStep

LEMMA AboveNext ==
  ASSUME NumberInv, NEW number \in Nat, Above(number), [PublisherNext]_publisherVars, ~Restart
  PROVE  Above(number)'
<1>1. ASSUME NEW c \in Callers, TakeNumber(c) \/ NumberFails(c) PROVE Above(number)'
  BY <1>1, AboveStep DEF TakeNumber, NumberFails, bufferVars
<1>2. ASSUME NEW c \in Callers, Buffered(c) PROVE Above(number)'
  <2>1. PICK event \in Numbered :
          event.number = call[c].number /\ call[c].stage = "granted" /\ UNCHANGED sequenceVars /\ AddEvent(event)
    BY <1>2, EventIsNumbered
  <2>2. arrivals' = Append(arrivals, event) /\ event.number > number
    BY <2>1 DEF AddEvent, Above
  <2>3. \A i \in DOMAIN arrivals' : arrivals'[i].number > number
    BY <2>2 DEF Above
  <2> QED
    BY <2>1, <2>3 DEF Above, sequenceVars
<1>3. CASE UNCHANGED sequenceVars /\ UNCHANGED arrivals
  BY <1>3 DEF Above, sequenceVars
<1> QED
  BY <1>1, <1>2, <1>3 DEF PublisherNext, PublisherStep, publisherVars, bufferVars, Emit, EmitFails,
                          BufferTimer, EventProcessed, CleanUp

LEMMA AboveRestart ==
  ASSUME NumberInv, Above(0), TransactionsAreLost, BuffersAreLost
  PROVE  Above(0)'
<1>1. \A c \in Callers : call'[c].stage \in {"written", "granted"} => call'[c] = call[c]
  BY DEF NumberInv, SequenceTypeOK, Call, TransactionsAreLost
<1> QED
  BY <1>1 DEF Above, BuffersAreLost
\* An event that is dropped when it comes was passed.
LEMMA OldIsPassed ==
  ASSUME arrivals \in Seq(Numbered), NEW event \in Numbered, arrivals' = Append(arrivals, event),
         NEW last \in Nat, event.number <= last, Done' \subseteq Range(arrivals),
         (\E d \in Done' : d.number = last) \/ Above(last)'
  PROVE  Passed(event)'
<1>1. ~Above(last)'
  <2> SUFFICES ASSUME Above(last)' PROVE FALSE
    OBVIOUS
  <2>1. Len(arrivals) + 1 \in DOMAIN arrivals' /\ arrivals'[Len(arrivals) + 1] = event /\ event.number \in Nat
    BY DEF Numbered
  <2>2. event.number > last
    BY <2>1 DEF Above
  <2> QED
    BY <2>1, <2>2
<1>2. PICK d \in Done' : d.number = last
  BY <1>1
<1>3. <<d, event>> \in Came(arrivals')
  BY CameGrows
<1> QED
  BY <1>2, <1>3 DEF Passed

LEMMA KeptAdded ==
  ASSUME BufferTypeOK, KeptInv, NEW event \in Numbered, AddEvent(event), event \notin Range(arrivals),
         \A last \in Nat :
           last = 0 \/ (current # 0 /\ last = buffers[current].last)
             => (\E d \in Done' : d.number = last) \/ Above(last)'
  PROVE  KeptInv'
<1>1. PICK b \in Nat :
        /\ b = current' /\ buffers' \in Seq(Kept) /\ UNCHANGED processed
        /\ arrivals' = Append(arrivals, event)
        /\ \A a \in DOMAIN buffers \ {b} : buffers'[a] = buffers[a]
        /\ DOMAIN buffers' = DOMAIN buffers \cup {b}
  BY AddedIs
<1>2. PICK n \in Nat, pending \in Seq(Numbered), last \in Nat :
        Opened(b, pending, last) /\ Looped(b, SortedIn(pending, event), last, event.by, runs, n)
  BY <1>1, AddedIs
<1>3. PICK sorted \in Seq(Numbered) : sorted = SortedIn(pending, event)
  BY SortedInIs
<1>4. PICK rest \in Seq(Numbered) : rest = buffers'[b].pending
  <2>1. buffers'[b] \in Kept
    BY <1>1, ElementOfSeq, LenProperties
  <2> QED
    BY <2>1 DEF Kept
<1>5. PICK W, R : W = Waiting /\ R = EventsOf(runs)
  OBVIOUS
<1>6. /\ W \cap R = {} /\ Done \cap (W \cup R) = {} /\ W \cup R \cup Done \subseteq Range(arrivals)
      /\ RunOnce(runs) /\ EachOnce(processed)
      /\ \A e \in Range(arrivals) : e \in W \cup R \cup Done \/ Passed(e)
  BY <1>5 DEF KeptInv, Sorting
<1>7. Range(pending) = W /\ EachOnce(pending)
  <2>1. CASE current = 0
    <3>1. pending = <<>> /\ W = {}
      BY <1>2, <1>5, <2>1 DEF Opened, Waiting
    <3> QED
      BY <3>1 DEF Range, EachOnce
  <2>2. CASE current # 0
    <3>1. pending = buffers[current].pending /\ W = Range(buffers[current].pending)
      BY <1>2, <1>5, <2>2 DEF Opened, Waiting
    <3>2. current \in DOMAIN buffers
      BY <2>2 DEF BufferTypeOK
    <3> QED
      BY <3>1, <3>2 DEF KeptInv, Sorting
  <2> QED
    BY <2>1, <2>2
<1>8. EachOnce(sorted) /\ Range(sorted) = W \cup {event}
  BY <1>3, <1>6, <1>7, SortedInOnce
<1>9. /\ EachOnce(rest) /\ RunOnce(runs') /\ Range(rest) \cap EventsOf(runs') = {}
      /\ Range(rest) \subseteq W \cup {event} /\ EventsOf(runs') \subseteq W \cup {event} \cup R
      /\ R \subseteq EventsOf(runs')
      /\ \A e \in W \cup {event} \cup R : e \in Range(rest) \cup EventsOf(runs') \/ e.number <= last
  <2>1. runs \in Seq(Run) /\ event.by \in Callers /\ EventsOf(runs) \cap Range(sorted) = {}
    BY <1>5, <1>6, <1>8 DEF BufferTypeOK, Numbered
  <2> QED
    BY <1>1, <1>2, <1>3, <1>4, <1>5, <1>6, <1>8, <2>1, LoopKeeps
<1>10. Range(arrivals)' = Range(arrivals) \cup {event} /\ \A e \in Range(arrivals)' : e.number \in Nat
  <2>1. arrivals \in Seq(Numbered) /\ \A i \in DOMAIN arrivals : arrivals[i] \in Numbered
    BY DEF BufferTypeOK
  <2>2. Range(arrivals)' = Range(arrivals) \cup {event}
    <3>1. arrivals' = Append(arrivals, event) /\ DOMAIN arrivals = 1 .. Len(arrivals) /\ Len(arrivals) \in Nat
      BY <1>1, <2>1
    <3>2. /\ DOMAIN arrivals' = DOMAIN arrivals \cup {Len(arrivals) + 1}
          /\ arrivals'[Len(arrivals) + 1] = event
          /\ \A i \in DOMAIN arrivals : arrivals'[i] = arrivals[i]
      BY <2>1, <3>1
    <3> QED
      BY <3>2 DEF Range
  <2> QED
    BY <2>1, <2>2 DEF Range, Numbered
<1>11. Waiting' = Range(rest) /\ Done' = Done
  <2>1. b # 0
    <3>1. DOMAIN buffers' = 1 .. Len(buffers')
      BY <1>1, LenProperties
    <3> QED
      BY <1>1, <3>1
  <2> QED
    BY <1>1, <1>4, <2>1 DEF Waiting, Done
<1>12. Sorting'
  <2>1. \A a \in DOMAIN buffers' : a # b => buffers'[a].pending = <<>>
    <3>1. \A a \in DOMAIN buffers : a # b => a # current
      <4>1. 0 \notin DOMAIN buffers
        BY LenProperties DEF BufferTypeOK
      <4> QED
        BY <1>2, <4>1 DEF Opened
    <3> QED
      BY <1>1, <3>1 DEF KeptInv, Sorting
  <2>2. \A a \in DOMAIN buffers' : EachOnce(buffers'[a].pending)
    <3>1. EachOnce(<<>>)
      BY DEF EachOnce
    <3> QED
      BY <1>4, <1>9, <2>1, <3>1
  <2>3. EachOnce(processed')
    BY <1>1, <1>6
  <2>4. Waiting' \cup EventsOf(runs') \cup Done' \subseteq Range(arrivals)'
    BY <1>6, <1>9, <1>10, <1>11
  <2>5. Waiting' \cap EventsOf(runs') = {} /\ Done' \cap (Waiting' \cup EventsOf(runs')) = {}
    BY <1>6, <1>9, <1>11
  <2> QED
    BY <1>1, <1>9, <2>1, <2>2, <2>3, <2>4, <2>5 DEF Sorting
<1>13. PICK came : /\ came = Came(arrivals') /\ Came(arrivals) \subseteq came
                   /\ \A e \in Range(arrivals) : <<e, event>> \in came
  BY <1>1, CameGrows DEF BufferTypeOK
<1>14. /\ Lined(came, pending) /\ \A e \in W : e.number > last
       /\ \A r \in R, e \in W : Behind(came, r, e)
  <2>1. \A r \in R, e \in W : Behind(came, r, e)
    BY <1>5, <1>13 DEF KeptInv, InLine, Behind
  <2>2. CASE current = 0
    <3>1. pending = <<>> /\ W = {}
      BY <1>2, <1>5, <2>2 DEF Opened, Waiting
    <3>2. Lined(came, <<>>)
      BY DEF Lined
    <3> QED
      BY <3>1, <3>2
  <2>3. CASE current # 0
    <3>1. current \in DOMAIN buffers /\ pending = buffers[current].pending /\ last = buffers[current].last
      BY <1>2, <2>3 DEF Opened, BufferTypeOK
    <3>2. Lined(Came(arrivals), pending) /\ \A j \in DOMAIN pending : pending[j].number > last
      BY <3>1 DEF KeptInv, InLine
    <3>3. Lined(came, pending)
      BY <1>13, <3>2 DEF Lined, Behind
    <3> QED
      BY <1>7, <2>1, <3>2, <3>3 DEF Range
  <2> QED
    BY <2>2, <2>3
<1>15. InLine'
  <2>1. Lined(came, sorted)
    <3>1. \A e \in Range(pending) : <<e, event>> \in came
      BY <1>6, <1>7, <1>13
    <3> QED
      BY <1>3, <1>14, <3>1, SortedInLined
  <2>2. \A r \in EventsOf(runs), e \in Range(sorted) : Behind(came, r, e)
    <3>1. \A r \in R : Behind(came, r, event)
      BY <1>6, <1>13 DEF Behind
    <3> QED
      BY <1>5, <1>8, <1>14, <3>1
  <2>3. runs \in Seq(Run) /\ event.by \in Callers
    BY DEF BufferTypeOK, Numbered
  <2>4. /\ Lined(came, rest) /\ \A j \in DOMAIN rest : rest[j].number > last
        /\ \A r \in EventsOf(runs'), e \in Range(rest) : Behind(came, r, e)
    BY <1>1, <1>2, <1>3, <1>4, <2>1, <2>2, <2>3, LoopLined
  <2>5. buffers'[b].last = last
    BY <1>2 DEF Looped
  <2>6. \A a \in DOMAIN buffers' : a # b => buffers'[a].pending = <<>>
    BY <1>1, <1>12 DEF Sorting
  <2>7. Lined(came, <<>>) /\ DOMAIN <<>> = {}
    BY DEF Lined
  <2> QED
    BY <1>4, <1>11, <1>13, <2>4, <2>5, <2>6, <2>7 DEF InLine
<1>16. EachOnce(arrivals')
  <2>1. arrivals \in Seq(Numbered) /\ DOMAIN arrivals = 1 .. Len(arrivals) /\ Len(arrivals) \in Nat
    BY LenProperties DEF BufferTypeOK
  <2>2. /\ DOMAIN arrivals' = DOMAIN arrivals \cup {Len(arrivals) + 1}
        /\ arrivals'[Len(arrivals) + 1] = event
        /\ \A i \in DOMAIN arrivals : arrivals'[i] = arrivals[i] /\ arrivals[i] # event
    BY <1>1, <2>1 DEF Range
  <2> QED
    BY <2>2 DEF KeptInv, EachOnce
<1>17. \A e \in Range(arrivals)' : e \in Waiting' \cup EventsOf(runs') \cup Done' \/ Passed(e)'
  <2> SUFFICES ASSUME NEW e \in Range(arrivals)', e \notin Waiting' \cup EventsOf(runs') \cup Done'
               PROVE  Passed(e)'
    OBVIOUS
  <2>1. CASE e \in W \cup R
    <3>1. e \in W /\ e.number <= last /\ e.number \in Nat
      BY <1>9, <1>10, <1>11, <2>1
    <3> QED
      BY <1>14, <3>1
  <2>2. CASE e = event
    <3>1. event.number <= last
      BY <1>9, <1>11, <2>2
    <3>2. last = 0 \/ (current # 0 /\ last = buffers[current].last)
      BY <1>2 DEF Opened
    <3>3. arrivals \in Seq(Numbered) /\ Done' \subseteq Range(arrivals)
      BY <1>6, <1>11 DEF BufferTypeOK
    <3> QED
      BY <1>1, <2>2, <3>1, <3>2, <3>3, OldIsPassed
  <2>3. CASE e \notin W \cup {event} \cup R
    <3>1. Passed(e)
      BY <1>6, <1>10, <1>11, <2>3
    <3> QED
      BY <1>11, <1>13, <3>1 DEF Passed
  <2> QED
    BY <2>1, <2>2, <2>3
<1> QED
  BY <1>12, <1>15, <1>16, <1>17 DEF KeptInv
\* The first of the runs, and the others.
LEMMA RunsWithoutFirst ==
  ASSUME runs \in Seq(Run), runs # <<>>, RunOnce(runs)
  PROVE  /\ Tail(runs) \in Seq(Run) /\ RunOnce(Tail(runs))
         /\ Head(runs).event \notin EventsOf(Tail(runs))
         /\ EventsOf(runs) = EventsOf(Tail(runs)) \cup {Head(runs).event}
<1>1. PICK others \in Seq(Run) : others = Tail(runs)
  <2>1. Tail(runs) \in Seq(Run)
    OBVIOUS
  <2> QED
    BY <2>1
<1>2. Len(runs) \in Nat /\ Len(runs) >= 1 /\ DOMAIN runs = 1 .. Len(runs) /\ Head(runs) = runs[1]
  OBVIOUS
<1>3. DOMAIN others = 1 .. Len(runs) - 1 /\ \A i \in 1 .. Len(runs) - 1 : others[i] = runs[i + 1]
  BY <1>1, <1>2
<1>4. \A i \in DOMAIN others : i + 1 \in DOMAIN runs /\ i + 1 # 1 /\ others[i] = runs[i + 1]
  <2>1. \A i \in 1 .. Len(runs) - 1 : i + 1 \in 1 .. Len(runs) /\ i + 1 # 1
    BY <1>2
  <2> QED
    BY <1>2, <1>3, <2>1
<1>5. 1 \in DOMAIN runs
  BY <1>2
<1>6. \A i \in DOMAIN runs : i # 1 => i - 1 \in DOMAIN others /\ others[i - 1] = runs[i]
  <2>1. \A i \in 1 .. Len(runs) : i # 1 => i - 1 \in 1 .. Len(runs) - 1 /\ (i - 1) + 1 = i
    BY <1>2
  <2> QED
    BY <1>2, <1>3, <2>1
<1>7. RunOnce(others)
  <2>1. \A i, j \in DOMAIN others : i # j => i + 1 # j + 1
    BY <1>2, <1>3
  <2> QED
    BY <1>4, <2>1 DEF RunOnce
<1>8. runs[1].event \notin EventsOf(others)
  BY <1>4, <1>5 DEF RunOnce, EventsOf
<1>9. EventsOf(runs) = EventsOf(others) \cup {runs[1].event}
  BY <1>4, <1>5, <1>6 DEF EventsOf
<1> QED
  BY <1>1, <1>2, <1>7, <1>8, <1>9

LEMMA KeptProcessed ==
  ASSUME BufferTypeOK, KeptInv, EventProcessed
  PROVE  KeptInv'
<1>1. PICK run \in Run : run = Head(runs) /\ run.buffer \in DOMAIN buffers
  BY ProcessedIs
<1>2. PICK b \in Nat, event \in Numbered, last \in Nat :
        /\ b = run.buffer /\ event = run.event /\ last = event.number
        /\ b \in DOMAIN buffers /\ run.by \in Callers
  <2>1. run.event.number \in Nat
    BY DEF Run, Numbered
  <2> QED
    BY <1>1, <2>1 DEF Run
<1>3. /\ runs # <<>> /\ buffers' \in Seq(Kept) /\ DOMAIN buffers' = DOMAIN buffers
      /\ \A a \in DOMAIN buffers \ {b} : buffers'[a] = buffers[a]
      /\ processed' = Append(processed, event) /\ UNCHANGED <<current, arrivals>>
  BY <1>1, <1>2, ProcessedIs
<1>4. PICK pending \in Seq(Numbered), n \in Nat :
        pending = buffers[b].pending /\ Looped(b, pending, last, run.by, Tail(runs), n)
  <2>1. buffers[b] \in Kept
    BY <1>2 DEF BufferTypeOK
  <2>2. buffers[b].pending \in Seq(Numbered)
    BY <2>1 DEF Kept
  <2> QED
    BY <1>1, <1>2, <2>2, ProcessedIs
<1>5. PICK rest \in Seq(Numbered) : rest = buffers'[b].pending
  <2>1. buffers'[b] \in Kept
    BY <1>2, <1>3, ElementOfSeq, LenProperties
  <2> QED
    BY <2>1 DEF Kept
<1>0. PICK others \in Seq(Run) :
        /\ others = Tail(runs) /\ RunOnce(others)
        /\ event \notin EventsOf(others) /\ EventsOf(runs) = EventsOf(others) \cup {event}
  <2>1. runs \in Seq(Run) /\ RunOnce(runs)
    BY DEF BufferTypeOK, KeptInv, Sorting
  <2> QED
    BY <1>1, <1>2, <1>3, <2>1, RunsWithoutFirst
<1>6. PICK W, R :
        /\ W = Waiting /\ R = EventsOf(others) /\ others = Tail(runs) /\ RunOnce(others)
        /\ event \notin R /\ EventsOf(runs) = R \cup {event}
  BY <1>0
<1>7. /\ W \cap R = {} /\ event \notin W /\ event \notin Done /\ Done \cap (W \cup R) = {}
      /\ W \cup R \cup {event} \cup Done \subseteq Range(arrivals) /\ EachOnce(processed)
      /\ \A e \in Range(arrivals) : e \in W \cup R \cup {event} \cup Done \/ Passed(e)
  BY <1>6 DEF KeptInv, Sorting
<1>8. /\ EachOnce(pending) /\ (b = current => Range(pending) = W) /\ (b # current => pending = <<>>)
      /\ Range(pending) \subseteq W
  <2>1. EachOnce(pending) /\ (b # current => pending = <<>>)
    BY <1>2, <1>4 DEF KeptInv, Sorting
  <2>2. b = current => Range(pending) = W
    <3>1. DOMAIN buffers = 1 .. Len(buffers)
      BY LenProperties DEF BufferTypeOK
    <3>2. b # 0
      BY <1>2, <3>1
    <3> QED
      BY <1>4, <1>6, <3>2 DEF Waiting
  <2>3. Range(<<>>) = {}
    BY DEF Range
  <2> QED
    BY <2>1, <2>2, <2>3
<1>9. /\ EachOnce(rest) /\ RunOnce(runs') /\ Range(rest) \cap EventsOf(runs') = {}
      /\ Range(rest) \subseteq Range(pending) /\ EventsOf(runs') \subseteq Range(pending) \cup R
      /\ R \subseteq EventsOf(runs')
      /\ \A e \in Range(pending) \cup R : e \in Range(rest) \cup EventsOf(runs') \/ e.number <= last
  <2>1. EventsOf(others) \cap Range(pending) = {}
    BY <1>6, <1>7, <1>8
  <2>2. PICK by \in Callers : Looped(b, pending, last, by, others, n)
    BY <1>2, <1>4, <1>6
  <2>3. EachOnce(pending) /\ RunOnce(others) /\ buffers' \in Seq(Kept)
    BY <1>3, <1>6, <1>8
  <2>4. /\ EachOnce(buffers'[b].pending) /\ RunOnce(runs')
        /\ Range(buffers'[b].pending) \cap EventsOf(runs') = {}
        /\ Range(buffers'[b].pending) \subseteq Range(pending)
        /\ EventsOf(runs') \subseteq Range(pending) \cup EventsOf(others)
        /\ EventsOf(others) \subseteq EventsOf(runs')
        /\ \A e \in Range(pending) \cup EventsOf(others) :
             e \in Range(buffers'[b].pending) \cup EventsOf(runs') \/ e.number <= last
    BY <2>1, <2>2, <2>3, LoopKeeps
  <2> QED
    BY <1>5, <1>6, <2>4
<1>10. Done' = Done \cup {event} /\ EachOnce(processed') /\ Range(arrivals)' = Range(arrivals)
  <2>1. processed \in Seq(Numbered) /\ Len(processed) \in Nat /\ DOMAIN processed = 1 .. Len(processed)
    BY LenProperties DEF BufferTypeOK
  <2>2. /\ DOMAIN processed' = DOMAIN processed \cup {Len(processed) + 1} /\ Len(processed) + 1 \notin DOMAIN processed
        /\ processed'[Len(processed) + 1] = event
        /\ \A i \in DOMAIN processed : processed'[i] = processed[i]
    BY <1>3, <2>1
  <2>3. \A i \in DOMAIN processed : processed[i] # event
    BY <1>7 DEF Done, Range
  <2>4. Done' = Done \cup {event}
    BY <2>2 DEF Done, Range
  <2>5. EachOnce(processed')
    BY <1>7, <2>2, <2>3 DEF EachOnce
  <2> QED
    BY <1>3, <2>4, <2>5
<1>11. Waiting' = IF b = current THEN Range(rest) ELSE W
  <2>1. current' = current /\ (current # 0 => current \in DOMAIN buffers)
    BY <1>3 DEF BufferTypeOK
  <2>2. CASE b = current
    <3>1. b # 0
      <4>1. DOMAIN buffers = 1 .. Len(buffers)
        BY LenProperties DEF BufferTypeOK
      <4> QED
        BY <1>2, <4>1
    <3> QED
      BY <1>5, <2>1, <2>2, <3>1 DEF Waiting
  <2>3. CASE b # current
    BY <1>3, <1>6, <2>1, <2>3 DEF Waiting
  <2> QED
    BY <2>2, <2>3
<1>12. /\ Waiting' \subseteq W /\ Waiting' \cap EventsOf(runs') = {} /\ EventsOf(runs') \subseteq W \cup R
       /\ \A e \in W \cup R : e \in Waiting' \cup EventsOf(runs') \/ e.number <= last
  <2>1. Range(<<>>) = {}
    BY DEF Range
  <2>2. CASE b = current
    BY <1>8, <1>9, <1>11, <2>2
  <2>3. CASE b # current
    BY <1>7, <1>8, <1>9, <1>11, <2>1, <2>3
  <2> QED
    BY <2>2, <2>3
<1>13. Sorting'
  <2>1. \A a \in DOMAIN buffers' : a # current' => buffers'[a].pending = <<>>
    <3>1. b # current => rest = <<>>
      <4> SUFFICES ASSUME b # current, rest # <<>> PROVE FALSE
        OBVIOUS
      <4>1. 1 \in DOMAIN rest /\ pending = <<>>
        BY <1>8
      <4>2. rest[1] \in Range(pending)
        BY <1>9, <4>1 DEF Range
      <4> QED
        BY <4>1, <4>2 DEF Range
    <3> QED
      BY <1>3, <1>5, <3>1 DEF KeptInv, Sorting
  <2>2. \A a \in DOMAIN buffers' : EachOnce(buffers'[a].pending)
    BY <1>3, <1>5, <1>9 DEF KeptInv, Sorting
  <2>3. Waiting' \cup EventsOf(runs') \cup Done' \subseteq Range(arrivals)'
    BY <1>7, <1>10, <1>12
  <2>4. Done' \cap (Waiting' \cup EventsOf(runs')) = {}
    BY <1>6, <1>7, <1>10, <1>12
  <2> QED
    BY <1>9, <1>10, <1>12, <2>1, <2>2, <2>3, <2>4 DEF Sorting
<1>14. PICK came : came = Came(arrivals) /\ came = Came(arrivals')
  BY <1>3
<1>15. \A r \in R \cup {event}, e \in W : Behind(came, r, e)
  BY <1>6, <1>14 DEF KeptInv, InLine
<1>16. InLine'
  <2>1. Lined(came, pending)
    BY <1>2, <1>4, <1>14 DEF KeptInv, InLine
  <2>2. PICK by \in Callers : Looped(b, pending, last, by, others, n)
    BY <1>2, <1>4, <1>6
  <2>3. \A r \in EventsOf(others), e \in Range(pending) : Behind(came, r, e)
    BY <1>6, <1>8, <1>15
  <2>4. /\ Lined(came, rest) /\ \A j \in DOMAIN rest : rest[j].number > last
        /\ \A r \in EventsOf(runs'), e \in Range(rest) : Behind(came, r, e)
    BY <1>3, <1>5, <2>1, <2>2, <2>3, LoopLined
  <2>5. buffers'[b].last = last
    BY <1>4 DEF Looped
  <2>6. \A a \in DOMAIN buffers' : /\ Lined(came, buffers'[a].pending)
                                  /\ \A j \in DOMAIN buffers'[a].pending :
                                       buffers'[a].pending[j].number > buffers'[a].last
    BY <1>3, <1>5, <1>14, <2>4, <2>5 DEF KeptInv, InLine
  <2>7. \A r \in EventsOf(runs'), e \in Waiting' : Behind(came, r, e)
    <3>1. CASE b = current
      BY <1>11, <2>4, <3>1
    <3>2. CASE b # current
      <4>1. EventsOf(runs') \subseteq R
        <5>1. Range(<<>>) = {}
          BY DEF Range
        <5> QED
          BY <1>8, <1>9, <3>2, <5>1
      <4> QED
        BY <1>11, <1>15, <3>2, <4>1
    <3> QED
      BY <3>1, <3>2
  <2> QED
    BY <1>14, <2>6, <2>7 DEF InLine
<1>17. \A e \in Range(arrivals)' : e \in Waiting' \cup EventsOf(runs') \cup Done' \/ Passed(e)'
  <2> SUFFICES ASSUME NEW e \in Range(arrivals), e \notin Waiting' \cup EventsOf(runs') \cup Done'
               PROVE  Passed(e)'
    BY <1>10
  <2>1. CASE e \in W \cup R
    <3>1. e \in W /\ e.number <= last
      BY <1>9, <1>12, <2>1
    <3>2. e.number \in Nat
      <4>1. \A i \in DOMAIN arrivals : arrivals[i] \in Numbered
        BY DEF BufferTypeOK
      <4> QED
        BY <4>1 DEF Range, Numbered
    <3>3. <<event, e>> \in came
      BY <1>2, <1>15, <3>1, <3>2 DEF Behind
    <3> QED
      BY <1>2, <1>10, <1>14, <3>1, <3>2, <3>3 DEF Passed
  <2>2. CASE e \notin W \cup R
    <3>1. Passed(e)
      BY <1>7, <1>10, <2>2
    <3> QED
      BY <1>10, <1>14, <3>1 DEF Passed
  <2> QED
    BY <2>1, <2>2
<1> QED
  BY <1>3, <1>13, <1>16, <1>17 DEF KeptInv
\* The number last of each buffer after a step is one it had, that of an event
\* processed since, or 0.
LEMMA LastNumbers ==
  ASSUME NumberInv, BufferTypeOK, [PublisherNext]_publisherVars, ~Restart
  PROVE  /\ \A d \in Done : d \in Done'
         /\ \A b \in DOMAIN buffers' :
              \/ b \in DOMAIN buffers /\ buffers'[b].last = buffers[b].last
              \/ \E d \in Done' : d.number = buffers'[b].last
              \/ buffers'[b].last = 0
<1>1. CASE UNCHANGED bufferVars \/ CleanUp
  BY <1>1 DEF bufferVars, CleanUp, Done
<1>2. ASSUME NEW c \in Callers, NEW event \in Numbered, AddEvent(event)
      PROVE  /\ Done' = Done
             /\ \A b \in DOMAIN buffers' : \/ b \in DOMAIN buffers /\ buffers'[b].last = buffers[b].last
                                           \/ buffers'[b].last = 0
  <2>1. PICK n \in Nat, pending \in Seq(Numbered), last \in Nat :
          /\ Opened(current', pending, last)
          /\ Looped(current', SortedIn(pending, event), last, event.by, runs, n)
    BY <1>2, AddedIs
  <2>2. /\ UNCHANGED processed /\ DOMAIN buffers' = DOMAIN buffers \cup {current'}
        /\ \A a \in DOMAIN buffers \ {current'} : buffers'[a] = buffers[a]
    BY <1>2, AddedIs
  <2>3. buffers'[current'].last = last
    BY <2>1 DEF Looped
  <2>4. last = 0 \/ (current' = current /\ current \in DOMAIN buffers /\ last = buffers[current].last)
    BY <2>1 DEF Opened, BufferTypeOK
  <2> QED
    BY <2>2, <2>3, <2>4 DEF Done
<1>3. CASE EventProcessed
  <2>1. PICK run \in Run, b \in Nat :
          /\ run = Head(runs) /\ b = run.buffer /\ b \in DOMAIN buffers /\ DOMAIN buffers' = DOMAIN buffers
          /\ \A a \in DOMAIN buffers \ {b} : buffers'[a] = buffers[a]
          /\ processed' = Append(processed, run.event)
    BY <1>3, ProcessedIs DEF Run
  <2>2. buffers'[b].last = run.event.number
    BY <1>3, <2>1, ProcessedIs DEF Looped
  <2>3. processed \in Seq(Numbered) /\ Len(processed) \in Nat /\ DOMAIN processed = 1 .. Len(processed)
    BY LenProperties DEF BufferTypeOK
  <2>4. /\ DOMAIN processed' = DOMAIN processed \cup {Len(processed) + 1}
        /\ processed'[Len(processed) + 1] = run.event
        /\ \A i \in DOMAIN processed : processed'[i] = processed[i]
    BY <2>1, <2>3
  <2>5. Done' = Done \cup {run.event}
    BY <2>4 DEF Done, Range
  <2> QED
    BY <2>1, <2>2, <2>5
<1> QED
  <2>1. ASSUME NEW c \in Callers, Buffered(c) PROVE \E event \in Numbered : AddEvent(event)
    BY <2>1, EventIsNumbered
  <2> QED
    BY <1>1, <1>2, <1>3, <2>1, BufferSteps

LEMMA LastIsPassedNext ==
  ASSUME NumberInv, BufferTypeOK, LastIsPassed, [PublisherNext]_publisherVars
  PROVE  LastIsPassed'
<1>1. CASE Restart
  BY <1>1, AboveRestart DEF LastIsPassed, Restart, BuffersAreLost
<1>2. CASE ~Restart
  <2>1. \A number \in Nat : Above(number) => Above(number)'
    BY <1>2, AboveNext
  <2>2. Above(0)'
    BY <2>1 DEF LastIsPassed
  <2>3. ASSUME NEW b \in DOMAIN buffers'
        PROVE  ((\E d \in Done : d.number = buffers[b].last) \/ Above(buffers[b].last))'
    <3>1. CASE b \in DOMAIN buffers /\ buffers'[b].last = buffers[b].last
      <4>1. buffers[b] \in Kept
        BY <3>1 DEF BufferTypeOK
      <4>2. PICK last \in Nat : last = buffers[b].last /\ last = buffers'[b].last
        BY <3>1, <4>1 DEF Kept
      <4>3. (\E d \in Done : d.number = last) \/ Above(last)
        BY <3>1, <4>2 DEF LastIsPassed
      <4>4. (\E d \in Done' : d.number = last) \/ Above(last)'
        BY <1>2, <2>1, <4>3, LastNumbers
      <4> QED
        BY <4>2, <4>4 DEF Above
    <3>2. CASE buffers'[b].last = 0
      BY <2>2, <3>2 DEF Above
    <3>3. CASE \E d \in Done' : d.number = buffers'[b].last
      BY <3>3
    <3> QED
      BY <1>2, <3>1, <3>2, <3>3, LastNumbers
  <2> QED
    BY <2>2, <2>3 DEF LastIsPassed
<1> QED
  BY <1>1, <1>2

\* The number the loop of addEvent starts behind was passed.
LEMMA AddedIsPassed ==
  ASSUME NumberInv, BufferTypeOK, LastIsPassed, LastIsPassed', [PublisherNext]_publisherVars,
         NEW event \in Numbered, AddEvent(event),
         NEW last \in Nat, last = 0 \/ (current # 0 /\ last = buffers[current].last)
  PROVE  (\E d \in Done' : d.number = last) \/ Above(last)'
<1>1. CASE last = 0
  BY <1>1 DEF LastIsPassed
<1>2. CASE current # 0 /\ last = buffers[current].last
  <2>1. (\E d \in Done : d.number = last) \/ Above(last)
    BY <1>2 DEF LastIsPassed, BufferTypeOK
  <2>2. ~Restart /\ UNCHANGED processed
    BY AddedIs DEF Restart, BuffersAreLost
  <2> QED
    BY <2>1, <2>2, AboveNext DEF Done
<1> QED
  BY <1>1, <1>2

LEMMA KeptNext ==
  ASSUME NumberInv, BufferTypeOK, KeptInv, LastIsPassed, LastIsPassed', [PublisherNext]_publisherVars
  PROVE  KeptInv'
<1>1. CASE UNCHANGED bufferVars
  <2>1. Waiting' = Waiting /\ Done' = Done /\ EventsOf(runs)' = EventsOf(runs)
    BY <1>1 DEF bufferVars, Waiting, Done
  <2>2. Sorting'
    BY <1>1, <2>1 DEF bufferVars, KeptInv, Sorting
  <2>3. \A e : Passed(e) => Passed(e)'
    BY <1>1, <2>1 DEF bufferVars, Passed
  <2>4. InLine'
    BY <1>1, <2>1 DEF bufferVars, KeptInv, InLine
  <2> QED
    BY <1>1, <2>1, <2>2, <2>3, <2>4 DEF bufferVars, KeptInv
<1>2. ASSUME NEW c \in Callers, Buffered(c) PROVE KeptInv'
  <2>1. PICK event \in Numbered : event.by = c /\ AddEvent(event) /\ \A i \in DOMAIN arrivals : arrivals[i].by # c
    BY <1>2, EventIsNumbered
  <2>2. event \notin Range(arrivals)
    BY <2>1 DEF Range
  <2>3. ASSUME NEW last \in Nat, last = 0 \/ (current # 0 /\ last = buffers[current].last)
        PROVE  (\E d \in Done' : d.number = last) \/ Above(last)'
    BY <2>1, <2>3, AddedIsPassed
  <2> QED
    BY <2>1, <2>2, <2>3, KeptAdded
<1>3. CASE EventProcessed
  BY <1>3, KeptProcessed
<1>4. CASE CleanUp
  <2>1. /\ UNCHANGED <<buffers, runs, arrivals, processed>>
        /\ current' = current \/ (current' = 0 /\ current # 0 /\ buffers[current].pending = <<>>)
    BY <1>4 DEF CleanUp
  <2>2. Waiting' = Waiting /\ Done' = Done /\ EventsOf(runs)' = EventsOf(runs)
    <3>1. Range(<<>>) = {}
      BY DEF Range
    <3>2. Waiting' = Waiting
      BY <2>1, <3>1 DEF Waiting
    <3> QED
      BY <2>1, <3>2 DEF Done
  <2>3. Sorting'
    BY <2>1, <2>2 DEF KeptInv, Sorting
  <2>4. \A e : Passed(e) => Passed(e)'
    BY <2>1, <2>2 DEF Passed
  <2>5. InLine'
    BY <2>1, <2>2 DEF KeptInv, InLine
  <2> QED
    BY <2>1, <2>2, <2>3, <2>4, <2>5 DEF KeptInv
<1>5. CASE BuffersAreLost
  <2>1. Waiting' = {} /\ Done' = {} /\ EventsOf(runs)' = {} /\ Range(arrivals)' = {}
    BY <1>5 DEF BuffersAreLost, Waiting, Done, Range, EventsOf
  <2>2. Sorting'
    BY <1>5, <2>1 DEF BuffersAreLost, Sorting, EachOnce, RunOnce
  <2>3. InLine' /\ EachOnce(arrivals')
    BY <1>5, <2>1 DEF BuffersAreLost, InLine, EachOnce
  <2> QED
    BY <2>1, <2>2, <2>3 DEF KeptInv
<1> QED
  BY <1>1, <1>2, <1>3, <1>4, <1>5, BufferSteps
KeepInv == NumberInv /\ BufferTypeOK /\ KeptInv /\ LastIsPassed

LEMMA KeepInit == PublisherInit => KeepInv
<1> SUFFICES ASSUME PublisherInit PROVE KeepInv
  OBVIOUS
<1>1. row \in Nat /\ arrivals = <<>> /\ processed = <<>> /\ runs = <<>>
  BY InitialRowsAssumption DEF PublisherInit, SequenceInit, BufferInit
<1>2. \A b \in DOMAIN buffers : buffers[b].pending = <<>> /\ buffers[b].last = row
  BY DEF PublisherInit, BufferInit, Buffer
<1>3. \A c \in Callers : call[c].stage = "ready" /\ ~call[c].creates
  <2>1. ASSUME NEW c \in Callers PROVE call[c] = [stage |-> "ready", number |-> 0, column |-> 0,
                                               seen |-> 0, creates |-> FALSE]
    BY Zenon DEF PublisherInit, SequenceInit
  <2>2. ASSUME NEW c \in Callers PROVE call[c].stage = "ready"
    BY <2>1
  <2>3. ASSUME NEW c \in Callers PROVE ~call[c].creates
    BY <2>1
  <2> QED
    BY <2>2, <2>3, Zenon
<1>4. LastIsPassed
  <2>1. Above(0) /\ Above(row)
    BY <1>1, <1>3 DEF Above
  <2> QED
    BY <1>2, <2>1 DEF LastIsPassed
<1>5. KeptInv
  <2>1. Range(<<>>) = {} /\ EachOnce(<<>>) /\ EventsOf(<<>>) = {} /\ RunOnce(<<>>)
    BY DEF Range, EachOnce, EventsOf, RunOnce
  <2>2. Waiting = {} /\ Done = {}
    <3>1. current = 0 \/ current \in DOMAIN buffers
      BY BufferTypeInit DEF BufferTypeOK
    <3> QED
      BY <1>1, <1>2, <2>1, <3>1 DEF Waiting, Done
  <2>3. InLine
    <3>1. DOMAIN <<>> = {}
      OBVIOUS
    <3> QED
      BY <1>1, <1>2, <2>1, <2>2, <3>1 DEF InLine, Lined
  <2> QED
    BY <1>1, <1>2, <2>1, <2>2, <2>3 DEF KeptInv, Sorting
<1> QED
  BY <1>4, <1>5, NumberInit, BufferTypeInit DEF KeepInv, PublisherInit

LEMMA KeepNext == KeepInv /\ [PublisherNext]_publisherVars => KeepInv'
BY NumberNext, BufferTypeNext, LastIsPassedNext, KeptNext DEF KeepInv

\* An event is lost in the buffer only to one that overtook it, and none is
\* processed twice, for any number of publishers, clean-ups and restarts
\* (event-buffer.service.ts:19-204).
THEOREM BufferKeepsEvents == PublisherSpec => []EventsAreKept
<1>1. KeepInv => EventsAreKept
  <2> SUFFICES ASSUME KeepInv PROVE EventsAreKept
    OBVIOUS
  <2>1. EventsOf(runs) = {r.event : r \in Range(runs)}
    BY DEF EventsOf, Range
  <2>2. ASSUME NEW i \in DOMAIN arrivals
        PROVE  \/ InHand(arrivals[i])
               \/ \E j \in 1 .. i - 1 :
                    arrivals[j].number >= arrivals[i].number /\ arrivals[j] \in Range(processed)
    <3> DEFINE e == arrivals[i]
    <3>1. e \in Range(arrivals)
      BY DEF Range
    <3>2. e \in Waiting \cup EventsOf(runs) \cup Done => InHand(e)
      BY <2>1 DEF InHand, Waiting, Done
    <3>3. ASSUME Passed(e)
          PROVE  \E j \in 1 .. i - 1 : arrivals[j].number >= e.number /\ arrivals[j] \in Range(processed)
      <4>1. PICK d \in Done : d.number >= e.number /\ <<d, e>> \in Came(arrivals)
        BY <3>3 DEF Passed
      <4>2. PICK k \in DOMAIN arrivals : \E j \in 1 .. k - 1 : d = arrivals[j] /\ e = arrivals[k]
        BY <4>1 DEF Came
      <4>3. k = i
        BY <4>2 DEF KeepInv, KeptInv, EachOnce
      <4> QED
        BY <4>1, <4>2, <4>3 DEF Done
    <3> QED
      BY <3>1, <3>2, <3>3 DEF KeepInv, KeptInv
  <2> QED
    BY <2>1, <2>2 DEF KeepInv, KeptInv, Sorting, EventsAreKept, Waiting, Done, EachOnce
<1> QED
  BY <1>1, KeepInit, KeepNext, PTL DEF PublisherSpec
-------------------------------------------------------------------------------
(* In order *)

Consecutive(list) == \A i \in 2 .. Len(list) : list[i].number = list[i - 1].number + 1
Increasing(list) == \A i, j \in DOMAIN list : i < j => list[i].number < list[j].number

Ordered == Consecutive(arrivals) /\ Len(buffers) <= 1

\* The events of a list that are not processed yet, in their order: those the
\* loops are at, and behind them the pending ones.
Line(list, k, others, pending) ==
  /\ Len(list) = k + Len(others) + Len(pending)
  /\ \A i \in DOMAIN others : others[i].event = list[k + i]
  /\ \A i \in DOMAIN pending : pending[i] = list[k + Len(others) + i]

LineInv ==
  Ordered =>
    /\ Increasing(arrivals)
    /\ buffers = <<>> => arrivals = <<>> /\ runs = <<>> /\ processed = <<>>
    /\ buffers # <<>> => /\ Line(arrivals, Len(processed), runs, buffers[1].pending)
                         /\ processed # <<>> => buffers[1].last = processed[Len(processed)].number
    /\ \A i \in DOMAIN processed : processed[i] = arrivals[i]

Later(pending, number) == \A i \in DOMAIN pending : pending[i].number > number
Earlier(pending, number) == \A i \in DOMAIN pending : pending[i].number < number

\* The loop takes the next event in line, if any, and drops none.
LEMMA LineLoop ==
  ASSUME NEW others \in Seq(Run), NEW b \in Nat, NEW pending \in Seq(Numbered), NEW last \in Nat,
         NEW by \in Callers, NEW n \in Nat, Looped(b, pending, last, by, others, n), buffers' \in Seq(Kept),
         NEW list \in Seq(Numbered), NEW k \in Nat, Line(list, k, others, pending), Later(pending, last)
  PROVE  Line(list, k, runs', buffers'[b].pending)
<1>1. /\ DOMAIN pending = 1 .. Len(pending) /\ Len(pending) \in Nat
      /\ DOMAIN others = 1 .. Len(others) /\ Len(others) \in Nat
      /\ b \in DOMAIN buffers' /\ n \in 1 .. Len(pending) + 1
      /\ \A j \in 1 .. n - 1 : pending[j].number <= last
  BY LenProperties DEF Looped
<1>2. PICK rest \in Seq(Numbered) : rest = buffers'[b].pending
  <2>1. buffers'[b] \in Kept
    BY <1>1, ElementOfSeq, LenProperties
  <2> QED
    BY <2>1 DEF Kept
<1>3. n = 1
  <2> SUFFICES ASSUME n # 1 PROVE FALSE
    OBVIOUS
  <2>1. 1 \in 1 .. n - 1 /\ 1 \in DOMAIN pending
    BY <1>1
  <2>2. pending[1] \in Numbered
    BY <1>1, <2>1, ElementOfSeq
  <2>3. PICK first \in Nat : first = pending[1].number
    BY <2>2 DEF Numbered
  <2>4. first <= last /\ first > last
    BY <1>1, <2>1, <2>3 DEF Later
  <2> QED
    BY <2>4
<1>4. DOMAIN rest = 1 .. Len(rest) /\ Len(rest) \in Nat
  BY LenProperties
<1>5. /\ Len(list) = k + Len(others) + Len(pending)
      /\ \A i \in 1 .. Len(others) : others[i].event = list[k + i]
      /\ \A i \in 1 .. Len(pending) : pending[i] = list[k + Len(others) + i]
  BY <1>1 DEF Line
<1>6. CASE Waited(b, pending, last, others, n)
  <2>1. runs' = others /\ Len(rest) = Len(pending) - n + 1 /\ \A j \in DOMAIN rest : rest[j] = pending[n + j - 1]
    BY <1>2, <1>6 DEF Waited
  <2>2. Len(rest) = Len(pending)
    BY <1>1, <1>3, <2>1
  <2>3. \A j \in 1 .. Len(pending) : 1 + j - 1 = j
    BY <1>1
  <2>4. \A j \in 1 .. Len(pending) : rest[j] = pending[j]
    BY <1>3, <1>4, <2>1, <2>2, <2>3
  <2>5. /\ Len(list) = k + Len(others) + Len(rest)
        /\ \A i \in DOMAIN others : others[i].event = list[k + i]
        /\ \A i \in DOMAIN rest : rest[i] = list[k + Len(others) + i]
    BY <1>1, <1>4, <1>5, <2>2, <2>4
  <2> QED
    BY <1>2, <2>1, <2>5 DEF Line
<1>7. CASE Took(b, pending, last, by, others, n)
  <2>1. 1 <= Len(pending) /\ 1 \in 1 .. Len(pending) /\ 1 \in DOMAIN pending
    <3>1. n <= Len(pending)
      BY <1>7 DEF Took
    <3> QED
      BY <1>1, <1>3, <3>1
  <2>2. pending[1] \in Numbered
    BY <1>1, <2>1, ElementOfSeq
  <2>3. PICK run \in Run : run = [by |-> by, buffer |-> b, event |-> pending[n]] /\ run.event = pending[1]
    <3>1. [by |-> by, buffer |-> b, event |-> pending[n]] \in Run
      BY <1>3, <2>2 DEF Run
    <3> QED
      BY <1>3, <3>1
  <2>4. runs' = Append(others, run)
    BY <1>7, <2>3 DEF Took
  <2>5. \A j \in DOMAIN rest : rest[j] = pending[1 + j]
    BY <1>2, <1>3, <1>7 DEF Took
  <2>6. /\ Len(runs') = Len(others) + 1 /\ runs'[Len(others) + 1] = run
        /\ \A i \in 1 .. Len(others) : runs'[i] = others[i]
    BY <2>3, <2>4, AppendProperties
  <2>7. DOMAIN runs' = 1 .. Len(others) + 1
    <3>1. runs' \in Seq(Run)
      BY <2>3, <2>4, AppendProperties
    <3> QED
      BY <2>6, <3>1, LenProperties
  <2>0. PICK h \in Nat, l \in Nat : h = Len(others) /\ l = Len(rest) /\ Len(pending) = l + 1
    <3>1. Len(rest) = Len(pending) - 1
      BY <1>2, <1>3, <1>7 DEF Took
    <3>2. Len(others) \in Nat /\ Len(pending) \in Nat
      BY <1>1
    <3>3. Len(pending) = Len(rest) + 1
      BY <1>4, <3>1, <3>2
    <3> QED
      BY <1>4, <3>2, <3>3, Zenon
  <2>8. Len(list) = k + (h + 1) + l
    <3>1. Len(list) = k + h + (l + 1)
      BY <1>5, <2>0
    <3> QED
      BY <3>1
  <2>9. \A i \in 1 .. Len(others) + 1 : runs'[i].event = list[k + i]
    <3> SUFFICES ASSUME NEW i \in 1 .. Len(others) + 1 PROVE runs'[i].event = list[k + i]
      OBVIOUS
    <3>1. CASE i \in 1 .. Len(others)
      BY <1>5, <2>6, <3>1
    <3>2. CASE i = Len(others) + 1
      <4>1. pending[1] = list[k + Len(others) + 1] /\ k + Len(others) + 1 = k + i
        BY <1>1, <1>5, <2>1, <3>2
      <4> QED
        BY <2>3, <2>6, <3>2, <4>1
    <3>3. i \in 1 .. h + 1 => i \in 1 .. h \/ i = h + 1
      OBVIOUS
    <3> QED
      BY <2>0, <3>1, <3>2, <3>3
  <2>10. \A i \in 1 .. l : rest[i] = list[k + (h + 1) + i]
    <3>1. \A i \in 1 .. l : 1 + i \in 1 .. l + 1 /\ k + h + (1 + i) = k + (h + 1) + i
      OBVIOUS
    <3>2. \A i \in 1 .. l + 1 : pending[i] = list[k + h + i]
      BY <1>5, <2>0
    <3>3. \A i \in 1 .. l : rest[i] = pending[1 + i]
      BY <1>4, <2>0, <2>5
    <3> QED
      BY <3>1, <3>2, <3>3
  <2>11. Len(runs') = h + 1 /\ DOMAIN runs' = 1 .. h + 1 /\ DOMAIN rest = 1 .. l
    BY <1>4, <2>0, <2>6, <2>7
  <2> QED
    BY <1>2, <2>0, <2>8, <2>9, <2>10, <2>11 DEF Line
<1> QED
  BY <1>6, <1>7 DEF Looped

\* An event above all the pending ones is sorted in behind them.
LEMMA SortedInLast ==
  ASSUME NEW pending \in Seq(Numbered), NEW event \in Numbered,
         Earlier(pending, event.number)
  PROVE  /\ SortedIn(pending, event) \in Seq(Numbered)
         /\ Len(SortedIn(pending, event)) = Len(pending) + 1
         /\ SortedIn(pending, event)[Len(pending) + 1] = event
         /\ \A j \in 1 .. Len(pending) : SortedIn(pending, event)[j] = pending[j]
<1>1. event.number \in Nat /\ Len(pending) \in Nat /\ DOMAIN pending = 1 .. Len(pending)
  BY LenProperties DEF Numbered
<1>2. PICK i \in 1 .. Len(pending) + 1 :
        i = FirstAbove(pending, event.number) /\ (i <= Len(pending) => pending[i].number > event.number)
  BY <1>1, FirstAboveIs
<1>3. i = Len(pending) + 1
  <2> SUFFICES ASSUME i <= Len(pending) PROVE FALSE
    BY <1>1, <1>2
  <2>1. i \in DOMAIN pending
    BY <1>1
  <2>2. pending[i] \in Numbered
    BY <1>1, <2>1, ElementOfSeq
  <2>3. pending[i].number > event.number /\ pending[i].number < event.number /\ pending[i].number \in Nat
    BY <1>2, <2>1, <2>2 DEF Numbered, Earlier
  <2> QED
    BY <1>1, <2>3
<1>4. Len(pending) + 1 - 1 = Len(pending)
  BY <1>1
<1>5. PICK sorted \in Seq(Numbered) :
        /\ sorted = SortedIn(pending, event) /\ Len(sorted) = Len(pending) + 1 /\ sorted[i] = event
        /\ \A j \in 1 .. i - 1 : sorted[j] = pending[j]
  BY <1>2, SortedInIs
<1> QED
  BY <1>3, <1>4, <1>5
LEMMA ConsecutiveIncreases ==
  ASSUME NEW list \in Seq(Numbered), NEW event \in Numbered, NEW longer, longer = Append(list, event),
         Consecutive(longer)
  PROVE  Consecutive(list) /\ (Increasing(list) => Increasing(longer))
<1>1. PICK m \in Nat : m = Len(list)
  <2>1. Len(list) \in Nat
    BY LenProperties
  <2> QED
    BY <2>1, Zenon
<1>2. /\ longer \in Seq(Numbered) /\ Len(longer) = m + 1 /\ longer[m + 1] = event
      /\ \A i \in 1 .. m : longer[i] = list[i]
  BY <1>1, AppendProperties
<1>3. DOMAIN list = 1 .. m /\ DOMAIN longer = 1 .. m + 1
  BY <1>1, <1>2, LenProperties
<1>4. \A i \in 1 .. m + 1 : longer[i].number \in Nat
  <2>1. \A i \in 1 .. m + 1 : longer[i] \in Numbered
    BY <1>2, ElementOfSeq
  <2> QED
    BY <2>1 DEF Numbered
<1>5. \A i \in 2 .. m + 1 : longer[i].number = longer[i - 1].number + 1
  BY <1>2 DEF Consecutive
<1>6. Consecutive(list)
  <2>1. ASSUME NEW i \in 2 .. m PROVE list[i].number = list[i - 1].number + 1
    <3>1. i \in 2 .. m + 1 /\ i \in 1 .. m /\ i - 1 \in 1 .. m
      OBVIOUS
    <3> QED
      BY <1>2, <1>5, <3>1
  <2> QED
    BY <1>1, <2>1 DEF Consecutive
<1>7. ASSUME Increasing(list), NEW i \in 1 .. m + 1, NEW j \in 1 .. m + 1, i < j
      PROVE  longer[i].number < longer[j].number
  <2>1. i \in 1 .. m
    BY <1>7
  <2>2. CASE j \in 1 .. m
    BY <1>2, <1>3, <1>7, <2>1, <2>2 DEF Increasing
  <2>3. CASE j = m + 1
    <3>1. m \in 1 .. m /\ m \in 1 .. m + 1 /\ j \in 2 .. m + 1 /\ j - 1 = m
      BY <2>1, <2>3
    <3>2. PICK x \in Nat, y \in Nat, z \in Nat : x = longer[i].number /\ y = longer[m].number /\ z = longer[j].number
      <4>1. longer[i].number \in Nat /\ longer[m].number \in Nat /\ longer[j].number \in Nat
        BY <1>4, <3>1
      <4> QED
        BY <4>1, Zenon
    <3>3. z = y + 1
      BY <1>5, <3>1, <3>2
    <3>4. i = m \/ i < m
      BY <2>1
    <3>5. i < m => x < y
      BY <1>2, <1>3, <1>7, <2>1, <3>1, <3>2 DEF Increasing
    <3>6. i = m => x = y
      BY <3>2
    <3>7. x < z
      BY <3>3, <3>4, <3>5, <3>6
    <3> QED
      BY <3>2, <3>7
  <2>4. j \in 1 .. m \/ j = m + 1
    OBVIOUS
  <2> QED
    BY <2>2, <2>3, <2>4
<1>8. Increasing(list) => Increasing(longer)
  <2> SUFFICES ASSUME Increasing(list) PROVE Increasing(longer)
    OBVIOUS
  <2>1. \A i, j \in 1 .. m + 1 : i < j => longer[i].number < longer[j].number
    BY <1>7
  <2> QED
    BY <1>3, <2>1 DEF Increasing
<1> QED
  BY <1>6, <1>8
\* What is pending comes behind everything that is not.
LEMMA BehindIsLater ==
  ASSUME NEW list \in Seq(Numbered), NEW k \in Nat, NEW others \in Seq(Run), NEW pending \in Seq(Numbered),
         Line(list, k, others, pending), Increasing(list), NEW j \in Nat, j > 0, j <= k + Len(others)
  PROVE  Later(pending, list[j].number)
<1>1. PICK h \in Nat, l \in Nat : h = Len(others) /\ l = Len(pending)
  <2>1. Len(others) \in Nat /\ Len(pending) \in Nat
    BY LenProperties
  <2> QED
    BY <2>1, Zenon
<1>2. DOMAIN list = 1 .. k + h + l /\ DOMAIN pending = 1 .. l
  BY <1>1, LenProperties DEF Line
<1>3. \A i \in 1 .. l : pending[i] = list[k + h + i]
  BY <1>1, <1>2 DEF Line
<1>4. j <= k + h
  BY <1>1
<1>5. ASSUME NEW i \in 1 .. l PROVE pending[i].number > list[j].number
  <2>1. j \in 1 .. k + h + l /\ k + h + i \in 1 .. k + h + l /\ j < k + h + i
    BY <1>4
  <2>2. list[j].number < list[k + h + i].number
    BY <1>2, <2>1 DEF Increasing
  <2>3. PICK x \in Nat, y \in Nat : x = list[j].number /\ y = list[k + h + i].number
    <3>1. list[j] \in Numbered /\ list[k + h + i] \in Numbered
      BY <1>2, <2>1
    <3>2. list[j].number \in Nat /\ list[k + h + i].number \in Nat
      BY <3>1 DEF Numbered
    <3> QED
      BY <3>2, Zenon
  <2>4. y > x
    BY <2>2, <2>3
  <2> QED
    BY <1>3, <2>3, <2>4
<1> QED
  BY <1>2, <1>5 DEF Later

\* An event that comes in order goes to the end of the line.
LEMMA LineSorted ==
  ASSUME NEW list \in Seq(Numbered), NEW k \in Nat, NEW others \in Seq(Run), NEW pending \in Seq(Numbered),
         NEW event \in Numbered, NEW longer, longer = Append(list, event),
         Line(list, k, others, pending), Increasing(longer)
  PROVE  Line(longer, k, others, SortedIn(pending, event))
<1>1. PICK h \in Nat, l \in Nat : h = Len(others) /\ l = Len(pending)
  <2>1. Len(others) \in Nat /\ Len(pending) \in Nat
    BY LenProperties
  <2> QED
    BY <2>1, Zenon
<1>2. /\ DOMAIN others = 1 .. h /\ DOMAIN pending = 1 .. l /\ Len(list) = k + h + l
      /\ \A i \in 1 .. h : others[i].event = list[k + i]
      /\ \A i \in 1 .. l : pending[i] = list[k + h + i]
  <2>1. DOMAIN others = 1 .. h /\ DOMAIN pending = 1 .. l
    BY <1>1, LenProperties
  <2> QED
    BY <1>1, <2>1 DEF Line
<1>3. /\ longer \in Seq(Numbered) /\ Len(longer) = k + h + l + 1 /\ longer[k + h + l + 1] = event
      /\ \A i \in 1 .. k + h + l : longer[i] = list[i]
  BY <1>2, AppendProperties
<1>4. \A i \in 1 .. h : k + i \in 1 .. k + h + l
  OBVIOUS
<1>5. \A i \in 1 .. l : k + h + i \in 1 .. k + h + l
  OBVIOUS
<1>6. Earlier(pending, event.number)
  <2>1. DOMAIN longer = 1 .. k + h + l + 1
    BY <1>3, LenProperties
  <2>2. ASSUME NEW i \in 1 .. l PROVE pending[i].number < event.number
    <3>1. k + h + i \in DOMAIN longer /\ k + h + l + 1 \in DOMAIN longer /\ k + h + i < k + h + l + 1
      BY <2>1
    <3>2. longer[k + h + i].number < longer[k + h + l + 1].number
      BY <3>1 DEF Increasing
    <3>3. pending[i] = longer[k + h + i] /\ event = longer[k + h + l + 1]
      BY <1>2, <1>3, <1>5
    <3> QED
      BY <3>2, <3>3
  <2> QED
    BY <1>2, <2>2 DEF Earlier
<1>7. PICK sorted \in Seq(Numbered) :
        /\ sorted = SortedIn(pending, event) /\ Len(sorted) = l + 1 /\ sorted[l + 1] = event
        /\ \A i \in 1 .. l : sorted[i] = pending[i]
  <2>1. SortedIn(pending, event) \in Seq(Numbered)
    BY <1>6, SortedInLast
  <2> QED
    BY <1>1, <1>6, <2>1, SortedInLast
<1>8. \A i \in 1 .. l + 1 : sorted[i] = longer[k + h + i]
  <2> SUFFICES ASSUME NEW i \in 1 .. l + 1 PROVE sorted[i] = longer[k + h + i]
    OBVIOUS
  <2>1. CASE i \in 1 .. l
    BY <1>2, <1>3, <1>5, <1>7, <2>1
  <2>2. CASE i = l + 1
    <3>1. k + h + i = k + h + l + 1
      BY <2>2
    <3> QED
      BY <1>3, <1>7, <2>2, <3>1
  <2>3. i \in 1 .. l \/ i = l + 1
    OBVIOUS
  <2> QED
    BY <2>1, <2>2, <2>3
<1>9. \A i \in 1 .. h : others[i].event = longer[k + i]
  BY <1>2, <1>3, <1>4
<1>10. DOMAIN sorted = 1 .. l + 1 /\ Len(longer) = k + h + (l + 1)
  <2>1. k + h + l + 1 = k + h + (l + 1)
    OBVIOUS
  <2> QED
    BY <1>3, <1>7, <2>1, LenProperties
<1> QED
  BY <1>1, <1>2, <1>7, <1>8, <1>9, <1>10 DEF Line

\* The first of the runs leaves the line.
LEMMA LineWithoutFirst ==
  ASSUME NEW list \in Seq(Numbered), NEW k \in Nat, NEW all \in Seq(Run), all # <<>>, NEW pending \in Seq(Numbered),
         Line(list, k, all, pending)
  PROVE  /\ Line(list, k + 1, Tail(all), pending)
         /\ k + 1 <= Len(list) /\ Head(all).event = list[k + 1]
<1>1. PICK h \in Nat, l \in Nat : h + 1 = Len(all) /\ l = Len(pending)
  <2>1. Len(all) \in Nat /\ Len(pending) \in Nat /\ Len(all) > 0
    BY LenProperties, EmptySeq
  <2>2. PICK h \in Nat : h = Len(all) - 1
    <3>1. Len(all) - 1 \in Nat
      BY <2>1
    <3> QED
      BY <3>1, Zenon
  <2>3. h + 1 = Len(all)
    BY <2>1, <2>2
  <2> QED
    BY <2>1, <2>3, Zenon
<1>2. PICK others \in Seq(Run) : /\ others = Tail(all) /\ Len(others) = h /\ Head(all) = all[1]
                                 /\ \A i \in 1 .. h : others[i] = all[i + 1]
  <2>1. /\ Tail(all) \in Seq(Run) /\ Len(Tail(all)) = Len(all) - 1 /\ Head(all) = all[1]
        /\ \A i \in 1 .. Len(Tail(all)) : Tail(all)[i] = all[i + 1]
    BY HeadTailProperties
  <2>2. Len(Tail(all)) = h
    BY <1>1, <2>1
  <2> QED
    BY <2>1, <2>2
<1>3. /\ DOMAIN all = 1 .. h + 1 /\ DOMAIN others = 1 .. h /\ DOMAIN pending = 1 .. l
  BY <1>1, <1>2, LenProperties
<1>4. /\ Len(list) = k + (h + 1) + l
      /\ \A i \in 1 .. h + 1 : all[i].event = list[k + i]
      /\ \A i \in 1 .. l : pending[i] = list[k + (h + 1) + i]
  BY <1>1, <1>3 DEF Line
<1>5. 1 \in 1 .. h + 1 /\ k + (h + 1) + l = (k + 1) + h + l /\ k + 1 <= k + (h + 1) + l
  OBVIOUS
<1>6. \A i \in 1 .. h : i + 1 \in 1 .. h + 1 /\ k + (i + 1) = (k + 1) + i
  OBVIOUS
<1>7. \A i \in 1 .. l : k + (h + 1) + i = (k + 1) + h + i
  OBVIOUS
<1>8. /\ Len(list) = (k + 1) + h + l
      /\ \A i \in 1 .. h : others[i].event = list[(k + 1) + i]
      /\ \A i \in 1 .. l : pending[i] = list[(k + 1) + h + i]
  BY <1>2, <1>4, <1>5, <1>6, <1>7
<1>9. Line(list, k + 1, others, pending)
  BY <1>1, <1>2, <1>3, <1>8 DEF Line
<1>10. k + 1 <= Len(list) /\ Head(all).event = list[k + 1]
  BY <1>2, <1>4, <1>5
<1> QED
  BY <1>2, <1>9, <1>10
LEMMA LineAdded ==
  ASSUME BufferTypeOK, LineInv, NEW event \in Numbered, AddEvent(event), Ordered',
         \A last \in Nat :
           last = 0 \/ (current # 0 /\ last = buffers[current].last)
             => (\E d \in Done' : d.number = last) \/ Above(last)'
  PROVE  LineInv'
<1>1. PICK b \in Nat :
        /\ b = current' /\ buffers' \in Seq(Kept) /\ UNCHANGED processed
        /\ arrivals' = Append(arrivals, event)
        /\ DOMAIN buffers' = DOMAIN buffers \cup {b}
  BY AddedIs
<1>2. PICK n \in Nat, pending \in Seq(Numbered), last \in Nat :
        Opened(b, pending, last) /\ Looped(b, SortedIn(pending, event), last, event.by, runs, n)
  BY <1>1, AddedIs
<1>3. PICK sorted \in Seq(Numbered), longer \in Seq(Numbered), k \in Nat :
        sorted = SortedIn(pending, event) /\ longer = arrivals' /\ k = Len(processed)
  <2>1. SortedIn(pending, event) \in Seq(Numbered)
    BY SortedInIs
  <2>2. arrivals' \in Seq(Numbered)
    BY <1>1, AppendProperties DEF BufferTypeOK
  <2>3. Len(processed) \in Nat
    BY LenProperties DEF BufferTypeOK
  <2> QED
    BY <2>1, <2>2, <2>3, Zenon
<1>4. Consecutive(arrivals) /\ (Increasing(arrivals) => Increasing(longer))
  <2>1. arrivals \in Seq(Numbered) /\ longer = Append(arrivals, event) /\ Consecutive(longer)
    BY <1>1, <1>3 DEF BufferTypeOK, Ordered
  <2> QED
    BY <2>1, ConsecutiveIncreases
<1>5. b = 1 /\ Len(buffers) \in {0, 1} /\ Len(buffers') = 1 /\ DOMAIN buffers = 1 .. Len(buffers)
  <2>1. DOMAIN buffers = 1 .. Len(buffers) /\ Len(buffers) \in Nat
    BY LenProperties DEF BufferTypeOK
  <2>2. DOMAIN buffers' = 1 .. Len(buffers') /\ Len(buffers') \in Nat /\ Len(buffers') <= 1
    BY <1>1, LenProperties DEF Ordered
  <2>3. b \in 1 .. Len(buffers')
    BY <1>1, <2>2
  <2>4. b = 1 /\ Len(buffers') = 1
    BY <2>2, <2>3
  <2>5. Len(buffers) <= 1
    <3>0. DOMAIN buffers \subseteq 1 .. 1
      BY <1>1, <2>2, <2>4
    <3>1. 2 \notin DOMAIN buffers
      BY <3>0
    <3> QED
      BY <2>1, <3>1
  <2> QED
    BY <2>1, <2>4, <2>5
<1>6. Ordered /\ Increasing(arrivals) /\ Increasing(longer)
  BY <1>4, <1>5 DEF Ordered, LineInv
<1>7. /\ Line(arrivals, k, runs, pending)
      /\ processed # <<>> => last = processed[Len(processed)].number
      /\ \A i \in DOMAIN processed : processed[i] = arrivals[i]
  <2>1. CASE buffers = <<>>
    <3>1. current = 0
      BY <2>1 DEF BufferTypeOK
    <3>2. pending = <<>> /\ arrivals = <<>> /\ runs = <<>> /\ processed = <<>> /\ k = 0
      BY <1>2, <1>3, <1>6, <2>1, <3>1 DEF Opened, LineInv
    <3> QED
      BY <3>2 DEF Line
  <2>2. CASE buffers # <<>>
    <3>1. Len(buffers) = 1
      BY <1>5, <2>2, EmptySeq DEF BufferTypeOK
    <3>2. current = 1 /\ b = 1 /\ pending = buffers[1].pending /\ last = buffers[1].last
      BY <1>2, <1>5, <3>1 DEF Opened
    <3> QED
      BY <1>3, <1>6, <2>2, <3>2 DEF LineInv
  <2> QED
    BY <2>1, <2>2
<1>8. Line(longer, k, runs, sorted)
  <2>1. arrivals \in Seq(Numbered) /\ runs \in Seq(Run) /\ longer = Append(arrivals, event)
    BY <1>1, <1>3 DEF BufferTypeOK
  <2> QED
    BY <1>3, <1>6, <1>7, <2>1, LineSorted
<1>9. /\ \A i \in DOMAIN processed : processed[i] = longer[i]
      /\ DOMAIN processed = 1 .. k
  <2>1. arrivals \in Seq(Numbered) /\ runs \in Seq(Run) /\ processed \in Seq(Numbered)
    BY DEF BufferTypeOK
  <2>2. PICK h \in Nat, l \in Nat : h = Len(runs) /\ l = Len(pending)
    <3>1. Len(runs) \in Nat /\ Len(pending) \in Nat
      BY <2>1, LenProperties
    <3> QED
      BY <3>1, Zenon
  <2>3. Len(arrivals) = k + h + l
    BY <1>7, <2>2 DEF Line
  <2>4. \A i \in 1 .. k + h + l : longer[i] = arrivals[i]
    BY <1>1, <1>3, <2>1, <2>3, AppendProperties
  <2>5. \A i \in 1 .. k : i \in 1 .. k + h + l
    OBVIOUS
  <2>6. DOMAIN processed = 1 .. k
    BY <1>3, <2>1, LenProperties
  <2> QED
    BY <1>7, <2>4, <2>5, <2>6
<1>10. Later(sorted, last)
  <2>1. CASE k = 0
    <3>1. Done' = {}
      <4>1. DOMAIN processed' = {}
        BY <1>1, <1>9, <2>1
      <4> QED
        BY <4>1 DEF Done, Range
    <3>2. last = 0 \/ (current # 0 /\ last = buffers[current].last)
      BY <1>2 DEF Opened
    <3>3. Above(last)'
      BY <3>1, <3>2
    <3>4. \A i \in DOMAIN longer : longer[i].number > last
      BY <1>3, <3>3 DEF Above
    <3>5. \A i \in DOMAIN sorted : \E j \in DOMAIN longer : sorted[i] = longer[j]
      <4>1. PICK h \in Nat, l \in Nat : h = Len(runs) /\ l = Len(sorted)
        <5>1. Len(runs) \in Nat /\ Len(sorted) \in Nat
          BY LenProperties DEF BufferTypeOK
        <5> QED
          BY <5>1, Zenon
      <4>2. DOMAIN longer = 1 .. k + h + l /\ DOMAIN sorted = 1 .. l
        BY <1>8, <4>1, LenProperties DEF Line
      <4>3. \A i \in 1 .. l : k + h + i \in 1 .. k + h + l
        OBVIOUS
      <4>4. \A i \in 1 .. l : sorted[i] = longer[k + h + i]
        BY <1>8, <4>1, <4>2 DEF Line
      <4> QED
        BY <4>2, <4>3, <4>4
    <3> QED
      BY <3>4, <3>5 DEF Later
  <2>2. CASE k # 0
    <3>1. k \in DOMAIN processed /\ k > 0 /\ processed # <<>>
      BY <1>9, <2>2
    <3>2. last = longer[k].number
      BY <1>3, <1>7, <1>9, <3>1
    <3>3. k <= k + Len(runs) /\ runs \in Seq(Run)
      <4>1. Len(runs) \in Nat
        BY LenProperties DEF BufferTypeOK
      <4> QED
        BY <4>1 DEF BufferTypeOK
    <3> QED
      BY <1>6, <1>8, <3>1, <3>2, <3>3, BehindIsLater
  <2> QED
    BY <2>1, <2>2
<1>11. Line(longer, k, runs', buffers'[1].pending) /\ buffers'[1].last = last
  <2>1. Looped(1, sorted, last, event.by, runs, n) /\ event.by \in Callers /\ runs \in Seq(Run) /\ 1 \in Nat
    BY <1>2, <1>3, <1>5 DEF Numbered, BufferTypeOK
  <2>2. buffers'[1].last = last
    BY <2>1 DEF Looped
  <2> QED
    BY <1>1, <1>8, <1>10, <2>1, <2>2, LineLoop
<1>12. buffers' # <<>>
  <2>1. 1 \in DOMAIN buffers'
    BY <1>1, <1>5
  <2> QED
    BY <2>1
<1> QED
  BY <1>1, <1>3, <1>6, <1>7, <1>9, <1>11, <1>12 DEF LineInv
LEMMA LineProcessed ==
  ASSUME BufferTypeOK, LineInv, EventProcessed, Ordered'
  PROVE  LineInv'
<1>1. PICK run \in Run, b \in Nat, event \in Numbered, last \in Nat :
        /\ run = Head(runs) /\ b = run.buffer /\ event = run.event /\ last = event.number
        /\ b \in DOMAIN buffers /\ run.by \in Callers
  <2>1. PICK run \in Run : run = Head(runs) /\ run.buffer \in DOMAIN buffers
    BY ProcessedIs
  <2>2. run.buffer \in Nat /\ run.event \in Numbered /\ run.event.number \in Nat /\ run.by \in Callers
    BY DEF Run, Numbered
  <2> QED
    BY <2>1, <2>2, Zenon
<1>2. /\ runs # <<>> /\ buffers' \in Seq(Kept) /\ DOMAIN buffers' = DOMAIN buffers
      /\ processed' = Append(processed, event) /\ UNCHANGED <<current, arrivals>>
  BY <1>1, ProcessedIs
<1>3. PICK pending \in Seq(Numbered), n \in Nat :
        pending = buffers[b].pending /\ Looped(b, pending, last, run.by, Tail(runs), n)
  <2>1. buffers[b] \in Kept
    BY <1>1 DEF BufferTypeOK
  <2>2. buffers[b].pending \in Seq(Numbered)
    BY <2>1 DEF Kept
  <2> QED
    BY <1>1, <2>2, ProcessedIs
<1>4. /\ DOMAIN buffers = 1 .. Len(buffers) /\ Len(buffers) \in Nat
      /\ DOMAIN buffers' = 1 .. Len(buffers') /\ Len(buffers') \in Nat
  BY <1>2, LenProperties DEF BufferTypeOK
<1>5. b = 1 /\ Ordered /\ buffers # <<>> /\ buffers' # <<>>
  <2>1. Len(buffers') <= 1
    BY DEF Ordered
  <2>2. b \in 1 .. Len(buffers')
    BY <1>1, <1>2, <1>4
  <2>3. b = 1 /\ Len(buffers') = 1
    BY <1>4, <2>1, <2>2
  <2>4. Len(buffers) = Len(buffers')
    BY <1>2 DEF BufferTypeOK
  <2>5. buffers # <<>> /\ buffers' # <<>>
    BY <1>1, <1>2
  <2> QED
    BY <1>2, <2>3, <2>4, <2>5 DEF Ordered
<1>6. PICK k \in Nat, list \in Seq(Numbered) : k = Len(processed) /\ list = arrivals
  <2>1. Len(processed) \in Nat /\ arrivals \in Seq(Numbered)
    BY LenProperties DEF BufferTypeOK
  <2> QED
    BY <2>1, Zenon
<1>7. /\ Increasing(list) /\ Line(list, k, runs, pending)
      /\ \A i \in DOMAIN processed : processed[i] = list[i]
  BY <1>3, <1>5, <1>6 DEF LineInv
<1>8. PICK others \in Seq(Run) :
        others = Tail(runs) /\ Line(list, k + 1, others, pending) /\ event = list[k + 1]
  <2>1. runs \in Seq(Run) /\ Tail(runs) \in Seq(Run)
    BY <1>2, HeadTailProperties DEF BufferTypeOK
  <2> QED
    BY <1>1, <1>2, <1>7, <2>1, LineWithoutFirst
<1>9. PICK next \in Nat : next = k + 1 /\ next > 0 /\ next <= next + Len(others)
  <2>1. Len(others) \in Nat /\ k + 1 \in Nat /\ k + 1 > 0
    BY LenProperties
  <2>2. k + 1 <= k + 1 + Len(others)
    BY <2>1
  <2> QED
    BY <2>1, <2>2, Zenon
<1>10. Later(pending, last)
  BY <1>1, <1>7, <1>8, <1>9, BehindIsLater
<1>11. Line(list, next, runs', buffers'[1].pending) /\ buffers'[1].last = last
  <2>1. Looped(1, pending, last, run.by, others, n) /\ 1 \in Nat
    BY <1>3, <1>5, <1>8
  <2>2. buffers'[1].last = last
    BY <2>1 DEF Looped
  <2> QED
    BY <1>1, <1>2, <1>8, <1>9, <1>10, <2>1, <2>2, LineLoop
<1>12. /\ Len(processed') = next /\ DOMAIN processed' = 1 .. next /\ processed'[next] = event
       /\ \A i \in 1 .. k : processed'[i] = processed[i]
  <2>1. processed' \in Seq(Numbered)
    BY <1>2, AppendProperties DEF BufferTypeOK
  <2> QED
    BY <1>2, <1>6, <1>9, <2>1, AppendProperties, LenProperties DEF BufferTypeOK
<1>13. \A i \in DOMAIN processed' : processed'[i] = list[i]
  <2>1. DOMAIN processed = 1 .. k
    BY <1>6, LenProperties DEF BufferTypeOK
  <2>2. \A i \in 1 .. next : i \in 1 .. k \/ i = next
    BY <1>9
  <2> QED
    BY <1>7, <1>8, <1>9, <1>12, <2>1, <2>2
<1> QED
  BY <1>1, <1>2, <1>5, <1>6, <1>7, <1>11, <1>12, <1>13 DEF LineInv

LEMMA LineNext ==
  ASSUME NumberInv, BufferTypeOK, LineInv, LastIsPassed, LastIsPassed', [PublisherNext]_publisherVars
  PROVE  LineInv'
<1> SUFFICES ASSUME Ordered' PROVE LineInv'
  BY DEF LineInv
<1>1. CASE UNCHANGED bufferVars
  BY <1>1 DEF bufferVars, LineInv, Ordered
<1>2. ASSUME NEW c \in Callers, Buffered(c) PROVE LineInv'
  <2>1. PICK event \in Numbered : AddEvent(event)
    BY <1>2, EventIsNumbered
  <2>2. ASSUME NEW last \in Nat, last = 0 \/ (current # 0 /\ last = buffers[current].last)
        PROVE  (\E d \in Done' : d.number = last) \/ Above(last)'
    BY <1>2, <2>1, <2>2, AddedIsPassed
  <2> QED
    BY <2>1, <2>2, LineAdded
<1>3. CASE EventProcessed
  BY <1>3, LineProcessed
<1>4. CASE CleanUp
  BY <1>4 DEF CleanUp, LineInv, Ordered
<1>5. CASE BuffersAreLost
  BY <1>5 DEF BuffersAreLost, LineInv, Increasing
<1> QED
  BY <1>1, <1>2, <1>3, <1>4, <1>5, BufferSteps

LEMMA LineKeepsOrder ==
  ASSUME BufferTypeOK, Waits, LineInv
  PROVE  OrderedArrivalsKeepOrder
<1> SUFFICES ASSUME Ordered
             PROVE  /\ processed = SubSeq(arrivals, 1, Len(processed))
                    /\ runs = <<>> /\ processed # <<>> => processed = arrivals
  BY DEF OrderedArrivalsKeepOrder, Ordered, Consecutive
<1>1. PICK k \in Nat, m \in Nat :
        /\ k = Len(processed) /\ m = Len(arrivals)
        /\ DOMAIN processed = 1 .. k /\ DOMAIN arrivals = 1 .. m
  <2>1. Len(processed) \in Nat /\ Len(arrivals) \in Nat
    BY LenProperties DEF BufferTypeOK
  <2>2. DOMAIN processed = 1 .. Len(processed) /\ DOMAIN arrivals = 1 .. Len(arrivals)
    BY LenProperties DEF BufferTypeOK
  <2> QED
    BY <2>1, <2>2, Zenon
<1>2. processed \in Seq(Numbered) /\ arrivals \in Seq(Numbered) /\ \A i \in 1 .. k : processed[i] = arrivals[i]
  BY <1>1 DEF BufferTypeOK, LineInv
<1>3. k <= m
  <2>1. CASE buffers = <<>>
    BY <1>1, <2>1 DEF LineInv
  <2>2. CASE buffers # <<>>
    <3>1. PICK pending \in Seq(Numbered) : Line(arrivals, k, runs, pending)
      <4>1. buffers[1] \in Kept
        BY <2>2 DEF BufferTypeOK
      <4>2. buffers[1].pending \in Seq(Numbered)
        BY <4>1 DEF Kept
      <4> QED
        BY <1>1, <2>2, <4>2 DEF LineInv
    <3>2. PICK h \in Nat, l \in Nat : h = Len(runs) /\ l = Len(pending)
      <4>1. Len(runs) \in Nat /\ Len(pending) \in Nat
        BY LenProperties DEF BufferTypeOK
      <4> QED
        BY <4>1, Zenon
    <3>3. m = k + h + l
      BY <1>1, <3>1, <3>2 DEF Line
    <3> QED
      BY <3>3
  <2> QED
    BY <2>1, <2>2
<1>4. processed = SubSeq(arrivals, 1, k)
  <2>1. \A i \in 1 .. k : arrivals[i] \in Numbered
    BY <1>1, <1>2, <1>3
  <2>2. PICK front : front = SubSeq(arrivals, 1, k)
    OBVIOUS
  <2>3. /\ front \in Seq(Numbered) /\ Len(front) = IF 1 <= k THEN k - 1 + 1 ELSE 0
        /\ \A i \in 1 .. k - 1 + 1 : front[i] = arrivals[1 + i - 1]
    BY <1>2, <2>1, <2>2, SubSeqProperties
  <2>4. Len(front) = k /\ k - 1 + 1 = k /\ \A i \in 1 .. k : 1 + i - 1 = i
    BY <2>3
  <2>5. \A i \in 1 .. k : front[i] = arrivals[i]
    BY <2>3, <2>4
  <2> QED
    BY <1>1, <1>2, <2>2, <2>3, <2>4, <2>5, SeqEqual
<1>5. ASSUME runs = <<>>, processed # <<>> PROVE processed = arrivals
  <2>1. k \in DOMAIN processed /\ k > 0
    BY <1>1, <1>2, <1>5, EmptySeq
  <2>2. buffers # <<>>
    BY <1>5 DEF LineInv
  <2>3. 1 \in DOMAIN buffers /\ buffers[1] \in Kept
    BY <2>2 DEF BufferTypeOK
  <2>4. PICK pending \in Seq(Numbered), last \in Nat : pending = buffers[1].pending /\ last = buffers[1].last
    <3>1. buffers[1].pending \in Seq(Numbered) /\ buffers[1].last \in Nat
      BY <2>3 DEF Kept
    <3> QED
      BY <3>1, Zenon
  <2>5. Line(arrivals, k, runs, pending) /\ last = arrivals[k].number
    BY <1>1, <1>2, <1>5, <2>1, <2>2, <2>4 DEF LineInv
  <2>6. PICK l \in Nat : l = Len(pending)
    <3>1. Len(pending) \in Nat
      BY LenProperties
    <3> QED
      BY <3>1, Zenon
  <2>7. m = k + l /\ \A i \in 1 .. l : pending[i] = arrivals[k + i]
    <3>1. Len(runs) = 0 /\ DOMAIN pending = 1 .. l
      BY <1>5, <2>6, LenProperties
    <3>2. m = k + 0 + l /\ \A i \in 1 .. l : pending[i] = arrivals[k + 0 + i]
      BY <1>1, <2>5, <2>6, <3>1 DEF Line
    <3>3. k + 0 = k
      OBVIOUS
    <3> QED
      BY <3>2, <3>3
  <2>8. pending = <<>>
    <3> SUFFICES ASSUME pending # <<>> PROVE FALSE
      OBVIOUS
    <3>1. l > 0
      BY <2>6, EmptySeq
    <3>2. ~Processable(pending[1].number, last)
      BY <1>5, <2>3, <2>4 DEF Waits, MustWait, Busy
    <3>3. 1 \in 1 .. l /\ k + 1 \in 2 .. m /\ (k + 1) - 1 = k
      BY <2>1, <2>7, <3>1
    <3>4. arrivals[k + 1].number = arrivals[k].number + 1
      BY <1>1, <3>3 DEF Ordered, Consecutive
    <3>5. pending[1].number = last + 1
      BY <2>5, <2>7, <3>3, <3>4
    <3> QED
      BY <3>2, <3>5 DEF Processable
  <2>9. l = 0
    BY <2>6, <2>8
  <2>10. m = k
    BY <2>7, <2>9
  <2> QED
    BY <1>1, <1>2, <2>10, SeqEqual
<1> QED
  BY <1>1, <1>4, <1>5

\* Events that arrive in order are processed in order, and all of those the
\* buffer has taken, for any number of publishers and restarts
\* (event-buffer.service.ts:63-204).
THEOREM BufferKeepsOrder == PublisherSpec => []OrderedArrivalsKeepOrder
<1> DEFINE Inv == KeepInv /\ Waits /\ LineInv
<1>1. PublisherInit => Inv
  <2> SUFFICES ASSUME PublisherInit PROVE Waits /\ LineInv
    BY KeepInit
  <2>1. \A b \in DOMAIN buffers : buffers[b].pending = <<>>
    BY DEF PublisherInit, BufferInit, Buffer
  <2>2. arrivals = <<>> /\ runs = <<>> /\ processed = <<>>
    BY DEF PublisherInit, BufferInit
  <2>3. buffers # <<>> => buffers[1].pending = <<>>
    BY <2>1, BufferTypeInit DEF BufferTypeOK
  <2> QED
    BY <2>1, <2>2, <2>3 DEF Waits, MustWait, LineInv, Line, Increasing
<1>2. Inv /\ [PublisherNext]_publisherVars => Inv'
  BY KeepNext, WaitsNext, LineNext DEF KeepInv
<1>3. Inv => OrderedArrivalsKeepOrder
  BY LineKeepsOrder DEF KeepInv
<1> HIDE DEF Inv
<1> QED
  BY <1>1, <1>2, <1>3, PTL DEF PublisherSpec
===============================================================================
