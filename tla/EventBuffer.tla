------------------------------ MODULE EventBuffer ------------------------------
(***************************************************************************)
(* EventBufferService, for one entity.  A call of addEvent sorts its event *)
(* in and runs the loop of processBufferedEvents until it must wait for an *)
(* event being processed (a 10 ms timer) or has nothing it may process.    *)
(* Several calls run the loop on the same buffer, interleaved at that wait *)
(* only.  Timers of 10 ms fire in the order they were set; those of the    *)
(* clean-up take minutes and may fire between any two of these steps.      *)
(*                                                                         *)
(* The handler of this service only logs and waits, so it never throws.    *)
(***************************************************************************)
EXTENDS Naturals, SequencesExt

VARIABLES
  buffers,    \* every EventBuffer object made; a run may outlive its buffer
  current,    \* the one in the map, 0 if the entity has none
  runs,       \* the loops waiting for an event being processed, oldest first
  cleanups,   \* how many clean-up timers are pending
  arrivals,   \* the events added since the process started, in order
  processed   \* those of them whose processing has ended, in order

bufferVars == <<buffers, current, runs, cleanups, arrivals, processed>>

LargeGap == 5

Buffer(pending, last) == [pending |-> pending, last |-> last]

\* The buffer is missing (the process is new, or it was cleaned up), or has
\* processed everything up to last.
BufferInit(last) ==
  /\ \/ /\ buffers = <<>>
        /\ current = 0
        /\ cleanups = 0
     \/ /\ last > 0
        /\ buffers = <<Buffer(<<>>, last)>>
        /\ current = 1
        /\ cleanups = 1
  /\ runs = <<>>
  /\ arrivals = <<>>
  /\ processed = <<>>

\* Where the events above a number begin: the first of them, or the end.
FirstAbove(events, number) ==
  CHOOSE i \in 1 .. Len(events) + 1 :
    /\ \A j \in 1 .. i - 1 : events[j].number <= number
    /\ i <= Len(events) => events[i].number > number

\* push and sort, in a sorted array: behind the events with the same number.
SortedIn(pending, event) == InsertAt(pending, FirstAbove(pending, event.number), event)

\* The expected event; the second one of a buffer that has processed none; or
\* one so far ahead that the loop gives up on those before it.
Processable(number, last) ==
  \/ number = last + 1
  \/ last = 0 /\ number = 2
  \/ number > last + 1 + LargeGap

\* The loop on buffer b of objects, run by a publisher while others wait:
\* old events are dropped, then it processes the first, waits for a missing
\* one, or finds the buffer empty and sets a timer.
RunLoop(objects, b, by, others) ==
  LET pending == objects[b].pending
      due == SubSeq(pending, FirstAbove(pending, objects[b].last), Len(pending))
      go == due # <<>> /\ Processable(Head(due).number, objects[b].last)
  IN /\ buffers' = [objects EXCEPT ![b].pending = IF go THEN Tail(due) ELSE due]
     /\ runs' = IF go
                THEN Append(others, [by |-> by, buffer |-> b, event |-> Head(due)])
                ELSE others
     /\ cleanups' = IF due = <<>> THEN cleanups + 1 ELSE cleanups

AddEvent(event) ==
  LET objects == IF current = 0 THEN Append(buffers, Buffer(<<>>, 0)) ELSE buffers
      b == IF current = 0 THEN Len(objects) ELSE current
  IN /\ RunLoop([objects EXCEPT ![b].pending = SortedIn(@, event)], b, event.by, runs)
     /\ current' = b
     /\ arrivals' = Append(arrivals, event)
     /\ UNCHANGED processed

\* Mutant of EventProcessed: the loop is not resumed behind the event.
EventProcessedOnce ==
  /\ runs # <<>>
  /\ LET run == Head(runs)
     IN /\ buffers' = [buffers EXCEPT ![run.buffer].last = run.event.number]
        /\ processed' = Append(processed, run.event)
  /\ runs' = Tail(runs)
  /\ UNCHANGED <<current, arrivals, cleanups>>

\* The oldest timer fires: its loop notes the number and goes on.
EventProcessed ==
  /\ runs # <<>>
  /\ LET run == Head(runs)
     IN /\ RunLoop([buffers EXCEPT ![run.buffer].last = run.event.number],
                   run.buffer, run.by, Tail(runs))
        /\ processed' = Append(processed, run.event)
  /\ UNCHANGED <<current, arrivals>>

\* Mutant of CleanUp: the buffer is taken without a look at what it holds.
CleanUpBlindly ==
  /\ cleanups > 0
  /\ cleanups' = cleanups - 1
  /\ current' = 0
  /\ UNCHANGED <<buffers, runs, arrivals, processed>>

\* A clean-up timer fires and takes an empty buffer, busy or not.
CleanUp ==
  /\ cleanups > 0
  /\ cleanups' = cleanups - 1
  /\ current' = IF current # 0 /\ buffers[current].pending = <<>> THEN 0 ELSE current
  /\ UNCHANGED <<buffers, runs, arrivals, processed>>

\* The buffers, the loops and the timers live in the memory of the process.
BuffersAreLost ==
  /\ buffers' = <<>>
  /\ current' = 0
  /\ runs' = <<>>
  /\ cleanups' = 0
  /\ arrivals' = <<>>
  /\ processed' = <<>>

-------------------------------------------------------------------------------
\* When no loop is at work on a buffer, it keeps back no event that it could
\* process: its first is neither old, nor the next, nor one to be forced, though
\* the loops that took events from it ended in any order.  (What it waits for
\* need not be missing: the last number goes back when the loop of a smaller
\* one ends later, and the number after that may have been processed.)
NothingProcessableWaits ==
  \A b \in DOMAIN buffers :
    (\A r \in Range(runs) : r.buffer # b) /\ buffers[b].pending # <<>>
      => LET first == Head(buffers[b].pending).number
         IN first > buffers[b].last /\ ~Processable(first, buffers[b].last)

\* An event is in hand as long as it waits in the buffer of the map, is being
\* processed or was processed.
InHand(e) ==
  \/ current # 0 /\ e \in Range(buffers[current].pending)
  \/ \E r \in Range(runs) : r.event = e
  \/ e \in Range(processed)

\* An event is lost only to one that overtook it: one with its number or a
\* bigger one that came before it and is processed already.  None is processed
\* twice.  So it is though loops interleave on one array and a clean-up may take
\* it from under them (event-buffer.service.ts:63-180).
\* (event-buffer.service.spec.ts:86-106 expects more, that an event waits for
\* one with a smaller number that comes later.  The code forces the second
\* event of a buffer that has processed none, and drops the first as old.)
EventsAreKept ==
  LET running == {r.event : r \in Range(runs)}
      waiting == IF current = 0 THEN {} ELSE Range(buffers[current].pending)
  IN /\ \A i \in DOMAIN arrivals :
          \/ InHand(arrivals[i])
          \/ \E j \in 1 .. i - 1 :
               arrivals[j].number >= arrivals[i].number /\ arrivals[j] \in Range(processed)
     /\ \A i, j \in DOMAIN processed : i # j => processed[i] # processed[j]
     /\ Range(processed) \cap (running \cup waiting) = {}

\* Events that arrive in order, one number after the other, are processed in
\* that order with none left out, as long as no clean-up came in between, even
\* if each arrives while those before it are still being processed; and once
\* the buffer has taken the first, it takes all of them.
OrderedArrivalsKeepOrder ==
  (\A i \in 2..Len(arrivals) : arrivals[i].number = arrivals[i - 1].number + 1)
    /\ Len(buffers) <= 1
    => /\ processed = SubSeq(arrivals, 1, Len(processed))
       /\ runs = <<>> /\ processed # <<>> => processed = arrivals
===============================================================================
