---------------------------- MODULE SequenceService ----------------------------
(***************************************************************************)
(* The numbers events carry: SequenceService.getNextSequenceNumber, for    *)
(* one entity, called by any number of publishers at once.  The call is    *)
(* one READ COMMITTED transaction; SELECT ... FOR UPDATE locks a row that  *)
(* exists and locks nothing when there is none.                            *)
(***************************************************************************)
EXTENDS Naturals, Sequences

CONSTANTS
  Callers,       \* the calls, each of which asks for one number
  InitialRows    \* what event_sequences may hold at the start, 0 for no row

ASSUME InitialRowsAssumption == InitialRows \subseteq Nat

VARIABLES
  row,        \* the committed lastSequenceNumber, 0 while there is no row
  call,       \* how far each call is and what it holds in its local variables
  granted     \* the numbers handed out since the row was created, in commit order

sequenceVars == <<row, call, granted>>

Stages == {"ready", "absent", "inserting", "updating", "written", "granted", "failed"}

Call == [stage : Stages, number : Nat, column : Nat, seen : Nat, creates : BOOLEAN]

\* Only a call that has written the row holds its lock, until it commits.
Unlocked == \A c \in Callers : call[c].stage # "written"

Reach(c, stage) == call' = [call EXCEPT ![c].stage = stage]

\* number is what the call will return, column what it leaves in the row.
WriteRow(c, number, column) ==
  call' = [call EXCEPT ![c].stage = "written", ![c].number = number, ![c].column = column]

SequenceInit ==
  /\ row \in InitialRows
  /\ call = [c \in Callers |->
       [stage |-> "ready", number |-> 0, column |-> 0, seen |-> 0, creates |-> FALSE]]
  /\ granted = [i \in 1..row |-> i]

\* Mutant of IncrementLocked: the row is read without a lock, incremented and written back.
IncrementUnlocked(c) ==
  /\ call[c].stage = "ready"
  /\ row > 0
  /\ WriteRow(c, row + 1, row + 1)
  /\ UNCHANGED <<row, granted>>

\* findOne with a pessimistic lock, and with the lock held the increment.
IncrementLocked(c) ==
  /\ call[c].stage = "ready"
  /\ row > 0
  /\ Unlocked
  /\ WriteRow(c, row + 1, row + 1)
  /\ UNCHANGED <<row, granted>>

\* findOne meets no row: nothing is locked, not even a row being inserted.
FindNoRow(c) ==
  /\ call[c].stage = "ready"
  /\ row = 0
  /\ call' = [call EXCEPT ![c].stage = "absent", ![c].creates = TRUE]
  /\ UNCHANGED <<row, granted>>

\* save() looks the new entity up by its primary key to choose its statement.
SaveLoads(c) ==
  /\ call[c].stage = "absent"
  /\ call' = [call EXCEPT ![c].stage = IF row = 0 THEN "inserting" ELSE "updating",
                          ![c].seen = row]
  /\ UNCHANGED <<row, granted>>

\* The INSERT waits for another one in progress and fails on the row it left.
Insert(c) ==
  /\ call[c].stage = "inserting"
  /\ Unlocked
  /\ IF row = 0 THEN WriteRow(c, 1, 1) ELSE Reach(c, "failed")
  /\ UNCHANGED <<row, granted>>

\* The UPDATE sets the number only if it differed from 1 when it was loaded.
SaveUpdates(c) ==
  /\ call[c].stage = "updating"
  /\ Unlocked
  /\ WriteRow(c, 1, IF call[c].seen = 1 THEN row ELSE 1)
  /\ UNCHANGED <<row, granted>>

CommitNumber(c) ==
  /\ call[c].stage = "written"
  /\ row' = call[c].column
  /\ granted' = Append(granted, call[c].number)
  /\ Reach(c, "granted")

\* A statement or the commit fails: the transaction is rolled back.
DatabaseFails(c) ==
  /\ call[c].stage \notin {"granted", "failed"}
  /\ Reach(c, "failed")
  /\ UNCHANGED <<row, granted>>

\* The process stops: the database rolls back every transaction in progress.
TransactionsAreLost ==
  /\ call' = [c \in Callers |->
                 IF call[c].stage \in {"ready", "granted"} THEN call[c]
                                                         ELSE [call[c] EXCEPT !.stage = "failed"]]
  /\ UNCHANGED <<row, granted>>

SequenceStep(c) ==
  \/ IncrementLocked(c)
  \/ FindNoRow(c)
  \/ SaveLoads(c)
  \/ Insert(c)
  \/ SaveUpdates(c)
  \/ CommitNumber(c)

SequenceNext == \E c \in Callers : SequenceStep(c)

SequenceSpec == SequenceInit /\ [][SequenceNext]_sequenceVars

-------------------------------------------------------------------------------
SequenceTypeOK ==
  /\ row \in Nat
  /\ call \in [Callers -> Call]
  /\ granted \in Seq(Nat)

\* Numbers are granted one after the other, none twice and none left out,
\* however many calls race, fail or are cut off by a restart, unless two calls
\* that both found no row both return a number ("Prevent race conditions":
\* nothing prevents that one).
NumbersAreConsecutive ==
  (\A c, d \in Callers :
     /\ call[c].creates /\ call[c].stage = "granted"
     /\ call[d].creates /\ call[d].stage = "granted"
     => c = d)
    => /\ \A i \in DOMAIN granted : granted[i] = i
       /\ row = Len(granted)
===============================================================================
