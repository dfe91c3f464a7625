\* Two publishers of one order, from no row, one, two or six numbers taken, with
\* and without a buffer, with errors, one retry and a restart.
SPECIFICATION FairPublisherSpec
CONSTANTS
  Callers = {p1, p2}
  InitialRows = {0, 1, 2, 6}
  Operations <- MCOperations
  MaxRetries = 1
  MaxErrors = 3
  MaxRestarts = 1
INVARIANTS
  NumbersAreConsecutive
  NothingProcessableWaits
  EventsAreKept
  OrderedArrivalsKeepOrder
  RetriesBackOff
PROPERTIES
  NumberedEventsAreSent
  KeepsDelivery
CHECK_DEADLOCK FALSE
