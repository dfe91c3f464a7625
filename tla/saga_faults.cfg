\* Two requests at a time, one piece for two orders, every fault, one of them.
SPECIFICATION SagaSpec
CONSTANTS
  Orders = {o1, o2}
  Requests = {r1, r2}
  PatchTargets = {}
  CustomerCancels = TRUE
  PaymentOutcomes = {TRUE, FALSE}
  Replies = {"inventory.reserved", "inventory.reservation.failed"}
  FaultKinds = {"crash", "publish", "resend", "expire", "database"}
  MaxFaults = 1
  NoOrder = NoOrder
  item = item
  Products <- MCProducts
  Cart <- MCCart
  InitStock <- MCScarce
SYMMETRY Symmetry
INVARIANTS
  SagaTypeOK
  StockBalance
  ReservedWasPaid
  ReservedOncePerFault
  FailedMeansNotReserved
  StockIsAccountedFor
PROPERTY RowsDivergeByUnheldEnds
CHECK_DEADLOCK FALSE
