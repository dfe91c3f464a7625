\* Two orders, one piece, one request at a time.
SPECIFICATION SagaSpec
CONSTANTS
  Orders = {o1, o2}
  Requests = {r1}
  PatchTargets = {}
  CustomerCancels = TRUE
  PaymentOutcomes = {TRUE, FALSE}
  Replies = {"inventory.reserved", "inventory.reservation.failed"}
  FaultKinds = {}
  MaxFaults = 0
  NoOrder = NoOrder
  item = item
  Products <- MCProducts
  Cart <- MCCart
  InitStock <- MCScarce
PROPERTY ReleasesOwnStock
CHECK_DEADLOCK FALSE
