\* One order, two requests at a time, cancelled by POST and by PATCH, one publish
\* that may fail.
SPECIFICATION FairSagaSpec
CONSTANTS
  Orders = {o1}
  Requests = {r1, r2}
  PatchTargets = {"CANCELLED"}
  CustomerCancels = TRUE
  PaymentOutcomes = {TRUE}
  Replies = {"inventory.reserved", "inventory.reservation.failed"}
  FaultKinds = {"publish"}
  MaxFaults = 1
  NoOrder = NoOrder
  item = item
  Products <- MCProducts
  Cart <- MCCart
  InitStock <- MCAmple
PROPERTY EndedOrdersHoldNothing
CHECK_DEADLOCK FALSE
