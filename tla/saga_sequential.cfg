\* One request at a time, enough stock, nothing fails, everything started goes on.
SPECIFICATION FairSagaSpec
CONSTANTS
  Orders = {o1, o2}
  Requests = {r1}
  PatchTargets = {"PENDING", "CONFIRMED", "SHIPPED", "DELIVERED"}
  CustomerCancels = TRUE
  PaymentOutcomes = {TRUE, FALSE}
  Replies = {"inventory.reserved", "inventory.reservation.failed"}
  FaultKinds = {}
  MaxFaults = 0
  NoOrder = NoOrder
  item = item
  Products <- MCProducts
  Cart <- MCCart
  InitStock <- MCAmple
INVARIANTS
  StockTellsOrders
PROPERTIES
  KeepsLifecycle
  CreationIsAnswered
CHECK_DEADLOCK FALSE
