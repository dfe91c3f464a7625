\* Two requests at a time race for one order.
SPECIFICATION Spec
CONSTANTS
  Orders = {o1}
  Requests = {r1, r2}
  PatchTargets = {"SHIPPED", "DELIVERED"}
  CustomerCancels = TRUE
  PaymentOutcomes = {TRUE}
  Replies = {"inventory.reserved"}
  FaultKinds = {}
  MaxFaults = 0
  NoOrder = NoOrder
PROPERTY FinalStatusIsFinal
CHECK_DEADLOCK FALSE
