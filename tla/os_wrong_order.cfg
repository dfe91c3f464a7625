\* Two orders, the inventory refuses one of them.
SPECIFICATION Spec
CONSTANTS
  Orders = {o1, o2}
  Requests = {r1}
  PatchTargets = {"SHIPPED"}
  CustomerCancels = FALSE
  PaymentOutcomes = {TRUE}
  Replies = {"inventory.reservation.failed"}
  FaultKinds = {}
  MaxFaults = 0
  NoOrder = NoOrder
PROPERTY AnswerConcernsItsOrder
CHECK_DEADLOCK FALSE
