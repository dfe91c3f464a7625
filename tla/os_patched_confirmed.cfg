\* An administrator confirms the order while its payment is on the way.
SPECIFICATION FairSpec
CONSTANTS
  Orders = {o1}
  Requests = {r1, r2}
  PatchTargets = {"CONFIRMED"}
  CustomerCancels = FALSE
  PaymentOutcomes = {TRUE}
  Replies = {"inventory.reserved"}
  FaultKinds = {}
  MaxFaults = 0
  NoOrder = NoOrder
PROPERTY ConfirmedIsAnnounced
CHECK_DEADLOCK FALSE
