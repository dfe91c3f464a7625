\* Two requests at a time on one order, every reply, one fault of any kind.
SPECIFICATION FairSpec
CONSTANTS
  Orders = {o1}
  Requests = {r1, r2}
  PatchTargets = {"SHIPPED", "DELIVERED", "CANCELLED"}
  CustomerCancels = TRUE
  PaymentOutcomes = {TRUE, FALSE}
  Replies = {"inventory.reserved", "inventory.reservation.failed"}
  FaultKinds = {"crash", "publish", "resend", "expire"}
  MaxFaults = 1
  NoOrder = NoOrder
INVARIANTS
  TypeOK
  HistoryFollowsRules
  ConfirmedIsPaid
  StockIsAskedForPaidOrders
  EventsAreOnRecord
PROPERTIES
  OnlyOverwritesBreakRules
  PaymentSettles
  DeliveryIsAnnounced
CHECK_DEADLOCK FALSE
