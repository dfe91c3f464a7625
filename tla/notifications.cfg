\* The consumer and one HTTP request, mails that fail, and two of: a message of
\* any kind, a restart, a failed statement.
SPECIFICATION FairSpec
CONSTANTS
  Notifications = {1, 2, 3}
  Posted = {3}
  Calls = {c1}
  Consumer = Consumer
  Patterns = {"order.notification", "inventory.notification", "inventory.low_stock"}
  ProviderOutcomes = {TRUE, FALSE}
  MaxInputs = 2
INVARIANTS
  TypeOK
  SentMeansDelivered
  SettledIsOnRecord
PROPERTY OrderMailsGetThrough
CHECK_DEADLOCK FALSE
