\* One client posts a notification, its mails fail and it is retried: how often?
SPECIFICATION RetrySpec
CONSTANTS
  Notifications = {1}
  Posted = {1}
  Calls = {c1}
  Consumer = Consumer
  Patterns = {}
  ProviderOutcomes = {TRUE, FALSE}
  MaxInputs = 0
PROPERTY RetriesEnd
CHECK_DEADLOCK FALSE
