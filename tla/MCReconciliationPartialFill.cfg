SPECIFICATION Spec
CONSTANTS
  Orders = {o1}
  Qty = 2
  Sweepers = {s1}
  WebhookWorkers = {w1}
  Requests = {r1}
  ClosedStatuses = {"canceled"}
  MaxCrashes = 0
INVARIANTS SettledFillsAreBooked
CHECK_DEADLOCK FALSE
