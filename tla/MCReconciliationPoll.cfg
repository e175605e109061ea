SPECIFICATION Spec
CONSTANTS
  Orders = {o1, o2}
  Qty = 2
  Sweepers = {s1}
  WebhookWorkers = {}
  Requests = {r1}
  ClosedStatuses = {"canceled"}
  MaxCrashes = 1
INVARIANTS BookedAtMostOnce
PROPERTIES ImplementsSettlement
CHECK_DEADLOCK FALSE
