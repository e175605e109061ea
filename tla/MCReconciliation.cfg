SPECIFICATION FairSpec
CONSTANTS
  Orders = {o1}
  Qty = 2
  Sweepers = {s1}
  WebhookWorkers = {w1}
  Requests = {r1}
  ClosedStatuses = {"canceled"}
  MaxCrashes = 1
INVARIANTS SettledOnlyWhenClosed BookedIsFinalFill
PROPERTIES NeverUnsettled ClosedOrdersSettle
CHECK_DEADLOCK FALSE
