SPECIFICATION Spec
CONSTANTS
  Keys = {k1, k2, k3}
  Accounts = {a1, a2}
  Requests = {r1, r2}
  Operators = {p1}
  None = None
  DailyLimit = 1
  MaxAttempts = 2
  MaxStarts = 3
  MaxLost = 2
  MaxCrashes = 1
SYMMETRY Symmetry
INVARIANTS OneOrderPerKey OnFileIsAtVenue HaltStopsLaterRequests BoundedOvershoot OrphansNeedAFault
CHECK_DEADLOCK FALSE
