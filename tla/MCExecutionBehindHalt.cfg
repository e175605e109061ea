SPECIFICATION Spec
CONSTANTS
  Keys = {k1}
  Accounts = {a1}
  Requests = {r1, r2}
  Operators = {p1}
  None = None
  DailyLimit = 0
  MaxAttempts = 3
  MaxStarts = 1
  MaxLost = 0
  MaxCrashes = 0
PROPERTIES NothingBehindTheFlatten
CHECK_DEADLOCK FALSE
