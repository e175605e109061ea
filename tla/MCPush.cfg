SPECIFICATION Spec
CONSTANTS
  Workers = {w1, w2, q}
  Offline = {q}
  Sockets = {s1, s2}
  Frames = {a}
  Critical = {a}
  MaxFaults = 1
  None = None
  w1 = w1
  w2 = w2
  s1 = s1
  s2 = s2
  Streams = {i1, i2, i3}
  Links = {l1, l2}
  Timers = {t1, t2, t3}
  WS_MAX_RETRIES = 2
  Null = Null
  u1 = u1
  u2 = u2
  Alerts = {a1, a2}
  Owners = {u1, u2}
  Mailless = {u2}
  Sinks = {"webhook", "email"}
  Prices = {1, 2}
  MaxSweeps = 2
  Nothing = Nothing
  Deleted = Deleted
  NewRows <- MCNewRows
SYMMETRY Alike
CONSTRAINT NotLate
CHECK_DEADLOCK FALSE
INVARIANTS
  TypeOK
  PresenceNotOverstated AbsentUserIsTold SteadySocketIsReached
  OneChannelEach SignedOutIsSilent
  MarkImpliesPush TriggeredAlertArrives
