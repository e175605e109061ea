SPECIFICATION RiskFairSpec
CONSTANTS
  Sweeps = {s1, s2}
  Readers = {r1}
  Limits = {0, 50}
  Equities = {1, 2}
  MaxDay = 1
  MaxInterrupted <- OneInterrupted
  s1 = s1
  None = None
INVARIANTS OneFlattenPerSweepAndDay
PROPERTIES OpeningIsFinal BreachIsActedOn
CHECK_DEADLOCK FALSE
