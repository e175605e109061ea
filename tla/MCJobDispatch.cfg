SPECIFICATION FairSpec
CONSTANTS
  Workers = {w1, w2, w3}
  Consumers = {c1, c2}
  Nobody = Nobody
  Interval = 3
  MaxWaiting = 1
  Slack = 1
  MaxFailures = 1
  MaxCrashes = 1
  MaxOutages = 1
INVARIANTS TypeOK OverlapNeedsExpiry JobNeverStops
PROPERTIES QueueMoves
