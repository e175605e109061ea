SPECIFICATION WebSpec
CONSTANTS
  Streams = {i1, i2, i3}
  Links = {l1, l2}
  Timers = {t1, t2, t3}
  WS_MAX_RETRIES = 2
  Null = Null
INVARIANT AccountChannelNotSilentlyDead
CHECK_DEADLOCK FALSE
