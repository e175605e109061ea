SPECIFICATION LedgerSpec
CONSTANTS
  Symbols = {"A"}
  Writers = {w1, w2}
  Quantities = {1, 2}
  PriceSet = {2, 5}
  MaxTx = 4
  Day <- MCDay
  NoTx = NoTx
INVARIANT BookedGainIsNotLost
CHECK_DEADLOCK FALSE
