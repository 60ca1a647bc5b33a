SPECIFICATION FairSpec
CONSTANTS
  Checks = {c1}
  Ticker = ticker
  Targets = {t1, t2}
  MaxClock = 0
  MaxLosses = 1
INVARIANTS
  TypeOK
  OneGoodTargetKeepsOnline
PROPERTIES
  StragglersEnd
  NoticesRecovery
