SPECIFICATION Spec
CONSTANTS
  Checks = {c1}
  Ticker = ticker
  Targets = {t1}
  MaxClock = 2
  MaxLosses = 1
SYMMETRY Symmetry
INVARIANTS
  OutageNotNegative
