SPECIFICATION Spec
CONSTANTS
  Guids = {g1}
  Definitions = {d1}
  Inverted = {}
  Tasks = {t1, t2}
  MaxConcurrent = 1
  MaxChanges = 2
  MaxOutages = 0
SYMMETRY Symmetry
CHECK_DEADLOCK FALSE
INVARIANTS
  NoLingeringStatus
