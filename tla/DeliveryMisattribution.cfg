SPECIFICATION Spec
CONSTANTS
  Guids = {g1, g2}
  Writers = {w1}
  BatchSize = 2
  MaxRows = 1
  MaxId = 2
  MaxDelta = 2
  MaxFaults = 0
INVARIANT UploadedUnderOwnGuid
