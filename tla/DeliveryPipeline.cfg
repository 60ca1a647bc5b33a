SPECIFICATION FairSpec
CONSTANTS
  Guids = {g1}
  Writers = {w1, w2}
  BatchSize = 1
  MaxRows = 2
  MaxId = 1
  MaxDelta = 1
  MaxFaults = 2
INVARIANTS
  NoResultLost
  DuplicatesNeedFaults
  InOrderPerCheck
  NoLostWakeup
PROPERTIES
  ImplementsAtLeastOnce
  SendableIsSent
  Heartbeat
  ShutdownEnds
