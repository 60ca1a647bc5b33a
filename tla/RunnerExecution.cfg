SPECIFICATION FairSpec
CONSTANTS
  Guids = {g1}
  Definitions = {d1, d2}
  Inverted = {d2}
  Tasks = {t1, t2}
  MaxConcurrent = 1
  MaxChanges = 2
  MaxOutages = 1
CHECK_DEADLOCK FALSE
INVARIANTS
  PermitsMatchHolders
  OneGoroutinePerCheck
  NoFalseAlarm
PROPERTIES
  FollowsTable
  ChecksKeepRunning
  AllGoroutinesEnd
