SPECIFICATION Spec
CONSTANTS
  Assignments <- SmallAssignments
  TicksPerSecond = 2
  MaxTime = 16
  MaxRestarts = 1
CHECK_DEADLOCK FALSE
INVARIANTS
  TypeOK
  RotationIsKept
  NextSlotIsEarliest
  OncePerSlot
PROPERTY SkipsOverrunSlots
