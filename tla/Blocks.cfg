SPECIFICATION Spec
CONSTANTS
  MemWords = 8
  XmmCount = 3
  MmxCount = 2
  Entries = {0, 1, 2}
  Instructions <- MCInstructions
  Pool <- MCPool
  Lasts <- MCLasts
  MaxLength = 3
  MaxLeft = 1
INVARIANTS BodyIsFaithful OptimisedAgrees OnlyShiftsAreMissing ExitIsFaithful
CHECK_DEADLOCK FALSE
