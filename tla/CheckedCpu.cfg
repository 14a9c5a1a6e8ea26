CONSTANTS
  Width = 4
  Half = 8
  Counts = 8
  ByteBits = 2
  Poly = 11
  XmmLanes = 4
  Patterns <- MCPatterns
  MaxSteps = 1
  Orders <- MCOrders
SPECIFICATION MCSpec
INVARIANTS IntegersAgree VectorsAgree
