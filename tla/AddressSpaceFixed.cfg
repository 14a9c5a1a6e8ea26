SPECIFICATION Spec
CONSTANTS
  NPages = 6
  NullPages = 1
  Unmapped = Unmapped
  Image <- MCImage
  Prots <- MCProts
  Lengths = {1, 3}
  Calls = {"mmap"}
  Stores = {}
  Jumps <- MCNoJumps
PROPERTY FixedReplaces
