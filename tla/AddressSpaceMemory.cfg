SPECIFICATION Spec
CONSTANTS
  NPages = 5
  NullPages = 2
  Unmapped = Unmapped
  Image <- MCDataImage
  Prots <- MCDataProts
  Lengths = {1, 2}
  Calls = {"mapfile", "munmap", "mprotect", "brk", "fork", "execve"}
  Stores = {1, 4}
  Jumps <- MCNoJumps
INVARIANTS CallsAreExact
PROPERTIES ImplementsPageTable
