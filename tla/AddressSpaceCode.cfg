SPECIFICATION Spec
CONSTANTS
  NPages = 5
  NullPages = 1
  Unmapped = Unmapped
  Image <- MCImage
  Prots <- MCCodeProts
  Lengths = {1, 2}
  Calls = {"mmap", "munmap", "mprotect", "fork"}
  Stores = {}
  Jumps <- MCJumps
INVARIANTS LookupIsExact IntervalsAreRegions IndexNeverDangles
