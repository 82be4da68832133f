SPECIFICATION Spec
CONSTANTS
  None = None
  Procs = {p1, p2}
  Hashes = {1, 2, 3}
  OldHashes = {1, 2}
  Size <- MCSize
  MaxBytes = 3
  MaxObject = 0
  MaxDisk = 3
  Asks <- MCAsks
  MaxTime = 1
SYMMETRY ProcSymmetry
INVARIANTS
  TiersBounded
  RangeExact
PROPERTIES
  KeepsCachePromise
