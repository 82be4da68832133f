SPECIFICATION Spec
CONSTANTS
  p1 = p1
  p2 = p2
  h1 = h1
  h2 = h2
  d1 = d1
  d2 = d2
  OldHashes = {h1}
  None = None
  Procs = {p1, p2}
  Hashes = {h1}
  Data = {d1, d2}
  Checksums = {"c1", "c2"}
  ETags = {"e1", "e2", "e3"}
  Locks = {0}
  Checksum <- MCChecksum
  Size <- MCSize
  ETag <- MCETag
  LegacyETag <- MCETag
  LockOf <- MCLockOf
  DirectMax = 1
  PutsLandLate = FALSE
  PutOmitsETag = TRUE
  Ops = {"direct", "chunked", "tus", "get", "range", "head", "exists"}
SYMMETRY ProcSymmetry
INVARIANTS
  TypeOK
  LockMatchesSection
  CreatedOnce
  AckedDurable
  RestartPossible
  ServedIntact
  DiskBacked
PROPERTIES
  PayloadImmutable
  KeepsPayloadPromise
  ChecksumKept
