SPECIFICATION LiveSpec
CONSTANTS
  p1 = p1
  p2 = p2
  h1 = h1
  h2 = h2
  d1 = d1
  d2 = d2
  OldHashes = {h1}
  None = None
  Procs = {p1, p2}
  Hashes = {h1}
  Data = {d1, d2}
  Checksums = {"c1", "c2"}
  ETags = {"e1", "e2", "e3"}
  Locks = {0}
  Checksum <- MCChecksum
  Size <- MCSize
  ETag <- MCETag
  LegacyETag <- MCMultipartETag
  LockOf <- MCLockOf
  DirectMax = 2
  PutsLandLate = TRUE
  PutOmitsETag = TRUE
  Ops = {"direct"}
PROPERTIES
  RequestsFinish
