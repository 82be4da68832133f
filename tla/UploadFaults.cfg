SPECIFICATION Spec
CONSTANTS
  None = None
  Procs = {p1, p2}
  Ids = {i1, i2}
  PayloadLen = 1
  MaxChunk = 1
  MaxFile = 1
  MaxRefs = 2
  Expiration = 0
  MaxNow = 1
  Faulty = TRUE
SYMMETRY Symmetries
INVARIANTS
  SessionHasFile
  AckedBytesKept
