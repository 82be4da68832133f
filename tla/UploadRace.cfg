SPECIFICATION Spec
CONSTANTS
  None = None
  Procs = {p1, p2}
  Ids = {i1, i2}
  PayloadLen = 2
  MaxChunk = 2
  MaxFile = 2
  MaxRefs = 2
  Expiration = 0
  MaxNow = 1
  Faulty = FALSE
SYMMETRY Symmetries
INVARIANTS
  TypeOK
  ContiguousUpload
  CompletedOnce
  NoOrphanFile
