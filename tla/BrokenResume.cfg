SPECIFICATION Spec
CONSTANTS
  None = None
  Procs = {p1}
  Ids = {i1, i2}
  PayloadLen = 2
  MaxChunk = 2
  MaxFile = 2
  MaxRefs = 1
  Expiration = 0
  MaxNow = 1
  Faulty = TRUE
SYMMETRY Symmetries
INVARIANTS
  ContiguousUpload
