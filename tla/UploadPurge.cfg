SPECIFICATION LiveSpec
CONSTANTS
  None = None
  Procs = {p1, p2}
  Ids = {i1, i2}
  PayloadLen = 1
  MaxChunk = 1
  MaxFile = 1
  MaxRefs = 1
  Expiration = 0
  MaxNow = 1
  Faulty = FALSE
PROPERTIES
  ExpiredPurged
