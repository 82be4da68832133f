SPECIFICATION LiveSpec
CONSTANTS
  None = None
  Unset = ""
  Hashes = {h1, h2, h3}
  Workers = {w1, w2}
  RecordValues <- MCRecords
  ObjectValues <- MCObjects
INVARIANTS
  TypeOK
  NothingLeftRunning
  CheckedExact
  FirstErrorIsCause
PROPERTIES
  KeepsPromise
  Returns
CHECK_DEADLOCK FALSE
