SPECIFICATION LiveSpec
CONSTANTS
  None = None
  h1 = h1
  h2 = h2
  h3 = h3
  bad = bad
  Hashes <- MCHashes
  ValidHashes <- MCValidHashes
  MaxNamed = 3
  Concurrency = 2
INVARIANTS
  FailureReported
  AnswerRight
  LookupsBounded
PROPERTIES
  Answered
CHECK_DEADLOCK FALSE
