SPECIFICATION Spec
CONSTANTS
  None = None
  Procs = {p1, p2}
  s1 = s1
  Sources = {s1}
  Tokens = {1, 2, 3}
  Databases <- MCDatabases
  Times = {0, 1}
  MaxRecords = 1
  MaxRequests = 3
SYMMETRY ProcSymmetry
INVARIANTS
  CountersAgree
  ErrorsWithinRequests
PROPERTIES
  SourceKeepsToken
