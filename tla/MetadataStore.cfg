SPECIFICATION Spec
CONSTANTS
  None = None
  Hashes = {1, 2}
  Size <- MCSize
  Created <- MCCreated
  Writers = {w1, w2}
  Clients = {c1, c2}
  Queries <- MCQueries
SYMMETRY WorkerSymmetry
INVARIANTS
  IndexAgrees
  PagesPartition
  BusyWhileQuerying
