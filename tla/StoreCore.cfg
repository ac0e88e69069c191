CONSTANTS
  Sessions = {s1}
  DirectReset = {}
  Callers = {r1, r2}
  Hashes = {h1}
  NoHash = NoHash
  Anchors = {1}
  QueueMax = 2
  BatchMax = 2
  MaxThreads = 2
  MaxOps = 2
  Faults = {"read", "job", "acquire", "crash"}
SPECIFICATION Spec
SYMMETRY Symmetry
INVARIANT StoreInv
INVARIANT WireOrder
INVARIANT MemoryIsAuthoritative
INVARIANT ServesLatest
INVARIANT DropsCounted
PROPERTY KeepsTheLog
PROPERTY HandsOutCached
PROPERTY ClosedStaysClosed
PROPERTY LastTapWins
CHECK_DEADLOCK FALSE
