CONSTANTS
  Sessions = {s1}
  DirectReset = {s1}
  Callers = {r1}
  Hashes = {h1, h2}
  NoHash = NoHash
  Anchors = {}
  QueueMax = 2
  BatchMax = 2
  MaxThreads = 1
  MaxOps = 2
  Faults = {"job", "acquire", "release", "shutdown", "timeout"}
SPECIFICATION FairSpec
INVARIANT KeysHealable
INVARIANT StopsDrained
PROPERTY WritesSettle
PROPERTY CloseReturnsIfAnswered
CHECK_DEADLOCK FALSE
