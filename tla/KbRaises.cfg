CONSTANTS
  RrfK = 3
  Chunks = {1, 2, 3, 4, 5}
  TopKs = {1, 2}
  Floor = 3
  Attempts = 2
SPECIFICATION Spec
INVARIANT EmbeddingFailureDegrades
CHECK_DEADLOCK FALSE
