CONSTANTS
  RrfK = 3
  Chunks = {1, 2, 3, 4, 5}
  TopKs = {1, 2}
  Floor = 3
  Attempts = 2
SPECIFICATION Spec
INVARIANT AgreementWins
INVARIANT DegradesHonestly
CHECK_DEADLOCK FALSE
