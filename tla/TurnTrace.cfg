CONSTANTS
  t1 = t1
  t2 = t2
  Turns = {t1, t2}
  MayLeave = TRUE
  LookBack = 1
  Replies <- RepliesOf
  MaxRounds = 1
  MaxThreads = 2
SPECIFICATION Spec
INVARIANT SpansNest
INVARIANT KeptWhole
INVARIANT ScoresHitTheirTurn
CHECK_DEADLOCK FALSE
