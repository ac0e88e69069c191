CONSTANTS
  MaxTurns = 6
  UserSays = {"plain", "escalate", "agree"}
  ReplySays = {"plain", "offer"}
  ClarifyCap = 2
  TaskTurnCap = 2
  SessionTurnCap = 3
  Lookback = 4
SPECIFICATION Spec
INVARIANT MergeSound
INVARIANT HistoryIsRead
INVARIANT CapsCountAlong
INVARIANT ConsentIsFresh
CHECK_DEADLOCK FALSE
