CONSTANTS
  Requests = {r1, r2}
  Texts = {"escalate"}
  Replies <- LiveReplies
  ToolOutcomes = {"ok", "expired"}
  MaxRounds = 1
  Overlap = TRUE
  HelpCard = TRUE
  MaxThreads = 1
  MaxFlowEvents = 0
  Faults = {"model", "late", "abort", "crash"}
  ClarifyCap = 2
  TaskTurnCap = 2
  SessionTurnCap = 3
  Lookback = 20
SPECIFICATION FairSpec
PROPERTY DoneNamesTheAnswer
PROPERTY ExpiryNeverNarrated
PROPERTY AnsweredIfSearched
CHECK_DEADLOCK FALSE
