CONSTANTS
  Requests = {r1, r2}
  Texts = {"agree"}
  Replies <- CoreReplies
  ToolOutcomes = {"ok", "failed"}
  MaxRounds = 2
  Overlap = FALSE
  HelpCard = TRUE
  MaxThreads = 2
  MaxFlowEvents = 1
  Faults = {"model"}
  ClarifyCap = 2
  TaskTurnCap = 2
  SessionTurnCap = 3
  Lookback = 20
SPECIFICATION Spec
SYMMETRY Symmetry
INVARIANT AlwaysAccepted
INVARIANT TicketsRemembered
PROPERTY OwnResultsVerbatim
PROPERTY PromptGrows
PROPERTY TicketsWanted
CHECK_DEADLOCK FALSE
