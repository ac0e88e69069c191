CONSTANTS
  Requests = {r1, r2}
  Texts = {"plain"}
  Replies <- PairReplies
  ToolOutcomes = {"ok", "failed"}
  MaxRounds = 2
  Overlap = FALSE
  HelpCard = FALSE
  MaxThreads = 2
  MaxFlowEvents = 1
  Faults = {"abort"}
  ClarifyCap = 2
  TaskTurnCap = 2
  SessionTurnCap = 3
  Lookback = 20
SPECIFICATION Spec
SYMMETRY Symmetry
INVARIANT AlwaysAccepted
CHECK_DEADLOCK FALSE
