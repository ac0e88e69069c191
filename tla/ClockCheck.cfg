CONSTANTS
  Calendar <- BothEditions
  FallbackSessions <- Declared
  Copies <- SomeCopies
  Slots = 7
  LastDay = 4
  FirstWeekday = 4
  MaxEdits = 2
SPECIFICATION Spec
INVARIANT AnswersFromTheFile
INVARIANT OpenAsDeclared
INVARIANT OpeningsAnnounced
INVARIANT GreetingAgrees
CHECK_DEADLOCK FALSE
