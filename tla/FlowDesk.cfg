CONSTANTS
  r1 = r1
  r2 = r2
  s1 = s1
  s2 = s2
  Requests = {r1, r2}
  Sessions = {s1, s2}
  MayAsk <- AnyFlow
  FileTtl = 1
  RefTtl = 2
  MaxNotes = 1
  Horizon = 2
SPECIFICATION Spec
INVARIANT AskedOnce
INVARIANT MailedAsChosen
INVARIANT ExpiryIsReal
INVARIANT PassbookIsHonest
INVARIANT TokensLast
SYMMETRY SwapSessions
CHECK_DEADLOCK FALSE
