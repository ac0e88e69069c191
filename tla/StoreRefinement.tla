--------------------------- MODULE StoreRefinement ---------------------------
(***************************************************************************)
(* The conversation store implements ConversationLog: the queue, the       *)
(* writer and the suspended cache misses are invisible but for the turns   *)
(* that a restart forgets.                                                 *)
(***************************************************************************)
EXTENDS ThreadStore

\* A thread is served when this process has its object; the log is the tables.
Log == INSTANCE ConversationLog WITH
  owner  <- [i \in 1..Len(born) |-> born[i].session],
  served <- {i \in ThreadIds : mem[i].status # "absent"},
  known  <- [i \in ThreadIds |-> mem[i].turns],
  rows   <- {i \in ThreadIds : dbStatus[i] # "absent"},
  kept   <- dbTurns

\* Every step of the store, with its races, faults and restarts, is a step of the log or
\* none at all.
KeepsTheLog == Log!Spec
=============================================================================
