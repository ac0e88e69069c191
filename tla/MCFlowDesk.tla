----------------------------- MODULE MCFlowDesk -----------------------------
(***************************************************************************)
(* An instance of FlowDesk: one request for any flow, and beside it one    *)
(* that may use its tokens or put another file into the same store.        *)
(***************************************************************************)
EXTENDS FlowDesk, TLC

CONSTANTS r1, r2, s1, s2

SwapSessions == Permutations(Sessions)

AnyFlow ==
  (r1 :> ((Flows \ {"file", "note", "ledger"}) \X {"widget"}) \cup {<<"ledger", "agent">>})
  @@ (r2 :> {<<"note", "widget">>, <<"file", "widget">>, <<"pnl", "agent">>})
=============================================================================
