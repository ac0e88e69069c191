---------------------------- MODULE MCTurnTrace ----------------------------
(***************************************************************************)
(* Instances of TurnTrace: a turn with two tools side by side, and another *)
(* beside it that only answers.                                            *)
(***************************************************************************)
EXTENDS TurnTrace, TLC

CONSTANTS t1, t2
RepliesOf == [t \in Turns |-> IF t = t1 THEN {<<"plain">>, <<"kb", "plain">>} ELSE {}]
=============================================================================
