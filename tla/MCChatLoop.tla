----------------------------- MODULE MCChatLoop -----------------------------
(* The checked instances of ChatLoop: what the model may answer. *)
EXTENDS ChatLoop

Says(says) == [text |-> TRUE, tools |-> <<>>, says |-> says, stop |-> "end_turn"]
Uses(tools) == [text |-> FALSE, tools |-> tools, says |-> "plain", stop |-> "tool_use"]

\* An offer, a ticket of its own (a round of cards), and a round the model must narrate.
CoreReplies == {Says("offer"), Uses(<<"ticket">>), Uses(<<"card", "search">>)}
\* An offer, a round of two cards, and a round with a search.
LiveReplies == {Says("offer"), Uses(<<"ticket", "card">>), Uses(<<"card", "search">>)}
\* A plain answer, and a round the model must narrate.
PairReplies == {Says("plain"), Uses(<<"card", "search">>)}

Symmetry == Permutations(Requests)

=============================================================================
