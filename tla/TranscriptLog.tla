---------------------------- MODULE TranscriptLog ----------------------------
(***************************************************************************)
(* A thread that grows turn by turn, in every order its writers can append *)
(* to it: requests that fail, are cancelled or overlap leave turns of all  *)
(* kinds next to each other.  Beside the turns it keeps what a reader who  *)
(* counts along would know, so that the operators of Transcript, which     *)
(* derive everything anew from the turns, can be compared with it.         *)
(***************************************************************************)
EXTENDS Transcript

CONSTANTS
  MaxTurns,     \* bound: turns of the thread
  UserSays,     \* what the user says
  ReplySays     \* what a reply without tools says

ASSUME LogAssumption ==
  /\ MaxTurns \in Nat
  /\ UserSays \subseteq Sayings /\ ReplySays \subseteq {"plain", "clarify", "offer"}

VARIABLES
  turns,
  unanswered,   \* tool_use ids without a result, with their tools
  clarified, asked, total,   \* clarifying replies and user texts since the last success, user texts
  latest,       \* what the newest user text says
  offers        \* offers made before / since the newest user text (and after the one before it)

vars == <<turns, unanswered, clarified, asked, total, latest, offers>>

Init ==
  /\ turns = <<>> /\ unanswered = {}
  /\ clarified = 0 /\ asked = 0 /\ total = 0
  /\ latest = "none" /\ offers = [before |-> FALSE, since |-> FALSE]

Grow(t) == Len(turns) < MaxTurns /\ turns' = Append(turns, t)

AppendUserText == \E says \in UserSays :
  /\ Grow(UserText(NextSeq(turns), says))
  /\ asked' = asked + 1 /\ total' = total + 1
  /\ latest' = says /\ offers' = [before |-> offers.since, since |-> FALSE]
  /\ UNCHANGED <<unanswered, clarified>>

AppendReply == \E says \in ReplySays :
  /\ Grow(Assistant(NextSeq(turns), TRUE, <<>>, says))
  /\ clarified' = IF says = "plain" THEN clarified ELSE clarified + 1
  /\ offers' = [offers EXCEPT !.since = @ \/ says = "offer"]
  /\ UNCHANGED <<unanswered, asked, total, latest>>

AppendToolUse == \E tools \in {<<"search">>, <<"card", "ticket">>} :
  /\ Grow(Assistant(NextSeq(turns), FALSE, tools, "plain"))
  /\ unanswered' = unanswered \cup {<<NextSeq(turns), n, tools[n]>> : n \in DOMAIN tools}
  /\ UNCHANGED <<clarified, asked, total, latest, offers>>

AppendResult == \E u \in unanswered, err \in BOOLEAN :
  /\ Grow(ToolResult(NextSeq(turns), <<u[1], u[2]>>, u[3], err))
  /\ unanswered' = unanswered \ {u}
  /\ clarified' = IF err THEN clarified ELSE 0
  /\ asked' = IF err THEN asked ELSE 0
  /\ UNCHANGED <<total, latest, offers>>

AppendFlowEvent ==
  /\ Grow(FlowEvent(NextSeq(turns), <<NextSeq(turns), 0>>, "none"))
  /\ UNCHANGED <<unanswered, clarified, asked, total, latest, offers>>

Next == AppendUserText \/ AppendReply \/ AppendToolUse \/ AppendResult \/ AppendFlowEvent
Spec == Init /\ [][Next]_vars

-----------------------------------------------------------------------------
Holds(message, block) == \E k \in DOMAIN message.content : message.content[k] = block

\* The merge loses, doubles and invents nothing, and in its result a user message never
\* follows a user message and results lead every message (Thread.messages,
\* store.py:187-217).
MergeSound ==
  LET ms == Messages[turns] IN
  /\ \A j \in DOMAIN turns : \A k \in DOMAIN turns[j].content :
       Cardinality({m \in DOMAIN ms : Holds(ms[m], turns[j].content[k])}) = 1
  /\ Len(Bytes[ms]) = Len(FlattenSeq([j \in DOMAIN turns |-> turns[j].content]))
  /\ \A m \in DOMAIN ms :
       /\ LeadsWithResults(ms[m].content)
       /\ m > 1 /\ ms[m].role = "user" => ms[m - 1].role = "assistant"

\* The first model call of a turn marks what was sent, and the API remembers it up to that
\* point.  Unless a memo or a late result was merged into its last message after that, the
\* first call of the next turn sends those very bytes again, curated as they are, and one
\* of its markers is close enough behind them for the API to find them, if any message
\* behind them ends close enough (with_history_breakpoint and its anchor, store.py:220-336).
HistoryIsRead ==
  LET before == SubSeq(turns, 1, PreviousUserText(turns))
      sent == Bytes[MessagesForModel(before)]
      ms == MessagesForModel(turns)
      anchor == LastUserMessageIndex(Front(turns))
      Near(k) == BlocksBetween(ms, 0, k) - Len(sent) \in 0..Reach
  IN turns # <<>> /\ IsUserText(Last(turns)) /\ before # <<>> /\ BlocksBetween(ms, 0, anchor) = Len(sent) =>
       /\ IsPrefix(sent, Bytes[ms])
       /\ (\E k \in anchor + 1..Len(ms) : Near(k)) => \E k \in Marks(ms, anchor) : Near(k)

\* The caps, derived anew from all turns, are what a reader counting along arrives at who
\* starts over at every successful tool result (caps.py:61-94).
CapsCountAlong ==
  /\ TaskUserTurns(turns) = asked
  /\ SessionUserTurns(turns) = total
  /\ Count(Window(turns), IsClarifying) = clarified

\* A ticket may be raised exactly when the newest user text asks for one, or agrees while an
\* offer stands that was made since the user text before it (tickets.py:199-240).
ConsentIsFresh ==
  UserInitiated(turns) <=> (latest = "escalate" \/ (latest = "agree" /\ offers.before))
=============================================================================
