----------------------------- MODULE Transcript -----------------------------
(***************************************************************************)
(* What the agent derives from the turns of a conversation: the messages   *)
(* array that goes to the model (backend/app/agent/store.py), its curated  *)
(* projection (curation.py), the caps (caps.py) and the consent rule for   *)
(* tickets (tickets.py).  Nothing here keeps state: every operator is a    *)
(* function of a sequence of turns.                                        *)
(*                                                                         *)
(* A content block is its type, an identity that stands for its bytes, and *)
(* whether its payload was replaced by a stub.  Block n of the reply at    *)
(* seq q is <<q, n>>; the tool_result that answers a tool_use carries the  *)
(* tool_use's identity.  `says` stands for what the code reads in a text:  *)
(* a user "escalate"s or "agree"s, a reply may "offer" a ticket or         *)
(* "clarify" (ask a question; an offer is one too), the rest is "plain".   *)
(***************************************************************************)
EXTENDS Integers, Sequences, FiniteSets, SequencesExt

CONSTANTS
  ClarifyCap, TaskTurnCap, SessionTurnCap,   \* config.clarify_cap() and its siblings
  Lookback                                   \* CACHE_LOOKBACK_BLOCKS

ASSUME CapAssumption == {ClarifyCap, TaskTurnCap, SessionTurnCap} \subseteq Nat
ASSUME LookbackAssumption == Lookback \in Nat \ {0}

-----------------------------------------------------------------------------
\* search: narrated by the model.  card: its success is shown as a card.  ticket: likewise.
ToolKinds == {"search", "card", "ticket"}
Curatables == {"search", "card"}           \* _RENDERERS without _KEEP_VERBATIM
TurnKinds == {"user_text", "assistant_text", "assistant_tool_use", "tool_result", "flow_event"}
Sayings == {"plain", "escalate", "agree", "offer", "clarify"}

Block == [type : {"text", "tool_use", "tool_result"}, id : Nat \X Nat, stub : BOOLEAN]
Turn == [seq : Nat, kind : TurnKinds, content : Seq(Block),
         tool : ToolKinds \cup {"none"}, err : BOOLEAN, says : Sayings]

Text(q, n)   == [type |-> "text", id |-> <<q, n>>, stub |-> FALSE]
ToolUse(id)  == [type |-> "tool_use", id |-> id, stub |-> FALSE]
Result(id)   == [type |-> "tool_result", id |-> id, stub |-> FALSE]

UserText(q, says) ==
  [seq |-> q, kind |-> "user_text", content |-> <<Text(q, 0)>>,
   tool |-> "none", err |-> FALSE, says |-> says]
\* _block_to_dict drops thinking blocks: a reply without text and tools has no content left.
Assistant(q, text, tools, says) ==
  [seq |-> q, kind |-> IF tools = <<>> THEN "assistant_text" ELSE "assistant_tool_use",
   content |-> (IF text THEN <<Text(q, 0)>> ELSE <<>>)
               \o [n \in 1..Len(tools) |-> ToolUse(<<q, n>>)],
   tool |-> "none", err |-> FALSE, says |-> says]
ToolResult(q, id, tool, err) ==
  [seq |-> q, kind |-> "tool_result", content |-> <<Result(id)>>,
   tool |-> tool, err |-> err, says |-> "plain"]
\* A widget completion, or (tool = "ticket") the memo of a ticket that was raised.
FlowEvent(q, id, tool) ==
  [seq |-> q, kind |-> "flow_event", content |-> <<Text(id[1], id[2])>>,
   tool |-> tool, err |-> FALSE, says |-> "plain"]

Role(t) == IF t.kind \in {"assistant_text", "assistant_tool_use"} THEN "assistant" ELSE "user"
NextSeq(turns) == IF turns = <<>> THEN 1 ELSE Last(turns).seq + 1

-----------------------------------------------------------------------------
(* Thread.messages(): user-role turns that follow one another share one message, with *)
(* its tool_result blocks first.                                                      *)

IsResult(b) == b.type = "tool_result"

\* The blocks of these types, in their order.
OfTypes(blocks, types) ==
  LET kept[k \in 0..Len(blocks)] ==
        IF k = 0 THEN <<>>
        ELSE IF blocks[k].type \in types THEN Append(kept[k - 1], blocks[k]) ELSE kept[k - 1]
  IN kept[Len(blocks)]

InArrivalOrder == [blocks \in Seq(Block) |-> blocks]     \* mutant
ResultsFirst ==
  [blocks \in Seq(Block) |->
     OfTypes(blocks, {"tool_result"}) \o OfTypes(blocks, {"text", "tool_use"})]

Message == [role : {"user", "assistant"}, content : Seq(Block)]

Joins(ms, t) == ms # <<>> /\ Role(t) = "user" /\ Last(ms).role = "user"

Extend(t) ==
  [ms \in Seq(Message) |->
     IF Joins(ms, t)
     THEN Append(Front(ms), [role |-> "user", content |-> ResultsFirst[Last(ms).content \o t.content]])
     ELSE Append(ms, [role |-> Role(t), content |-> t.content])]

\* `for turn in self.turns`
Messages[turns \in Seq(Turn)] ==
  LET built[k \in 0..Len(turns)] ==
        IF k = 0 THEN <<>> ELSE Extend(turns[k])[built[k - 1]]
  IN built[Len(turns)]

IsUserText(t) == t.kind = "user_text"
LastUserText(turns) == SelectLastInSeq(turns, IsUserText)

\* last_user_message_index, counted from 1 (0: None): a pass of its own over the roles, which
\* must agree with the merge above.
OpensMessage(turns, k) == ~(Role(turns[k]) = "user" /\ k > 1 /\ Role(turns[k - 1]) = "user")
LastUserMessageIndex(turns) ==
  Cardinality({k \in 1..LastUserText(turns) : OpensMessage(turns, k)})

-----------------------------------------------------------------------------
(* with_history_breakpoint: the messages whose last block carries a cache marker, given    *)
(* the message the newest entry of the cache is believed to end at (0: none).              *)

Reach == Lookback - 1
BlocksBetween(ms, i, j) == Len(FlattenSeq([k \in 1..j - i |-> ms[i + k].content]))

TooFar(ms, entry) == {k \in entry + 1..Len(ms) - 1 : BlocksBetween(ms, k, Len(ms)) <= Reach}  \* mutant
WithinReach(ms, entry) == {k \in entry + 1..Len(ms) - 1 : BlocksBetween(ms, entry, k) <= Reach}

Marks(ms, entry) ==
  IF ms = <<>> \/ Last(ms).content = <<>> THEN {}
  ELSE {Len(ms)} \cup
       IF entry \in 1..Len(ms) - 1 /\ BlocksBetween(ms, entry, Len(ms)) > Reach
       THEN {k \in WithinReach(ms, entry) : \A j \in WithinReach(ms, entry) : j <= k}
       ELSE {}

-----------------------------------------------------------------------------
(* Curation: the payloads of tool results older than the newest user text become stubs. *)

\* mutant: any user-role turn moves it
WatermarkAnyRole(turns) ==
  LET k == SelectLastInSeq(turns, LAMBDA t : Role(t) = "user") IN IF k = 0 THEN 0 ELSE turns[k].seq
Watermark(turns) == IF LastUserText(turns) = 0 THEN 0 ELSE turns[LastUserText(turns)].seq

Curatable(t) == t.kind = "tool_result" /\ ~t.err /\ t.tool \in Curatables

StubBlocks(t) ==
  [k \in DOMAIN t.content |-> [t.content[k] EXCEPT !.stub = IsResult(t.content[k])]]

Curated(turns) ==
  [k \in DOMAIN turns |->
     IF turns[k].seq < Watermark(turns) /\ Curatable(turns[k])
     THEN [turns[k] EXCEPT !.content = StubBlocks(turns[k])] ELSE turns[k]]

\* messages_for_model: what goes on the wire when curation is on.
MessagesForModel(turns) == Messages[Curated(turns)]

-----------------------------------------------------------------------------
(* Caps: counters derived from the turns, never stored. *)

Count(turns, Test(_)) == Cardinality({k \in DOMAIN turns : Test(turns[k])})
IsAnyResult(t) == t.kind = "tool_result"                 \* mutant
IsResolution(t) == t.kind = "tool_result" /\ ~t.err
IsClarifying(t) == t.kind = "assistant_text" /\ t.says \in {"clarify", "offer"}

\* The task window: everything after the last resolution.
Window(turns) == SubSeq(turns, SelectLastInSeq(turns, IsResolution) + 1, Len(turns))
TaskUserTurns(turns) == Count(Window(turns), IsUserText)
SessionUserTurns(turns) == Count(turns, IsUserText)

Tripped(turns) ==
  {c \in {"clarify", "task_turns", "session_turns"} :
     \/ c = "clarify" /\ Count(Window(turns), IsClarifying) >= ClarifyCap
     \/ c = "task_turns" /\ TaskUserTurns(turns) >= TaskTurnCap
     \/ c = "session_turns" /\ SessionUserTurns(turns) >= SessionTurnCap}

\* The instruction the loop appends to every model call of one user message.
Reminder(turns) ==
  IF Tripped(turns) \cap {"clarify", "task_turns"} # {} THEN "offer"
  ELSE IF "session_turns" \in Tripped(turns) THEN "watch" ELSE "none"

-----------------------------------------------------------------------------
(* ticket_call_is_user_initiated: the newest user text asks for it, or agrees to an offer *)
(* made since the user text before it.                                                    *)

StartOfThread(turns) == 0                                \* mutant
PreviousUserText(turns) == SelectLastInSubSeq(turns, 1, LastUserText(turns) - 1, IsUserText)

IsOffer(t) == t.kind = "assistant_text" /\ t.says = "offer"

UserInitiated(turns) ==
  LET u == LastUserText(turns) IN
  /\ u # 0
  /\ \/ turns[u].says = "escalate"
     \/ /\ turns[u].says = "agree"
        /\ \E k \in PreviousUserText(turns) + 1..u - 1 : IsOffer(turns[k])

-----------------------------------------------------------------------------
(* External: what the Messages API accepts.  The history is preceded by an assistant    *)
(* message and followed by a user message without tool results, so a tool_use in its    *)
(* last message has no answer and a tool_result in its first has no question.           *)

Ids(content, type) == {content[k].id : k \in {j \in DOMAIN content : content[j].type = type}}
ResultsAfter(ms, k) == IF k < Len(ms) THEN Ids(ms[k + 1].content, "tool_result") ELSE {}
UsesBefore(ms, k) == IF k > 1 THEN Ids(ms[k - 1].content, "tool_use") ELSE {}

LeadsWithResults(content) ==
  \A j, k \in DOMAIN content : j < k /\ IsResult(content[k]) => IsResult(content[j])

WireValid[ms \in Seq(Message)] ==
  \A k \in DOMAIN ms :
    /\ ms[k].content # <<>>
    /\ Ids(ms[k].content, "tool_use") = ResultsAfter(ms, k)
    /\ Ids(ms[k].content, "tool_result") = UsesBefore(ms, k)
    /\ LeadsWithResults(ms[k].content)

\* The bytes of a request in order, which is what a prompt cache matches a prefix of.
Bytes[ms \in Seq(Message)] == FlattenSeq([k \in DOMAIN ms |-> ms[k].content])
=============================================================================
