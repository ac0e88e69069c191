------------------------ MODULE TranscriptLog_proofs ------------------------
(* What is derived anew from a transcript agrees with what a reader counting along knows, *)
(* however the transcript grew and however long it is.                                    *)
EXTENDS TranscriptLog, Transcript_proofs

-----------------------------------------------------------------------------
(* The transcript grows by one turn at a time.                             *)

\* Turns are numbered by their positions; what is unanswered was asked before.
Log ==
  /\ turns \in Seq(Turn)
  /\ \A k \in 1..Len(turns) : turns[k].seq = k /\ Fresh(turns[k])
  /\ unanswered \subseteq (1..Len(turns)) \X (1..2) \X ToolKinds

Brings(t) ==
  /\ t \in Turn /\ Fresh(t) /\ t.seq = Len(turns) + 1
  /\ turns' = Append(turns, t)

LEMMA AppendIs ==
  ASSUME NEW s \in Seq(Turn), NEW t \in Turn
  PROVE  /\ Append(s, t) \in Seq(Turn) /\ Len(s) \in Nat /\ Len(Append(s, t)) = Len(s) + 1
         /\ DOMAIN s = 1..Len(s) /\ DOMAIN Append(s, t) = 1..Len(s) + 1
         /\ Append(s, t)[Len(s) + 1] = t
         /\ \A k \in 1..Len(s) : Append(s, t)[k] = s[k]
  BY AppendProperties, LenProperties

LEMMA NextIs ==
  ASSUME Log
  PROVE  NextSeq(turns) = Len(turns) + 1 /\ Len(turns) \in Nat
<1>1. PICK s \in Seq(Turn) : s = turns
  BY DEF Log
<1>2. Len(s) \in Nat /\ DOMAIN s = 1..Len(s) /\ (s # <<>> => Len(s) > 0) /\ (s = <<>> => Len(s) = 0)
  BY LenProperties, EmptySeq
<1>3. s # <<>> => s[Len(s)].seq = Len(s)
  BY <1>1, <1>2 DEF Log
<1> QED
  BY <1>1, <1>2, <1>3 DEF NextSeq, Last

\* What each writer appends.
LEMMA UserTextBrings ==
  ASSUME Log, NEW says \in UserSays, Grow(UserText(NextSeq(turns), says))
  PROVE  \E t : /\ Brings(t) /\ t.kind = "user_text" /\ t.says = says /\ ~ t.err
                /\ t.content = <<Text(Len(turns) + 1, 0)>>
<1>1. PICK t : t = UserText(Len(turns) + 1, says)
  OBVIOUS
<1>2. Len(turns) + 1 \in Nat /\ says \in Sayings
  BY NextIs, LogAssumption
<1>3. t \in Turn /\ Fresh(t) /\ t.seq = Len(turns) + 1 /\ t.kind = "user_text" /\ t.says = says
  BY <1>1, <1>2, UserTextIs
<1>4. t.content = <<Text(Len(turns) + 1, 0)>> /\ t.err = FALSE
  BY <1>1 DEF UserText
<1> QED
  BY <1>1, <1>3, <1>4, NextIs DEF Brings, Grow

LEMMA ReplyBrings ==
  ASSUME Log, NEW says \in ReplySays, Grow(Assistant(NextSeq(turns), TRUE, <<>>, says))
  PROVE  \E t : /\ Brings(t) /\ t.kind = "assistant_text" /\ t.says = says /\ ~ t.err
                /\ t.content = <<Text(Len(turns) + 1, 0)>>
<1>1. PICK t : t = Assistant(Len(turns) + 1, TRUE, <<>>, says)
  OBVIOUS
<1>2. Len(turns) + 1 \in Nat /\ says \in Sayings /\ <<>> \in Seq(ToolKinds)
  BY NextIs, LogAssumption, EmptySeq DEF Sayings
<1>3. t \in Turn /\ Fresh(t) /\ t.seq = Len(turns) + 1
  <2>1. PICK q \in Nat, text \in BOOLEAN, tools \in Seq(ToolKinds) :
          q = Len(turns) + 1 /\ text = TRUE /\ tools = <<>>
    BY <1>2
  <2>2. t = Assistant(q, text, tools, says)
    BY <1>1, <2>1
  <2>3. t \in Turn /\ Fresh(t) /\ t.seq = q
    BY <1>2, <2>2, AssistantIs DEF IsReplyTurn
  <2> QED
    BY <2>1, <2>3
<1>4. t.kind = "assistant_text" /\ t.says = says /\ t.err = FALSE
      /\ t.content = <<Text(Len(turns) + 1, 0)>> \o [n \in 1..Len(<<>>) |-> ToolUse(<<Len(turns) + 1, n>>)]
  BY <1>1 DEF Assistant
<1>5. t.content = <<Text(Len(turns) + 1, 0)>>
  <2>1. PICK b \in Block : b = Text(Len(turns) + 1, 0)
    BY <1>2 DEF Text, Block
  <2>2. [n \in 1..Len(<<>>) |-> ToolUse(<<Len(turns) + 1, n>>)] = <<>>
    OBVIOUS
  <2>3. <<b>> \in Seq(Block) /\ <<b>> \o <<>> = <<b>>
    BY ConcatEmptySeq, OneBlock
  <2> QED
    BY <1>4, <2>1, <2>2, <2>3
<1> QED
  BY <1>1, <1>3, <1>4, <1>5, NextIs DEF Brings, Grow

LEMMA ToolUseBrings ==
  ASSUME Log, NEW tools \in {<<"search">>, <<"card", "ticket">>},
         Grow(Assistant(NextSeq(turns), FALSE, tools, "plain"))
  PROVE  \E t : /\ Brings(t) /\ t.kind = "assistant_tool_use" /\ t.says = "plain" /\ ~ t.err
                /\ t.content = [n \in 1..Len(tools) |-> ToolUse(<<Len(turns) + 1, n>>)]
                /\ Len(tools) \in 1..2 /\ DOMAIN tools = 1..Len(tools)
                /\ \A n \in 1..Len(tools) : tools[n] \in ToolKinds
<1>1. PICK t : t = Assistant(Len(turns) + 1, FALSE, tools, "plain")
  OBVIOUS
<1>2. Len(turns) + 1 \in Nat /\ "plain" \in Sayings
  BY NextIs DEF Sayings
<1>3. tools \in Seq(ToolKinds) /\ Len(tools) \in 1..2 /\ tools # <<>> /\ DOMAIN tools = 1..Len(tools)
      /\ \A n \in 1..Len(tools) : tools[n] \in ToolKinds
  <2>1. CASE tools = <<"search">>
    BY <2>1 DEF ToolKinds
  <2>2. CASE tools = <<"card", "ticket">>
    <3>1. Len(tools) = 2 /\ tools[1] = "card" /\ tools[2] = "ticket" /\ DOMAIN tools = 1..2
      BY <2>2
    <3>2. tools \in Seq(ToolKinds)
      BY <2>2 DEF ToolKinds
    <3>3. "card" \in ToolKinds /\ "ticket" \in ToolKinds
      BY DEF ToolKinds
    <3>4. \A n \in 1..2 : n = 1 \/ n = 2
      OBVIOUS
    <3>5. \A n \in 1..Len(tools) : tools[n] \in ToolKinds
      BY <3>1, <3>3, <3>4
    <3>6. 2 \in 1..2 /\ tools # <<>>
      BY <2>2
    <3> QED
      BY <3>1, <3>2, <3>5, <3>6
  <2> QED
    BY <2>1, <2>2
<1>4. t \in Turn /\ Fresh(t) /\ t.seq = Len(turns) + 1
  <2>1. PICK q \in Nat, text \in BOOLEAN, says \in Sayings :
          q = Len(turns) + 1 /\ text = FALSE /\ says = "plain"
    BY <1>2
  <2>2. t = Assistant(q, text, tools, says)
    BY <1>1, <2>1
  <2>3. t \in Turn /\ Fresh(t) /\ t.seq = q
    BY <1>3, <2>2, AssistantIs DEF IsReplyTurn
  <2> QED
    BY <2>1, <2>3
<1>5. t.kind = "assistant_tool_use" /\ t.says = "plain" /\ t.err = FALSE
      /\ t.content = <<>> \o [n \in 1..Len(tools) |-> ToolUse(<<Len(turns) + 1, n>>)]
  BY <1>1, <1>3 DEF Assistant
<1>6. t.content = [n \in 1..Len(tools) |-> ToolUse(<<Len(turns) + 1, n>>)]
  <2>1. PICK uses : uses = [n \in 1..Len(tools) |-> ToolUse(<<Len(turns) + 1, n>>)]
    OBVIOUS
  <2>2. \A n \in 1..Len(tools) : ToolUse(<<Len(turns) + 1, n>>) \in Block
    BY <1>2, <1>3 DEF ToolUse, Block
  <2>3. uses \in Seq(Block)
    BY <1>3, <2>1, <2>2, IsASeq
  <2> QED
    BY <1>5, <2>1, <2>3, ConcatEmptySeq
<1> QED
  BY <1>1, <1>3, <1>4, <1>5, <1>6, NextIs DEF Brings, Grow

LEMMA ResultBrings ==
  ASSUME Log, NEW u \in unanswered, NEW err \in BOOLEAN,
         Grow(ToolResult(NextSeq(turns), <<u[1], u[2]>>, u[3], err))
  PROVE  \E t : /\ Brings(t) /\ t.kind = "tool_result" /\ t.says = "plain" /\ t.err = err
                /\ t.content = <<Result(<<u[1], u[2]>>)>> /\ u[1] \in 1..Len(turns) /\ u[2] \in 1..2
<1>1. PICK t : t = ToolResult(Len(turns) + 1, <<u[1], u[2]>>, u[3], err)
  OBVIOUS
<1>2. u[1] \in 1..Len(turns) /\ u[2] \in 1..2 /\ u[3] \in ToolKinds
  BY DEF Log
<1>3. Len(turns) + 1 \in Nat /\ <<u[1], u[2]>> \in BlockIds
  BY <1>2, NextIs DEF BlockIds
<1>4. t \in Turn /\ Fresh(t) /\ t.seq = Len(turns) + 1 /\ t.kind = "tool_result"
  <2>1. PICK q \in Nat, id \in BlockIds, tool \in ToolKinds :
          q = Len(turns) + 1 /\ id = <<u[1], u[2]>> /\ tool = u[3]
    BY <1>2, <1>3
  <2>2. t = ToolResult(q, id, tool, err)
    BY <1>1, <2>1
  <2>3. /\ t \in Turn /\ Fresh(t) /\ t.seq = q /\ FirstId(t) = id
        /\ t.kind = "tool_result" /\ t.tool = tool /\ Tells(t, {id})
    BY <2>2, ToolResultIs
  <2>4. t \in Turn /\ Fresh(t) /\ t.seq = q /\ t.kind = "tool_result"
    BY <2>3
  <2> QED
    BY <2>1, <2>4
<1>5. t.says = "plain" /\ t.err = err /\ t.content = <<Result(<<u[1], u[2]>>)>>
  BY <1>1 DEF ToolResult
<1> QED
  BY <1>1, <1>2, <1>4, <1>5, NextIs DEF Brings, Grow

LEMMA FlowEventBrings ==
  ASSUME Log, AppendFlowEvent
  PROVE  \E t : /\ Brings(t) /\ t.kind = "flow_event" /\ t.says = "plain" /\ ~ t.err
                /\ t.content = <<Text(Len(turns) + 1, 0)>>
<1>1. PICK t : t = FlowEvent(Len(turns) + 1, <<Len(turns) + 1, 0>>, "none")
  OBVIOUS
<1>2. Len(turns) + 1 \in Nat /\ <<Len(turns) + 1, 0>> \in BlockIds
  BY NextIs DEF BlockIds
<1>3. t \in Turn /\ Fresh(t) /\ t.seq = Len(turns) + 1 /\ t.kind = "flow_event"
  BY <1>1, <1>2, FlowEventIs
<1>4. t.says = "plain" /\ t.err = FALSE /\ t.content = <<Text(Len(turns) + 1, 0)>>
  BY <1>1 DEF FlowEvent
<1> QED
  BY <1>1, <1>3, <1>4, NextIs DEF AppendFlowEvent, Brings, Grow

-----------------------------------------------------------------------------
(* Counting turns, and finding the last one of a kind.                     *)

Places(s, T) == {k \in DOMAIN s : s[k] \in T}

LEMMA Counted ==
  ASSUME NEW s \in Seq(Turn), NEW t \in Turn, NEW T
  PROVE  /\ Cardinality(Places(s, T)) \in Nat
         /\ Cardinality(Places(Append(s, t), T)) =
              Cardinality(Places(s, T)) + IF t \in T THEN 1 ELSE 0
<1> DEFINE A == Places(s, T)
           B == Places(Append(s, t), T)
<1>1. /\ Len(s) \in Nat /\ DOMAIN s = 1..Len(s) /\ DOMAIN Append(s, t) = 1..Len(s) + 1
      /\ Append(s, t)[Len(s) + 1] = t /\ \A k \in 1..Len(s) : Append(s, t)[k] = s[k]
  BY AppendIs
<1>2. IsFiniteSet(A) /\ Cardinality(A) \in Nat
  <2>1. IsFiniteSet(1..Len(s))
    BY <1>1, FS_Interval
  <2>2. A \subseteq 1..Len(s)
    BY <1>1 DEF Places
  <2> QED
    BY <2>1, <2>2, FS_Subset, FS_CardinalityType
<1>3. CASE t \in T
  <2>1. B = A \cup {Len(s) + 1} /\ Len(s) + 1 \notin A
    BY <1>1, <1>3 DEF Places
  <2>2. Cardinality(B) = Cardinality(A) + 1
    BY <1>2, <2>1, FS_AddElement
  <2> QED
    BY <1>2, <1>3, <2>2
<1>4. CASE t \notin T
  <2>1. B = A
    BY <1>1, <1>4 DEF Places
  <2> HIDE DEF A, B
  <2>2. Cardinality(B) = Cardinality(A) + 0
    BY <1>2, <2>1
  <2>3. Cardinality(B) = Cardinality(A) + IF t \in T THEN 1 ELSE 0
    BY <1>4, <2>2
  <2> QED
    BY <1>2, <2>3 DEF A, B
<1> QED
  BY <1>3, <1>4

UserTexts == {t \in Turn : IsUserText(t)}
Clarifying == {t \in Turn : IsClarifying(t)}

LEMMA UserTextsCounted ==
  ASSUME NEW s \in Seq(Turn)
  PROVE  /\ Count(s, IsUserText) = Cardinality(Places(s, UserTexts))
         /\ Count(s, IsClarifying) = Cardinality(Places(s, Clarifying))
<1>1. \A k \in DOMAIN s : s[k] \in Turn
  BY LenProperties, ElementOfSeq
<1>2. {k \in DOMAIN s : IsUserText(s[k])} = Places(s, UserTexts)
  BY <1>1 DEF UserTexts, Places
<1>3. {k \in DOMAIN s : IsClarifying(s[k])} = Places(s, Clarifying)
  BY <1>1 DEF Clarifying, Places
<1> QED
  BY <1>2, <1>3 DEF Count

LEMMA CountGrows ==
  ASSUME NEW s \in Seq(Turn), NEW t \in Turn
  PROVE  /\ Count(s, IsUserText) \in Nat /\ Count(s, IsClarifying) \in Nat
         /\ Count(Append(s, t), IsUserText) = Count(s, IsUserText) + IF IsUserText(t) THEN 1 ELSE 0
         /\ Count(Append(s, t), IsClarifying) = Count(s, IsClarifying) + IF IsClarifying(t) THEN 1 ELSE 0
<1>1. Append(s, t) \in Seq(Turn)
  BY AppendIs
<1>2. t \in UserTexts <=> IsUserText(t)
  BY DEF UserTexts
<1>3. t \in Clarifying <=> IsClarifying(t)
  BY DEF Clarifying
<1>4. /\ Count(s, IsUserText) \in Nat
      /\ Count(Append(s, t), IsUserText) = Count(s, IsUserText) + IF t \in UserTexts THEN 1 ELSE 0
  <2>1. /\ Cardinality(Places(s, UserTexts)) \in Nat
        /\ Cardinality(Places(Append(s, t), UserTexts)) =
             Cardinality(Places(s, UserTexts)) + IF t \in UserTexts THEN 1 ELSE 0
    BY Counted
  <2>2. Count(s, IsUserText) = Cardinality(Places(s, UserTexts))
    BY UserTextsCounted
  <2>3. Count(Append(s, t), IsUserText) =
          Cardinality(Places(Append(s, t), UserTexts))
    BY <1>1, UserTextsCounted
  <2> QED
    BY <2>1, <2>2, <2>3
<1>5. /\ Count(s, IsClarifying) \in Nat
      /\ Count(Append(s, t), IsClarifying) = Count(s, IsClarifying) + IF t \in Clarifying THEN 1 ELSE 0
  <2>1. /\ Cardinality(Places(s, Clarifying)) \in Nat
        /\ Cardinality(Places(Append(s, t), Clarifying)) =
             Cardinality(Places(s, Clarifying)) + IF t \in Clarifying THEN 1 ELSE 0
    BY Counted
  <2>2. Count(s, IsClarifying) = Cardinality(Places(s, Clarifying))
    BY UserTextsCounted
  <2>3. Count(Append(s, t), IsClarifying) =
          Cardinality(Places(Append(s, t), Clarifying))
    BY <1>1, UserTextsCounted
  <2> QED
    BY <2>1, <2>2, <2>3
<1> QED
  BY <1>2, <1>3, <1>4, <1>5

LEMMA CountNone == Count(<<>>, IsUserText) = 0 /\ Count(<<>>, IsClarifying) = 0
<1>1. DOMAIN <<>> = {}
  OBVIOUS
<1> QED
  BY <1>1, FS_EmptySet DEF Count

\* The largest of a set of positions.
LEMMA LargestIs ==
  ASSUME NEW J, NEW n \in Nat, J \subseteq 1..n
  PROVE  /\ J # {} => Max(J) \in J /\ \A y \in J : Max(J) >= y
         /\ \A m \in J : (\A y \in J : m >= y) => Max(J) = m
<1>1. J # {} => \E x \in J : \A y \in J : x >= y
  BY LargestOf
<1>2. J # {} => Max(J) \in J /\ \A y \in J : Max(J) >= y
  BY <1>1 DEF Max
<1>3. ASSUME NEW m \in J, \A y \in J : m >= y
      PROVE  Max(J) = m
  <2>1. \A x \in J : (\A y \in J : x >= y) => x = m
    BY <1>3
  <2> QED
    BY <1>2, <1>3, <2>1
<1> QED
  BY <1>2, <1>3

\* A turn at the end is the last of its kind, or changes nothing.
LEMMA LargestGrows ==
  ASSUME NEW s \in Seq(Turn), NEW t \in Turn, NEW T,
         NEW J, J = Places(s, T), NEW K, K = Places(Append(s, t), T)
  PROVE  /\ t \notin T => K = J
         /\ t \in T => K # {} /\ Max(K) = Len(s) + 1
<1>1. /\ Len(s) \in Nat /\ DOMAIN s = 1..Len(s) /\ DOMAIN Append(s, t) = 1..Len(s) + 1
      /\ Append(s, t)[Len(s) + 1] = t /\ \A k \in 1..Len(s) : Append(s, t)[k] = s[k]
  BY AppendIs
<1>2. ASSUME t \notin T PROVE K = J
  BY <1>1, <1>2 DEF Places
<1>3. ASSUME t \in T PROVE K # {} /\ Max(K) = Len(s) + 1
  <2>1. Len(s) + 1 \in K /\ K \subseteq 1..Len(s) + 1
    BY <1>1, <1>3 DEF Places
  <2>2. \A y \in K : Len(s) + 1 >= y
    BY <1>1, <2>1
  <2>3. PICK n \in Nat : n = Len(s) + 1
    BY <1>1
  <2>4. Max(K) = n
    BY <2>1, <2>2, <2>3, LargestIs
  <2> QED
    BY <2>1, <2>3, <2>4
<1> QED
  BY <1>2, <1>3

-----------------------------------------------------------------------------
(* The caps, as a reader counting along keeps them.                        *)

\* What a turn does to the numbers since the last resolution.
LEMMA WindowGrows ==
  ASSUME NEW s \in Seq(Turn), NEW t \in Turn
  PROVE  /\ Window(s) \in Seq(Turn)
         /\ Window(Append(s, t)) = IF IsResolution(t) THEN <<>> ELSE Append(Window(s), t)
<1> DEFINE T == {u \in Turn : IsResolution(u)}
<1>1. PICK n \in Nat, x \in Seq(Turn) : n = Len(s) /\ x = Append(s, t)
  BY AppendIs
<1>2. /\ Len(s) = n /\ Len(x) = n + 1 /\ x[n + 1] = t /\ \A k \in 1..n : x[k] = s[k]
  BY <1>1, AppendIs
<1>3. PICK J, K : /\ J = {k \in 1..n : s[k] \in T}
                  /\ K = {k \in 1..n + 1 : x[k] \in T}
  OBVIOUS
<1>4. (\A k \in 1..n : s[k] \in Turn) /\ (\A k \in 1..n + 1 : x[k] \in Turn)
  BY <1>1, <1>2, ElementOfSeq
<1>5. SelectLastInSeq(s, IsResolution) = IF J # {} THEN Max(J) ELSE 0
  <2>1. J = {k \in 1..Len(s) : IsResolution(s[k])}
    BY <1>2, <1>3, <1>4
  <2> QED
    BY <2>1 DEF SelectLastInSeq
<1>6. SelectLastInSeq(x, IsResolution) = IF K # {} THEN Max(K) ELSE 0
  <2>1. K = {k \in 1..Len(x) : IsResolution(x[k])}
    BY <1>2, <1>3, <1>4
  <2> QED
    BY <2>1 DEF SelectLastInSeq
<1>7. (t \notin T => K = J) /\ (t \in T => K # {} /\ Max(K) = n + 1)
  <2>1. J = Places(s, T) /\ K = Places(Append(s, t), T)
    BY <1>1, <1>2, <1>3, AppendIs DEF Places
  <2> HIDE DEF T
  <2>2. (t \notin T => K = J) /\ (t \in T => K # {} /\ Max(K) = Len(s) + 1)
    BY <2>1, LargestGrows
  <2> QED
    BY <1>1, <2>2
<1>8. t \in T <=> IsResolution(t)
  OBVIOUS
<1> HIDE DEF T
<1>9. PICK w \in 0..n : w = SelectLastInSeq(s, IsResolution)
  <2>1. J \subseteq 1..n
    BY <1>3
  <2>2. CASE J = {}
    BY <1>5, <2>2
  <2>3. CASE J # {}
    <3>1. PICK p \in J : p = Max(J)
      BY <2>1, <2>3, LargestIs
    <3>2. p \in 0..n /\ p = SelectLastInSeq(s, IsResolution)
      BY <1>5, <2>1, <2>3, <3>1
    <3> QED
      BY <3>2
  <2> QED
    BY <2>2, <2>3
<1>10. PICK v \in Seq(Turn) : /\ v = SubSeq(s, w + 1, n) /\ Len(v) = n - w
                              /\ \A k \in 1..n - w : v[k] = s[w + k]
  <2>1. \A k \in w + 1..n : s[k] \in Turn
    BY <1>4
  <2>2. /\ SubSeq(s, w + 1, n) \in Seq(Turn)
        /\ Len(SubSeq(s, w + 1, n)) = IF w + 1 <= n THEN n - (w + 1) + 1 ELSE 0
        /\ \A k \in 1..n - (w + 1) + 1 : SubSeq(s, w + 1, n)[k] = s[w + 1 + k - 1]
    BY <2>1, SubSeqProperties
  <2>3. \A k \in 1..n - w : k \in 1..n - (w + 1) + 1 /\ w + 1 + k - 1 = w + k
    OBVIOUS
  <2>4. Len(SubSeq(s, w + 1, n)) = n - w
    BY <2>2
  <2> QED
    BY <2>2, <2>3, <2>4, ZenonT(60)
<1>11. Window(s) = v
  BY <1>2, <1>9, <1>10 DEF Window
<1>12. ASSUME IsResolution(t) PROVE Window(x) = <<>>
  <2>1. SelectLastInSeq(x, IsResolution) = n + 1
    BY <1>6, <1>7, <1>8, <1>12
  <2>2. Window(x) = SubSeq(x, n + 2, n + 1)
    BY <1>2, <2>1, SMTT(60) DEF Window
  <2>3. Len(SubSeq(x, n + 2, n + 1)) = 0 /\ SubSeq(x, n + 2, n + 1) \in Seq(Turn)
    <3>1. \A k \in n + 2..n + 1 : x[k] \in Turn
      OBVIOUS
    <3> QED
      BY <3>1, SubSeqProperties
  <2> QED
    BY <2>2, <2>3, EmptySeq
<1>13. ASSUME ~ IsResolution(t) PROVE Window(x) = Append(v, t)
  <2>1. SelectLastInSeq(x, IsResolution) = w
    BY <1>5, <1>6, <1>7, <1>8, <1>9, <1>13
  <2>2. Window(x) = SubSeq(x, w + 1, n + 1)
    BY <1>2, <2>1 DEF Window
  <2>3. PICK y \in Seq(Turn) : /\ y = SubSeq(x, w + 1, n + 1) /\ Len(y) = n + 1 - w
                               /\ \A k \in 1..n + 1 - w : y[k] = x[w + k]
    <3>1. \A k \in w + 1..n + 1 : x[k] \in Turn
      BY <1>4
    <3>2. /\ SubSeq(x, w + 1, n + 1) \in Seq(Turn)
          /\ Len(SubSeq(x, w + 1, n + 1)) = IF w + 1 <= n + 1 THEN n + 1 - (w + 1) + 1 ELSE 0
          /\ \A k \in 1..n + 1 - (w + 1) + 1 : SubSeq(x, w + 1, n + 1)[k] = x[w + 1 + k - 1]
      BY <3>1, SubSeqProperties
    <3>3. \A k \in 1..n + 1 - w : k \in 1..n + 1 - (w + 1) + 1 /\ w + 1 + k - 1 = w + k
      OBVIOUS
    <3>4. Len(SubSeq(x, w + 1, n + 1)) = n + 1 - w
      BY <3>2
    <3> QED
      BY <3>2, <3>3, <3>4, ZenonT(60)
  <2>4. PICK z \in Seq(Turn) : z = Append(v, t)
    BY AppendIs
  <2>5. /\ Len(z) = n - w + 1 /\ z[n - w + 1] = t /\ \A k \in 1..n - w : z[k] = v[k]
    BY <1>10, <2>4, AppendIs, SMTT(60)
  <2>6. Len(y) = Len(z) /\ \A k \in 1..Len(y) : y[k] = z[k]
    <3>1. ASSUME NEW k \in 1..n + 1 - w PROVE y[k] = z[k]
      <4>1. CASE k \in 1..n - w
        BY <1>2, <1>10, <2>3, <2>5, <4>1
      <4>2. CASE k = n - w + 1
        <5>1. w + k = n + 1 /\ y[k] = x[w + k]
          BY <2>3, <4>2
        <5> QED
          BY <1>2, <2>5, <4>2, <5>1
      <4>3. k \in 1..n - w \/ k = n - w + 1
        BY ONLY n \in Nat, w \in 0..n, k \in 1..n + 1 - w
      <4> QED
        BY <4>1, <4>2, <4>3, Zenon
    <3>2. n + 1 - w = n - w + 1
      BY ONLY n \in Nat, w \in 0..n
    <3>3. Len(y) = n + 1 - w /\ Len(y) = Len(z)
      BY <2>3, <2>5, <3>2, Zenon
    <3> QED
      BY <3>1, <3>3, Zenon
  <2>7. y = z
    BY <2>6, SeqEqual
  <2> QED
    BY <2>2, <2>3, <2>4, <2>7
<1> QED
  BY <1>1, <1>11, <1>12, <1>13

LEMMA CapsGrow ==
  ASSUME Log, CapsCountAlong, NEW t, Brings(t)
  PROVE  /\ asked \in Nat /\ total \in Nat /\ clarified \in Nat
         /\ SessionUserTurns(turns') = total + IF IsUserText(t) THEN 1 ELSE 0
         /\ TaskUserTurns(turns') =
              IF IsResolution(t) THEN 0 ELSE asked + IF IsUserText(t) THEN 1 ELSE 0
         /\ Count(Window(turns'), IsClarifying) =
              IF IsResolution(t) THEN 0 ELSE clarified + IF IsClarifying(t) THEN 1 ELSE 0
<1>1. PICK s \in Seq(Turn), u \in Turn, x \in Seq(Turn) :
        s = turns /\ u = t /\ x = Append(s, u) /\ x = turns'
  BY AppendIs DEF Log, Brings
<1>2. PICK v \in Seq(Turn) : v = Window(s)
  BY WindowGrows
<1>3. Window(x) = IF IsResolution(u) THEN <<>> ELSE Append(v, u)
  BY <1>1, <1>2, WindowGrows, ZenonT(60)
<1>4. Count(s, IsUserText) = total /\ Count(v, IsUserText) = asked /\ Count(v, IsClarifying) = clarified
  BY <1>1, <1>2 DEF CapsCountAlong, SessionUserTurns, TaskUserTurns
<1>5. /\ Count(s, IsUserText) \in Nat
      /\ Count(x, IsUserText) = Count(s, IsUserText) + IF IsUserText(u) THEN 1 ELSE 0
  BY <1>1, CountGrows, ZenonT(60)
<1>6. /\ Count(v, IsUserText) \in Nat /\ Count(v, IsClarifying) \in Nat
      /\ Count(Append(v, u), IsUserText) = Count(v, IsUserText) + IF IsUserText(u) THEN 1 ELSE 0
      /\ Count(Append(v, u), IsClarifying) = Count(v, IsClarifying) + IF IsClarifying(u) THEN 1 ELSE 0
  BY CountGrows
<1>7. Count(Window(x), IsUserText) = IF IsResolution(u) THEN 0 ELSE asked + IF IsUserText(u) THEN 1 ELSE 0
  <2>1. CASE IsResolution(u)
    BY <1>3, <2>1, CountNone
  <2>2. CASE ~ IsResolution(u)
    <3>1. Window(x) = Append(v, u)
      BY <1>3, <2>2
    <3>2. Count(Window(x), IsUserText) = Count(Append(v, u), IsUserText)
      BY <3>1
    <3> QED
      BY <1>4, <1>6, <2>2, <3>2
  <2> QED
    BY <2>1, <2>2
<1>8. Count(Window(x), IsClarifying) = IF IsResolution(u) THEN 0 ELSE clarified + IF IsClarifying(u) THEN 1 ELSE 0
  <2>1. CASE IsResolution(u)
    BY <1>3, <2>1, CountNone
  <2>2. CASE ~ IsResolution(u)
    <3>1. Window(x) = Append(v, u)
      BY <1>3, <2>2
    <3>2. Count(Window(x), IsClarifying) = Count(Append(v, u), IsClarifying)
      BY <3>1
    <3> QED
      BY <1>4, <1>6, <2>2, <3>2
  <2> QED
    BY <2>1, <2>2
<1> QED
  BY <1>1, <1>4, <1>5, <1>6, <1>7, <1>8 DEF SessionUserTurns, TaskUserTurns

LEMMA CapsHold ==
  ASSUME Log, CapsCountAlong, NEW t, Brings(t),
         total' = total + IF IsUserText(t) THEN 1 ELSE 0,
         asked' = IF IsResolution(t) THEN 0 ELSE asked + IF IsUserText(t) THEN 1 ELSE 0,
         clarified' = IF IsResolution(t) THEN 0 ELSE clarified + IF IsClarifying(t) THEN 1 ELSE 0
  PROVE  CapsCountAlong'
<1>1. /\ SessionUserTurns(turns') = total' /\ TaskUserTurns(turns') = asked'
      /\ Count(Window(turns'), IsClarifying) = clarified'
  BY CapsGrow
<1> QED
  BY <1>1 DEF CapsCountAlong

LEMMA LogInit == Init => Log
<1>1. ASSUME Init PROVE Log
  <2>1. turns = <<>> /\ unanswered = {}
    BY <1>1 DEF Init
  <2>2. <<>> \in Seq(Turn) /\ Len(<<>>) = 0
    BY EmptySeq
  <2> QED
    BY <2>1, <2>2 DEF Log
<1> QED
  BY <1>1

\* A turn at the end leaves what is unanswered in range, if what it adds is in range.
LEMMA LogGrows ==
  ASSUME Log, NEW t, Brings(t),
         unanswered' \subseteq unanswered \cup ({Len(turns) + 1} \X (1..2) \X ToolKinds)
  PROVE  Log'
<1>1. PICK s \in Seq(Turn), u \in Turn, x \in Seq(Turn) :
        s = turns /\ u = t /\ x = Append(s, u) /\ x = turns'
  BY AppendIs DEF Log, Brings
<1>2. /\ Len(s) \in Nat /\ Len(x) = Len(s) + 1 /\ x[Len(s) + 1] = u /\ \A k \in 1..Len(s) : x[k] = s[k]
  <2>1. x = Append(s, u)
    BY <1>1
  <2> QED
    BY ONLY <2>1, AppendIs
<1>3. ASSUME NEW k \in 1..Len(x) PROVE x[k].seq = k /\ Fresh(x[k])
  <2>1. CASE k \in 1..Len(s)
    BY <1>1, <1>2, <2>1 DEF Log
  <2>2. CASE k = Len(s) + 1
    BY <1>1, <1>2, <2>2 DEF Brings
  <2> QED
    BY <1>2, <2>1, <2>2
<1>4. unanswered' \subseteq (1..Len(x)) \X (1..2) \X ToolKinds
  <2>1. PICK n \in Nat : n = Len(s) /\ Len(x) = n + 1
    BY <1>2
  <2>2. unanswered \subseteq (1..n) \X (1..2) \X ToolKinds
    BY <1>1, <2>1 DEF Log
  <2>3. unanswered' \subseteq unanswered \cup ({n + 1} \X (1..2) \X ToolKinds)
    BY <1>1, <2>1
  <2>4. 1..n \subseteq 1..n + 1 /\ {n + 1} \subseteq 1..n + 1
    OBVIOUS
  <2>5. (1..n) \X (1..2) \X ToolKinds \subseteq (1..n + 1) \X (1..2) \X ToolKinds
    BY <2>4
  <2>6. {n + 1} \X (1..2) \X ToolKinds \subseteq (1..n + 1) \X (1..2) \X ToolKinds
    BY <2>4
  <2> QED
    BY <2>1, <2>2, <2>3, <2>5, <2>6
<1> QED
  BY <1>1, <1>3, <1>4 DEF Log

LEMMA LogStep == Log /\ [Next]_vars => Log'
<1> SUFFICES ASSUME Log, [Next]_vars PROVE Log'
  OBVIOUS
<1>1. CASE AppendUserText
  <2>1. PICK says \in UserSays : Grow(UserText(NextSeq(turns), says))
    BY <1>1 DEF AppendUserText
  <2>2. unanswered' = unanswered
    BY <1>1 DEF AppendUserText
  <2> QED
    BY <2>1, <2>2, UserTextBrings, LogGrows
<1>2. CASE AppendReply
  <2>1. PICK says \in ReplySays : Grow(Assistant(NextSeq(turns), TRUE, <<>>, says))
    BY <1>2 DEF AppendReply
  <2>2. unanswered' = unanswered
    BY <1>2 DEF AppendReply
  <2> QED
    BY <2>1, <2>2, ReplyBrings, LogGrows
<1>3. CASE AppendToolUse
  <2>1. PICK tools \in {<<"search">>, <<"card", "ticket">>} :
          /\ Grow(Assistant(NextSeq(turns), FALSE, tools, "plain"))
          /\ unanswered' = unanswered \cup {<<NextSeq(turns), n, tools[n]>> : n \in DOMAIN tools}
    BY <1>3 DEF AppendToolUse
  <2>2. PICK t : /\ Brings(t) /\ Len(tools) \in 1..2 /\ DOMAIN tools = 1..Len(tools)
                 /\ \A n \in 1..Len(tools) : tools[n] \in ToolKinds
    BY <2>1, ToolUseBrings
  <2>3. {<<NextSeq(turns), n, tools[n]>> : n \in DOMAIN tools}
          \subseteq {Len(turns) + 1} \X (1..2) \X ToolKinds
    BY <2>2, NextIs
  <2> QED
    BY <2>1, <2>2, <2>3, LogGrows
<1>4. CASE AppendResult
  <2>1. PICK u \in unanswered, err \in BOOLEAN :
          /\ Grow(ToolResult(NextSeq(turns), <<u[1], u[2]>>, u[3], err))
          /\ unanswered' = unanswered \ {u}
    BY <1>4 DEF AppendResult
  <2>2. PICK t : Brings(t)
    BY <2>1, ResultBrings
  <2> QED
    BY <2>1, <2>2, LogGrows
<1>5. CASE AppendFlowEvent
  <2>1. unanswered' = unanswered
    BY <1>5 DEF AppendFlowEvent
  <2> QED
    BY <1>5, <2>1, FlowEventBrings, LogGrows
<1>6. CASE UNCHANGED vars
  BY <1>6 DEF vars, Log
<1> QED
  BY <1>1, <1>2, <1>3, <1>4, <1>5, <1>6 DEF Next

LEMMA LogAlways == Spec => []Log
  BY LogInit, LogStep, PTL DEF Spec

LEMMA CapsStep == Log /\ CapsCountAlong /\ [Next]_vars => CapsCountAlong'
<1> SUFFICES ASSUME Log, CapsCountAlong, [Next]_vars PROVE CapsCountAlong'
  OBVIOUS
<1>1. CASE AppendUserText
  <2>1. PICK says \in UserSays : Grow(UserText(NextSeq(turns), says))
    BY <1>1 DEF AppendUserText
  <2>2. PICK t : Brings(t) /\ t.kind = "user_text"
    BY <2>1, UserTextBrings
  <2>3. IsUserText(t) /\ ~ IsResolution(t) /\ ~ IsClarifying(t)
    BY <2>2 DEF IsUserText, IsResolution, IsClarifying
  <2>4. asked' = asked + 1 /\ total' = total + 1 /\ clarified' = clarified
    BY <1>1 DEF AppendUserText
  <2>7. asked \in Nat /\ total \in Nat /\ clarified \in Nat
    BY <2>2, CapsGrow
  <2>8. /\ total' = total + IF IsUserText(t) THEN 1 ELSE 0
        /\ asked' = IF IsResolution(t) THEN 0 ELSE asked + IF IsUserText(t) THEN 1 ELSE 0
        /\ clarified' = IF IsResolution(t) THEN 0 ELSE clarified + IF IsClarifying(t) THEN 1 ELSE 0
    BY <2>2, <2>3, <2>4, <2>7
  <2> QED
    BY <2>2, <2>8, CapsHold
<1>2. CASE AppendReply
  <2>1. PICK says \in ReplySays :
          /\ Grow(Assistant(NextSeq(turns), TRUE, <<>>, says))
          /\ clarified' = IF says = "plain" THEN clarified ELSE clarified + 1
    BY <1>2 DEF AppendReply
  <2>2. PICK t : Brings(t) /\ t.kind = "assistant_text" /\ t.says = says
    BY <2>1, ReplyBrings
  <2>3. ~ IsUserText(t) /\ ~ IsResolution(t)
    BY <2>2 DEF IsUserText, IsResolution
  <2>4. IsClarifying(t) <=> says \in {"clarify", "offer"}
    BY <2>2 DEF IsClarifying
  <2>5. asked' = asked /\ total' = total
    BY <1>2 DEF AppendReply
  <2>7. asked \in Nat /\ total \in Nat /\ clarified \in Nat
    BY <2>2, CapsGrow
  <2>8. /\ total' = total + IF IsUserText(t) THEN 1 ELSE 0
        /\ asked' = IF IsResolution(t) THEN 0 ELSE asked + IF IsUserText(t) THEN 1 ELSE 0
        /\ clarified' = IF IsResolution(t) THEN 0 ELSE clarified + IF IsClarifying(t) THEN 1 ELSE 0
    BY <2>1, <2>2, <2>3, <2>4, <2>5, <2>7, LogAssumption
  <2> QED
    BY <2>2, <2>8, CapsHold
<1>3. CASE AppendToolUse
  <2>1. PICK tools \in {<<"search">>, <<"card", "ticket">>} :
          Grow(Assistant(NextSeq(turns), FALSE, tools, "plain"))
    BY <1>3 DEF AppendToolUse
  <2>2. PICK t : Brings(t) /\ t.kind = "assistant_tool_use"
    BY <2>1, ToolUseBrings
  <2>3. ~ IsUserText(t) /\ ~ IsResolution(t) /\ ~ IsClarifying(t)
    BY <2>2 DEF IsUserText, IsResolution, IsClarifying
  <2>4. asked' = asked /\ total' = total /\ clarified' = clarified
    BY <1>3 DEF AppendToolUse
  <2>7. asked \in Nat /\ total \in Nat /\ clarified \in Nat
    BY <2>2, CapsGrow
  <2>8. /\ total' = total + IF IsUserText(t) THEN 1 ELSE 0
        /\ asked' = IF IsResolution(t) THEN 0 ELSE asked + IF IsUserText(t) THEN 1 ELSE 0
        /\ clarified' = IF IsResolution(t) THEN 0 ELSE clarified + IF IsClarifying(t) THEN 1 ELSE 0
    BY <2>2, <2>3, <2>4, <2>7
  <2> QED
    BY <2>2, <2>8, CapsHold
<1>4. CASE AppendResult
  <2>1. PICK u \in unanswered, err \in BOOLEAN :
          /\ Grow(ToolResult(NextSeq(turns), <<u[1], u[2]>>, u[3], err))
          /\ clarified' = IF err THEN clarified ELSE 0
          /\ asked' = IF err THEN asked ELSE 0
    BY <1>4 DEF AppendResult
  <2>2. PICK t : Brings(t) /\ t.kind = "tool_result" /\ t.err = err
    BY <2>1, ResultBrings
  <2>3. ~ IsUserText(t) /\ (IsResolution(t) <=> ~ err) /\ ~ IsClarifying(t)
    BY <2>2 DEF IsUserText, IsResolution, IsClarifying
  <2>4. total' = total
    BY <1>4 DEF AppendResult
  <2>7. asked \in Nat /\ total \in Nat /\ clarified \in Nat
    BY <2>2, CapsGrow
  <2>8. /\ total' = total + IF IsUserText(t) THEN 1 ELSE 0
        /\ asked' = IF IsResolution(t) THEN 0 ELSE asked + IF IsUserText(t) THEN 1 ELSE 0
        /\ clarified' = IF IsResolution(t) THEN 0 ELSE clarified + IF IsClarifying(t) THEN 1 ELSE 0
    BY <2>1, <2>2, <2>3, <2>4, <2>7
  <2> QED
    BY <2>2, <2>8, CapsHold
<1>5. CASE AppendFlowEvent
  <2>1. PICK t : Brings(t) /\ t.kind = "flow_event"
    BY <1>5, FlowEventBrings
  <2>2. ~ IsUserText(t) /\ ~ IsResolution(t) /\ ~ IsClarifying(t)
    BY <2>1 DEF IsUserText, IsResolution, IsClarifying
  <2>3. asked' = asked /\ total' = total /\ clarified' = clarified
    BY <1>5 DEF AppendFlowEvent
  <2>7. asked \in Nat /\ total \in Nat /\ clarified \in Nat
    BY <2>1, CapsGrow
  <2>8. /\ total' = total + IF IsUserText(t) THEN 1 ELSE 0
        /\ asked' = IF IsResolution(t) THEN 0 ELSE asked + IF IsUserText(t) THEN 1 ELSE 0
        /\ clarified' = IF IsResolution(t) THEN 0 ELSE clarified + IF IsClarifying(t) THEN 1 ELSE 0
    BY <2>1, <2>2, <2>3, <2>7
  <2> QED
    BY <2>1, <2>8, CapsHold
<1>6. CASE UNCHANGED vars
  BY <1>6 DEF vars, CapsCountAlong
<1> QED
  BY <1>1, <1>2, <1>3, <1>4, <1>5, <1>6 DEF Next

LEMMA CapsInit == Init => CapsCountAlong
<1> SUFFICES ASSUME Init PROVE CapsCountAlong
  OBVIOUS
<1>1. turns = <<>> /\ asked = 0 /\ total = 0 /\ clarified = 0
  BY DEF Init
<1>2. SelectLastInSeq(<<>>, IsResolution) = 0
  <2>1. {i \in 1..Len(<<>>) : IsResolution(<<>>[i])} = {}
    OBVIOUS
  <2> QED
    BY <2>1 DEF SelectLastInSeq
<1>3. Window(<<>>) = <<>>
  <2>1. Window(<<>>) = SubSeq(<<>>, 1, 0)
    BY <1>2 DEF Window
  <2> QED
    BY <2>1
<1> QED
  BY <1>1, <1>3, CountNone DEF CapsCountAlong, TaskUserTurns, SessionUserTurns

\* The caps, derived anew from all turns of a thread, are what a reader counting along
\* arrives at who starts over at every successful tool result, for every order in which
\* the turns come.
THEOREM CapsAgree == Spec => []CapsCountAlong
<1>1. Log /\ CapsCountAlong /\ [Next]_vars => CapsCountAlong'
  BY CapsStep
<1> QED
  BY <1>1, CapsInit, LogAlways, PTL DEF Spec

-----------------------------------------------------------------------------
(* Consent, as a reader counting along judges it.                          *)

LEMMA LastUserTextPlace ==
  ASSUME NEW s \in Seq(Turn)
  PROVE  /\ LastUserText(s) = IF Places(s, UserTexts) # {} THEN Max(Places(s, UserTexts)) ELSE 0
         /\ LastUserText(s) \in 0..Len(s)
         /\ LastUserText(s) # 0 => IsUserText(s[LastUserText(s)])
<1>1. Len(s) \in Nat /\ DOMAIN s = 1..Len(s) /\ \A k \in 1..Len(s) : s[k] \in Turn
  BY LenProperties, ElementOfSeq
<1>2. PICK J : J = Places(s, UserTexts)
  OBVIOUS
<1>3. J = {k \in 1..Len(s) : IsUserText(s[k])}
  BY <1>1, <1>2 DEF Places, UserTexts
<1>4. LastUserText(s) = IF J # {} THEN Max(J) ELSE 0
  BY <1>3 DEF LastUserText, SelectLastInSeq
<1>5. CASE J = {}
  BY <1>1, <1>2, <1>4, <1>5
<1>6. CASE J # {}
  <2>1. J \subseteq 1..Len(s)
    BY <1>3
  <2>2. PICK m \in J : m = Max(J)
    BY <1>1, <1>6, <2>1, LargestIs
  <2>3. LastUserText(s) = m
    BY <1>4, <1>6, <2>2
  <2>4. m \in 0..Len(s) /\ IsUserText(s[m])
    BY <1>1, <1>3, <2>1
  <2> QED
    BY <1>2, <1>4, <2>3, <2>4
<1> QED
  BY <1>5, <1>6

LEMMA PreviousUserTextPlace ==
  ASSUME NEW s \in Seq(Turn)
  PROVE  PreviousUserText(s) \in 0..Len(s)
<1>1. PICK u \in 0..Len(s) : u = LastUserText(s)
  BY LastUserTextPlace
<1>2. PICK J : J = {i \in 1..u - 1 : IsUserText(s[i])}
  OBVIOUS
<1>3. PreviousUserText(s) = IF J # {} THEN Max(J) ELSE 0
  BY <1>1, <1>2 DEF PreviousUserText, SelectLastInSubSeq
<1>4. Len(s) \in Nat
  BY LenProperties
<1>5. CASE J = {}
  BY <1>3, <1>4, <1>5
<1>6. CASE J # {}
  <2>1. J \subseteq 1..Len(s)
    BY <1>2, <1>4
  <2>2. PICK m \in J : m = Max(J)
    BY <1>4, <1>6, <2>1, LargestIs
  <2> QED
    BY <1>3, <1>4, <1>6, <2>1, <2>2
<1> QED
  BY <1>5, <1>6

LEMMA UserTextsGrow ==
  ASSUME NEW s \in Seq(Turn), NEW t \in Turn
  PROVE  /\ LastUserText(Append(s, t)) = IF IsUserText(t) THEN Len(s) + 1 ELSE LastUserText(s)
         /\ PreviousUserText(Append(s, t)) = IF IsUserText(t) THEN LastUserText(s) ELSE PreviousUserText(s)
<1>1. PICK n \in Nat, x \in Seq(Turn) : n = Len(s) /\ x = Append(s, t)
  BY AppendIs
<1>2. /\ Len(s) = n /\ Len(x) = n + 1 /\ x[n + 1] = t /\ \A k \in 1..n : x[k] = s[k]
  BY <1>1, AppendIs
<1>3. PICK J, K : J = Places(s, UserTexts) /\ K = Places(x, UserTexts)
  OBVIOUS
<1>4. /\ LastUserText(s) = IF J # {} THEN Max(J) ELSE 0
      /\ LastUserText(x) = IF K # {} THEN Max(K) ELSE 0
  BY <1>3, LastUserTextPlace
<1>5. (t \notin UserTexts => K = J) /\ (t \in UserTexts => K # {} /\ Max(K) = n + 1)
  <2>1. J = Places(s, UserTexts) /\ K = Places(Append(s, t), UserTexts)
    BY <1>1, <1>3
  <2>2. (t \notin UserTexts => K = J) /\ (t \in UserTexts => K # {} /\ Max(K) = Len(s) + 1)
    BY <2>1, LargestGrows
  <2> QED
    BY <1>1, <2>2
<1>6. t \in UserTexts <=> IsUserText(t)
  BY DEF UserTexts
<1>7. PICK u \in 0..n : u = LastUserText(s)
  BY <1>1, LastUserTextPlace
<1>8. CASE IsUserText(t)
  <2>1. LastUserText(x) = n + 1
    BY <1>4, <1>5, <1>6, <1>8
  <2>2. J = {i \in 1..n : IsUserText(x[i])}
    <3>1. \A k \in 1..n : s[k] \in Turn
      BY <1>1, ElementOfSeq
    <3>2. DOMAIN s = 1..n
      BY <1>1, LenProperties
    <3> QED
      BY <1>2, <1>3, <3>1, <3>2 DEF Places, UserTexts
  <2>3. PreviousUserText(x) = IF J # {} THEN Max(J) ELSE 0
    <3>1. n + 1 - 1 = n
      OBVIOUS
    <3>2. PreviousUserText(x) = SelectLastInSubSeq(x, 1, n, IsUserText)
      BY <2>1, <3>1 DEF PreviousUserText
    <3> QED
      BY <2>2, <3>2 DEF SelectLastInSubSeq
  <2>4. PreviousUserText(x) = u
    BY <1>4, <1>7, <2>3
  <2> QED
    BY <1>1, <1>7, <1>8, <2>1, <2>4
<1>9. CASE ~ IsUserText(t)
  <2>1. LastUserText(x) = u
    BY <1>4, <1>5, <1>6, <1>7, <1>9
  <2>2. {i \in 1..u - 1 : IsUserText(x[i])} = {i \in 1..u - 1 : IsUserText(s[i])}
    BY <1>2
  <2>3. PreviousUserText(x) = PreviousUserText(s)
    BY <1>7, <2>1, <2>2 DEF PreviousUserText, SelectLastInSubSeq
  <2> QED
    BY <1>1, <1>7, <1>9, <2>1, <2>3
<1> QED
  BY <1>8, <1>9

\* What the reader knows of transcript s: what its newest user text says, and where offers stand.
Knows(s, says, before, since) ==
  LET u == LastUserText(s) IN
  /\ says = IF u = 0 THEN "none" ELSE s[u].says
  /\ before <=> u # 0 /\ \E k \in PreviousUserText(s) + 1..u - 1 : IsOffer(s[k])
  /\ since <=> \E k \in u + 1..Len(s) : IsOffer(s[k])

Consent ==
  /\ offers \in [before : BOOLEAN, since : BOOLEAN]
  /\ Knows(turns, latest, offers.before, offers.since)

LEMMA KnowsUserText ==
  ASSUME NEW s \in Seq(Turn), NEW t \in Turn, IsUserText(t),
         NEW says, NEW before, NEW since, Knows(s, says, before, since)
  PROVE  Knows(Append(s, t), t.says, since, FALSE)
<1>1. PICK n \in Nat, x \in Seq(Turn) : n = Len(s) /\ x = Append(s, t)
  BY AppendIs
<1>2. /\ Len(s) = n /\ Len(x) = n + 1 /\ x[n + 1] = t /\ \A k \in 1..n : x[k] = s[k]
  BY <1>1, AppendIs
<1>3. PICK u \in 0..n : u = LastUserText(s)
  BY <1>1, LastUserTextPlace
<1>4. LastUserText(x) = n + 1 /\ PreviousUserText(x) = u
  BY <1>1, <1>3, UserTextsGrow
<1>5. since <=> \E k \in u + 1..n + 1 - 1 : IsOffer(x[k])
  BY <1>2, <1>3 DEF Knows
<1>6. ~ \E k \in n + 1 + 1..n + 1 : IsOffer(x[k])
  OBVIOUS
<1>7. n + 1 # 0
  OBVIOUS
<1> QED
  BY <1>1, <1>2, <1>4, <1>5, <1>6, <1>7 DEF Knows

LEMMA KnowsOther ==
  ASSUME NEW s \in Seq(Turn), NEW t \in Turn, ~ IsUserText(t),
         NEW says, NEW before, NEW since, Knows(s, says, before, since),
         NEW after, after = (since \/ IsOffer(t))
  PROVE  Knows(Append(s, t), says, before, after)
<1>1. PICK n \in Nat, x \in Seq(Turn) : n = Len(s) /\ x = Append(s, t)
  BY AppendIs
<1>2. /\ Len(s) = n /\ Len(x) = n + 1 /\ x[n + 1] = t /\ \A k \in 1..n : x[k] = s[k]
  BY <1>1, AppendIs
<1>3. PICK u \in 0..n, p \in 0..n : u = LastUserText(s) /\ p = PreviousUserText(s)
  BY <1>1, LastUserTextPlace, PreviousUserTextPlace
<1>4. LastUserText(x) = u /\ PreviousUserText(x) = p
  BY <1>1, <1>3, UserTextsGrow
<1>5. says = IF u = 0 THEN "none" ELSE x[u].says
  BY <1>2, <1>3 DEF Knows
<1>6. before <=> u # 0 /\ \E k \in p + 1..u - 1 : IsOffer(x[k])
  <2>1. before <=> u # 0 /\ \E k \in p + 1..u - 1 : IsOffer(s[k])
    BY <1>3 DEF Knows
  <2>2. \A k \in p + 1..u - 1 : x[k] = s[k]
    BY <1>2
  <2> QED
    BY <2>1, <2>2
<1>7. after <=> \E k \in u + 1..n + 1 : IsOffer(x[k])
  <2>1. since <=> \E k \in u + 1..n : IsOffer(s[k])
    BY <1>2, <1>3 DEF Knows
  <2>2. \A k \in u + 1..n : x[k] = s[k]
    BY <1>2
  <2>3. \A k \in Int : k \in u + 1..n + 1 <=> k \in u + 1..n \/ k = n + 1
    OBVIOUS
  <2>4. (\E k \in u + 1..n + 1 : IsOffer(x[k])) <=> (\E k \in u + 1..n : IsOffer(x[k])) \/ IsOffer(x[n + 1])
    BY <2>3
  <2> QED
    BY <1>2, <2>1, <2>2, <2>4
<1> QED
  BY <1>1, <1>2, <1>4, <1>5, <1>6, <1>7, SMTT(60), ZenonT(60) DEF Knows

LEMMA KnowsWhoAsks ==
  ASSUME NEW s \in Seq(Turn), NEW says, NEW before, NEW since, Knows(s, says, before, since)
  PROVE  UserInitiated(s) <=> (says = "escalate" \/ (says = "agree" /\ before))
  BY DEF UserInitiated, Knows

\* A turn that is not the user's keeps what the reader knows, but for an offer.
LEMMA ConsentKept ==
  ASSUME Log, Consent, NEW t, Brings(t), ~ IsUserText(t), latest' = latest,
         offers' = [offers EXCEPT !.since = @ \/ IsOffer(t)]
  PROVE  Consent'
<1>1. PICK s \in Seq(Turn), u \in Turn, x \in Seq(Turn) :
        s = turns /\ u = t /\ x = Append(s, u) /\ x = turns'
  BY AppendIs DEF Log, Brings
<1>2. PICK says, before, since : says = latest /\ before = offers.before /\ since = offers.since
  OBVIOUS
<1>3. offers' \in [before : BOOLEAN, since : BOOLEAN] /\ offers'.before = offers.before
      /\ offers'.since = (offers.since \/ IsOffer(t))
  BY DEF Consent
<1>4. Knows(s, says, before, since)
  BY <1>1, <1>2 DEF Consent
<1>5. PICK after : after = (since \/ IsOffer(u))
  OBVIOUS
<1>6. Knows(x, says, before, after)
  <2>1. ~ IsUserText(u)
    BY <1>1
  <2>2. Knows(Append(s, u), says, before, after)
    BY <1>4, <1>5, <2>1, KnowsOther
  <2> QED
    BY <1>1, <2>2
<1>7. Knows(turns', latest', offers'.before, offers'.since)
  BY <1>1, <1>2, <1>3, <1>5, <1>6
<1> QED
  BY <1>3, <1>7 DEF Consent, Knows

LEMMA ConsentStep == Log /\ Consent /\ [Next]_vars => Consent'
<1> SUFFICES ASSUME Log, Consent, [Next]_vars PROVE Consent'
  OBVIOUS
<1>1. CASE AppendUserText
  <2>1. PICK says \in UserSays :
          /\ Grow(UserText(NextSeq(turns), says)) /\ latest' = says
          /\ offers' = [before |-> offers.since, since |-> FALSE]
    BY <1>1 DEF AppendUserText
  <2>2. PICK t : Brings(t) /\ t.kind = "user_text" /\ t.says = says
    BY <2>1, UserTextBrings
  <2>3. PICK s \in Seq(Turn), u \in Turn, x \in Seq(Turn) :
          s = turns /\ u = t /\ x = Append(s, u) /\ x = turns'
    BY <2>2, AppendIs DEF Log, Brings
  <2>4. PICK old, before, since : old = latest /\ before = offers.before /\ since = offers.since
    OBVIOUS
  <2>5. Knows(s, old, before, since)
    BY <2>3, <2>4 DEF Consent
  <2>6. Knows(x, u.says, since, FALSE)
    <3>1. IsUserText(u)
      BY <2>2, <2>3 DEF IsUserText
    <3>2. Knows(Append(s, u), u.says, since, FALSE)
      BY <2>5, <3>1, KnowsUserText
    <3> QED
      BY <2>3, <3>2
  <2>7. offers' \in [before : BOOLEAN, since : BOOLEAN] /\ offers'.before = offers.since
        /\ offers'.since = FALSE
    BY <2>1 DEF Consent
  <2>8. Knows(turns', latest', offers'.before, offers'.since)
    BY <2>1, <2>2, <2>3, <2>4, <2>6, <2>7
  <2> QED
    BY <2>7, <2>8 DEF Consent, Knows
<1>2. CASE AppendReply
  <2>1. PICK says \in ReplySays :
          /\ Grow(Assistant(NextSeq(turns), TRUE, <<>>, says))
          /\ offers' = [offers EXCEPT !.since = @ \/ says = "offer"]
    BY <1>2 DEF AppendReply
  <2>2. PICK t : Brings(t) /\ t.kind = "assistant_text" /\ t.says = says
    BY <2>1, ReplyBrings
  <2>3. ~ IsUserText(t) /\ IsOffer(t) = (says = "offer")
    BY <2>2 DEF IsUserText, IsOffer
  <2>4. latest' = latest
    BY <1>2 DEF AppendReply
  <2> QED
    BY <2>1, <2>2, <2>3, <2>4, ConsentKept
<1>3. CASE AppendToolUse
  <2>1. PICK tools \in {<<"search">>, <<"card", "ticket">>} :
          Grow(Assistant(NextSeq(turns), FALSE, tools, "plain"))
    BY <1>3 DEF AppendToolUse
  <2>2. PICK t : Brings(t) /\ t.kind = "assistant_tool_use"
    BY <2>1, ToolUseBrings
  <2>3. ~ IsUserText(t) /\ IsOffer(t) = FALSE
    BY <2>2 DEF IsUserText, IsOffer
  <2>4. latest' = latest /\ offers' = offers
    BY <1>3 DEF AppendToolUse
  <2>5. offers' = [offers EXCEPT !.since = @ \/ IsOffer(t)]
    BY <2>3, <2>4 DEF Consent
  <2> QED
    BY <2>2, <2>3, <2>4, <2>5, ConsentKept, ZenonT(60)
<1>4. CASE AppendResult
  <2>1. PICK u \in unanswered, err \in BOOLEAN :
          Grow(ToolResult(NextSeq(turns), <<u[1], u[2]>>, u[3], err))
    BY <1>4 DEF AppendResult
  <2>2. PICK t : Brings(t) /\ t.kind = "tool_result"
    BY <2>1, ResultBrings
  <2>3. ~ IsUserText(t) /\ IsOffer(t) = FALSE
    BY <2>2 DEF IsUserText, IsOffer
  <2>4. latest' = latest /\ offers' = offers
    BY <1>4 DEF AppendResult
  <2>5. offers' = [offers EXCEPT !.since = @ \/ IsOffer(t)]
    BY <2>3, <2>4 DEF Consent
  <2> QED
    BY <2>2, <2>3, <2>4, <2>5, ConsentKept, ZenonT(60)
<1>5. CASE AppendFlowEvent
  <2>1. PICK t : Brings(t) /\ t.kind = "flow_event"
    BY <1>5, FlowEventBrings
  <2>2. ~ IsUserText(t) /\ IsOffer(t) = FALSE
    BY <2>1 DEF IsUserText, IsOffer
  <2>3. latest' = latest /\ offers' = offers
    BY <1>5 DEF AppendFlowEvent
  <2>4. offers' = [offers EXCEPT !.since = @ \/ IsOffer(t)]
    BY <2>2, <2>3 DEF Consent
  <2> QED
    BY <2>1, <2>2, <2>3, <2>4, ConsentKept, ZenonT(60)
<1>6. CASE UNCHANGED vars
  BY <1>6 DEF vars, Consent, Knows
<1> QED
  BY <1>1, <1>2, <1>3, <1>4, <1>5, <1>6 DEF Next

LEMMA ConsentInit == Init => Consent
<1> SUFFICES ASSUME Init PROVE Consent
  OBVIOUS
<1>1. turns = <<>> /\ latest = "none" /\ offers = [before |-> FALSE, since |-> FALSE]
  BY DEF Init
<1>2. <<>> \in Seq(Turn) /\ Len(<<>>) = 0
  BY EmptySeq
<1>3. LastUserText(<<>>) = 0
  <2>1. PICK s \in Seq(Turn) : s = <<>> /\ Len(s) = 0
    BY <1>2
  <2>2. LastUserText(s) \in 0..0
    BY <2>1, LastUserTextPlace
  <2> QED
    BY <2>1, <2>2
<1> QED
  BY <1>1, <1>2, <1>3 DEF Consent, Knows

\* A ticket may be raised exactly when the newest user text asks for one, or agrees while an
\* offer stands that was made since the user text before it, for every order in which the
\* turns come.
THEOREM ConsentAgrees == Spec => []ConsentIsFresh
<1>1. Log /\ Consent => ConsentIsFresh
  <2> SUFFICES ASSUME Log, Consent PROVE ConsentIsFresh
    OBVIOUS
  <2>1. PICK s \in Seq(Turn) : s = turns
    BY DEF Log
  <2>2. PICK says, before, since :
          says = latest /\ before = offers.before /\ since = offers.since
    OBVIOUS
  <2>3. Knows(s, says, before, since)
    BY <2>1, <2>2 DEF Consent
  <2> QED
    BY <2>1, <2>2, <2>3, KnowsWhoAsks DEF ConsentIsFresh
<1>2. Log /\ Consent /\ [Next]_vars => Consent'
  BY ConsentStep
<1> QED
  BY <1>1, <1>2, ConsentInit, LogAlways, PTL DEF Spec

-----------------------------------------------------------------------------
(* The merge of turns into messages.                                       *)

\* A list of contents with one more at its end.
Lengthened(f, g, z) ==
  /\ z \in Pieces /\ Len(z) = Len(f) + 1 /\ z[Len(f) + 1] = g
  /\ \A k \in 1..Len(f) : z[k] = f[k]

LEMMA PieceAppended ==
  ASSUME NEW f \in Pieces, NEW g \in Seq(Block)
  PROVE  Lengthened(f, g, Append(f, g))
BY AppendProperties, SMTT(60) DEF Pieces, Lengthened

\* The blocks of a turn come on top of those that are there.
LEMMA BlocksAdded ==
  ASSUME NEW ms \in Seq(Message), NEW t \in Turn, NEW next, next = Extend(t)[ms]
  PROVE  Len(FlattenSeq(Contents(next))) = Len(FlattenSeq(Contents(ms))) + Len(t.content)
<1>1. next \in Seq(Message) /\ (JoinedTo(ms, t, next) \/ StartedBy(ms, t, next))
  BY ExtendIs
<1>2. PICK n \in Nat, c \in Seq(Block) : n = Len(ms) /\ c = t.content
  BY LenProperties DEF Turn
<1>3. PICK x \in Pieces, y \in Pieces : x = Contents(ms) /\ y = Contents(next)
  BY <1>1, ContentsIs
<1>4. /\ Len(x) = n /\ \A k \in 1..n : x[k] = ms[k].content
      /\ Len(y) = Len(next) /\ \A k \in 1..Len(next) : y[k] = next[k].content
  BY <1>1, <1>2, <1>3, ContentsIs
<1>5. CASE StartedBy(ms, t, next)
  <2>1. Len(y) = n + 1 /\ y[n + 1] = c /\ \A k \in 1..n : y[k] = x[k]
    BY <1>2, <1>4, <1>5 DEF StartedBy
  <2>2. Append(x, c) \in Pieces /\ Len(Append(x, c)) = n + 1 /\ Append(x, c)[n + 1] = c
        /\ \A k \in 1..n : Append(x, c)[k] = x[k]
    <3>1. /\ Append(x, c) \in Seq(Seq(Block)) /\ Len(Append(x, c)) = Len(x) + 1
          /\ Append(x, c)[Len(x) + 1] = c /\ \A k \in 1..Len(x) : Append(x, c)[k] = x[k]
      BY AppendProperties DEF Pieces
    <3> QED
      BY <1>4, <3>1 DEF Pieces
  <2>3. y = Append(x, c)
    <3>1. \A k \in 1..n + 1 : y[k] = Append(x, c)[k]
      BY <2>1, <2>2
    <3> QED
      BY <2>1, <2>2, <3>1, SeqEqual DEF Pieces
  <2>4. FlattenSeq(x) \in Seq(Block) /\ FlattenSeq(y) = FlattenSeq(x) \o c
    BY <2>3, FlattenAppend
  <2> QED
    BY <1>2, <1>3, <2>4, ConcatProperties
<1>6. CASE JoinedTo(ms, t, next)
  <2>1. PICK m \in Nat : n = m + 1
    <3>1. n - 1 \in Nat /\ n = (n - 1) + 1
      BY <1>2, <1>6 DEF JoinedTo
    <3> QED
      BY <3>1
  <2>2. PICK f : f = [k \in 1..m |-> x[k]]
    OBVIOUS
  <2>3. \A k \in 1..n : x[k] \in Seq(Block)
    BY <1>2, <1>4, ContentsIs
  <2>4. f \in Pieces /\ Len(f) = m /\ \A k \in 1..m : f[k] = x[k]
    <3>1. f \in Pieces
      BY <2>1, <2>2, <2>3, IsASeq DEF Pieces
    <3> QED
      BY <2>1, <2>2, <3>1, LenProperties DEF Pieces
  <2>5. PICK d \in Seq(Block), e \in Seq(Block) : d = x[m + 1] /\ e = ResultsFirst[d \o c]
    <3>1. PICK d \in Seq(Block) : d = x[m + 1]
      BY <2>1, <2>3
    <3>2. PICK dc \in Seq(Block) : dc = d \o c
      BY ConcatProperties
    <3>3. ResultsFirst[dc] \in Seq(Block)
      BY ResultsFirstKeeps
    <3> QED
      BY <3>1, <3>2, <3>3
  <2>6. Len(e) = Len(d) + Len(c) /\ Len(d) \in Nat /\ Len(c) \in Nat
    <3>1. PICK dc \in Seq(Block) : dc = d \o c /\ Len(dc) = Len(d) + Len(c)
      BY ConcatProperties
    <3>2. Len(ResultsFirst[dc]) = Len(dc)
      BY ResultsFirstLen
    <3>3. Len(d) \in Nat /\ Len(c) \in Nat
      BY LenProperties
    <3> QED
      BY <2>5, <3>1, <3>2, <3>3
  <2>7. Len(y) = m + 1 /\ y[m + 1] = e /\ \A k \in 1..m : y[k] = f[k]
    <3>1. n - 1 = m /\ n \in 1..n /\ \A k \in 1..m : k \in 1..n
      BY <2>1
    <3>2. Len(next) = n /\ next[n].content = ResultsFirst[ms[n].content \o c] /\ \A k \in 1..m : next[k] = ms[k]
      BY <1>2, <1>6, <3>1 DEF JoinedTo
    <3>3. Len(y) = n /\ y[n] = next[n].content /\ \A k \in 1..m : y[k] = next[k].content
      BY <1>4, <3>1, <3>2
    <3>4. ms[n].content = d
      BY <1>4, <2>1, <2>5, <3>1
    <3>5. y[n] = e
      BY <2>5, <3>2, <3>3, <3>4
    <3>6. \A k \in 1..m : y[k] = f[k]
      <4> SUFFICES ASSUME NEW k \in 1..m PROVE y[k] = f[k]
        OBVIOUS
      <4>1. y[k] = ms[k].content /\ k \in 1..n
        BY <3>1, <3>2, <3>3
      <4> QED
        BY <1>4, <2>4, <4>1
    <3> QED
      BY <2>1, <3>3, <3>5, <3>6, Zenon
  <2>8. ASSUME NEW z \in Pieces, NEW g \in Seq(Block), Len(z) = m + 1, z[m + 1] = g,
               \A k \in 1..m : z[k] = f[k]
        PROVE  FlattenSeq(z) = FlattenSeq(f) \o g
    <3>1. Append(f, g) \in Pieces /\ Len(Append(f, g)) = m + 1 /\ Append(f, g)[m + 1] = g
          /\ \A k \in 1..m : Append(f, g)[k] = f[k]
      <4>1. Lengthened(f, g, Append(f, g))
        BY <2>4, PieceAppended, Zenon
      <4> QED
        BY <2>4, <4>1 DEF Lengthened
    <3>2. \A k \in 1..m + 1 : z[k] = Append(f, g)[k]
      BY <2>1, <2>8, <3>1
    <3>3. z = Append(f, g)
      BY <2>8, <3>1, <3>2, SeqEqual, SMTT(60) DEF Pieces
    <3> QED
      BY <2>4, <3>3, FlattenAppend
  <2>9. FlattenSeq(x) = FlattenSeq(f) \o d /\ FlattenSeq(y) = FlattenSeq(f) \o e
    <3>1. Len(x) = m + 1 /\ x[m + 1] = d /\ \A k \in 1..m : x[k] = f[k]
      BY <1>4, <2>1, <2>4, <2>5
    <3>2. FlattenSeq(x) = FlattenSeq(f) \o d
      BY <2>8, <3>1
    <3>3. FlattenSeq(y) = FlattenSeq(f) \o e
      BY <2>7, <2>8
    <3> QED
      BY <3>2, <3>3
  <2>10. FlattenSeq(f) \in Seq(Block)
    BY <2>4, FlattenAppend, EmptySeq
  <2>11. /\ Len(FlattenSeq(f)) \in Nat
         /\ Len(FlattenSeq(x)) = Len(FlattenSeq(f)) + Len(d)
         /\ Len(FlattenSeq(y)) = Len(FlattenSeq(f)) + Len(e)
    BY <2>9, <2>10, ConcatProperties, LenProperties
  <2>12. Len(FlattenSeq(y)) = Len(FlattenSeq(x)) + Len(c)
    BY <2>6, <2>11
  <2> QED
    BY <1>2, <1>3, <2>12
<1> QED
  BY <1>1, <1>5, <1>6

\* The same count, taken over the turns.
LEMMA TurnContentsIs ==
  ASSUME NEW s \in Seq(Turn)
  PROVE  /\ Contents(s) \in Pieces /\ Len(Contents(s)) = Len(s)
         /\ \A k \in 1..Len(s) : Contents(s)[k] = s[k].content
<1>1. Len(s) \in Nat /\ DOMAIN s = 1..Len(s) /\ \A k \in 1..Len(s) : s[k] \in Turn
  BY LenProperties, ElementOfSeq
<1>2. \A k \in 1..Len(s) : s[k].content \in Seq(Block)
  BY <1>1 DEF Turn
<1>3. Contents(s) = [k \in 1..Len(s) |-> s[k].content]
  BY <1>1 DEF Contents
<1>4. Contents(s) \in Pieces
  BY <1>1, <1>2, <1>3, IsASeq DEF Pieces
<1>5. Len(Contents(s)) = Len(s)
  BY <1>1, <1>3, <1>4, LenProperties DEF Pieces
<1> QED
  BY <1>1, <1>3, <1>4, <1>5

LEMMA TurnBlocksAdded ==
  ASSUME NEW s \in Seq(Turn), NEW t \in Turn, NEW next, next = Append(s, t)
  PROVE  Len(FlattenSeq(Contents(next))) = Len(FlattenSeq(Contents(s))) + Len(t.content)
<1>1. PICK n \in Nat, c \in Seq(Block) : n = Len(s) /\ c = t.content
  BY LenProperties DEF Turn
<1>2. /\ next \in Seq(Turn) /\ Len(next) = n + 1 /\ next[n + 1] = t
      /\ \A k \in 1..n : next[k] = s[k]
  BY <1>1, AppendIs
<1>3. PICK x \in Pieces, y \in Pieces : x = Contents(s) /\ y = Contents(next)
  BY <1>2, TurnContentsIs
<1>4. /\ Len(x) = n /\ \A k \in 1..n : x[k] = s[k].content
      /\ Len(y) = n + 1 /\ \A k \in 1..n + 1 : y[k] = next[k].content
  BY <1>1, <1>2, <1>3, TurnContentsIs
<1>5. y = Append(x, c)
  <2>1. /\ Append(x, c) \in Seq(Seq(Block)) /\ Len(Append(x, c)) = Len(x) + 1
        /\ Append(x, c)[Len(x) + 1] = c /\ \A k \in 1..Len(x) : Append(x, c)[k] = x[k]
    BY AppendProperties DEF Pieces
  <2>2. y[n + 1] = c /\ \A k \in 1..n : y[k] = x[k]
    BY <1>1, <1>2, <1>4, SMTT(60)
  <2>3. \A k \in 1..n + 1 : y[k] = Append(x, c)[k]
    <3>1. Len(x) = n /\ \A k \in 1..n + 1 : k \in 1..n \/ k = n + 1
      BY <1>4, <2>1
    <3> QED
      BY <2>1, <2>2, <3>1, Zenon
  <2> QED
    BY <1>4, <2>1, <2>3, SeqEqual DEF Pieces
<1>6. FlattenSeq(x) \in Seq(Block) /\ FlattenSeq(y) = FlattenSeq(x) \o c
  BY <1>5, FlattenAppend
<1> QED
  BY <1>1, <1>3, <1>6, ConcatProperties

\* Who holds a block after a turn was merged in.
LEMMA Holders ==
  ASSUME NEW ms \in Seq(Message), NEW t \in Turn, NEW next, next = Extend(t)[ms]
  PROVE  /\ Len(ms) \in Nat /\ Len(next) \in 1..Len(ms) + 1 /\ Len(ms) <= Len(next)
         /\ \A b : \A n \in 1..Len(next) :
              Holds(next[n], b) <=> \/ n <= Len(ms) /\ Holds(ms[n], b)
                                    \/ n = Len(next) /\ Holds(t, b)
<1>1. next \in Seq(Message) /\ (JoinedTo(ms, t, next) \/ StartedBy(ms, t, next))
  BY ExtendIs
<1>2. PICK m \in Nat : m = Len(ms)
  BY LenProperties
<1>3. CASE StartedBy(ms, t, next)
  <2>1. Len(next) = m + 1 /\ next[m + 1].content = t.content /\ \A k \in 1..m : next[k] = ms[k]
    BY <1>2, <1>3 DEF StartedBy
  <2>2. \A b : Holds(next[m + 1], b) <=> Holds(t, b)
    BY <2>1 DEF Holds
  <2> QED
    BY <1>2, <2>1, <2>2
<1>4. CASE JoinedTo(ms, t, next)
  <2>1. m > 0 /\ Len(next) = m /\ \A k \in 1..m - 1 : next[k] = ms[k]
    BY <1>2, <1>4 DEF JoinedTo
  <2>2. PICK d \in Seq(Block), c \in Seq(Block) : d = ms[m].content /\ c = t.content
    BY <1>2, <2>1, ContentsIs DEF Turn
  <2>3. PICK e \in Seq(Block) : e = d \o c
    BY ConcatProperties
  <2>4. next[m].content = ResultsFirst[e]
    BY <1>2, <1>4, <2>2, <2>3 DEF JoinedTo
  <2>5. \A b : Holds(next[m], b) <=> \E k \in 1..Len(e) : e[k] = b
    <3>1. PICK r \in Seq(Block) : r = ResultsFirst[e]
      BY ResultsFirstKeeps
    <3>2. /\ \A i \in 1..Len(r) : \E k \in 1..Len(e) : r[i] = e[k]
          /\ \A k \in 1..Len(e) : \E i \in 1..Len(r) : r[i] = e[k]
      BY <3>1, ResultsFirstKeeps, ZenonT(60)
    <3>3. DOMAIN next[m].content = 1..Len(r) /\ next[m].content = r
      BY <2>4, <3>1, LenProperties
    <3>4. \A b : Holds(next[m], b) <=> \E k \in 1..Len(r) : r[k] = b
      BY <3>3 DEF Holds
    <3>5. ASSUME NEW b
          PROVE  (\E k \in 1..Len(r) : r[k] = b) <=> \E k \in 1..Len(e) : e[k] = b
      <4>1. ASSUME NEW i \in 1..Len(r), r[i] = b
            PROVE  \E k \in 1..Len(e) : e[k] = b
        BY <3>2, <4>1
      <4>2. ASSUME NEW k \in 1..Len(e), e[k] = b
            PROVE  \E i \in 1..Len(r) : r[i] = b
        BY <3>2, <4>2
      <4> QED
        BY <4>1, <4>2
    <3> QED
      BY <3>4, <3>5
  <2>6. \A b : (\E k \in 1..Len(e) : e[k] = b) <=> Holds(ms[m], b) \/ Holds(t, b)
    <3>1. /\ Len(d) \in Nat /\ Len(c) \in Nat /\ Len(e) = Len(d) + Len(c)
          /\ DOMAIN d = 1..Len(d) /\ DOMAIN c = 1..Len(c)
          /\ \A k \in 1..Len(d) + Len(c) : e[k] = IF k <= Len(d) THEN d[k] ELSE c[k - Len(d)]
      BY <2>3, ConcatProperties, LenProperties
    <3>2. \A k \in 1..Len(e) : \/ k \in 1..Len(d) /\ e[k] = d[k]
                               \/ k - Len(d) \in 1..Len(c) /\ e[k] = c[k - Len(d)]
      BY <3>1
    <3>3. \A k \in 1..Len(d) : k \in 1..Len(e) /\ e[k] = d[k]
      BY <3>1
    <3>4. \A k \in 1..Len(c) : k + Len(d) \in 1..Len(e) /\ e[k + Len(d)] = c[k]
      BY <3>1, SMTT(60)
    <3>5. \A b : Holds(ms[m], b) <=> \E k \in 1..Len(d) : d[k] = b
      BY <2>2, <3>1 DEF Holds
    <3>6. \A b : Holds(t, b) <=> \E k \in 1..Len(c) : c[k] = b
      BY <2>2, <3>1 DEF Holds
    <3>7. \A b : (\E k \in 1..Len(e) : e[k] = b) => Holds(ms[m], b) \/ Holds(t, b)
      BY <3>2, <3>5, <3>6, SMTT(60), ZenonT(60)
    <3>8. \A b : Holds(ms[m], b) => \E k \in 1..Len(e) : e[k] = b
      BY <3>3, <3>5
    <3>9. \A b : Holds(t, b) => \E k \in 1..Len(e) : e[k] = b
      BY <3>1, <3>4, <3>6, SMTT(60), ZenonT(60)
    <3> QED
      BY <3>7, <3>8, <3>9
  <2>7. \A n \in 1..m : n \in 1..m - 1 \/ n = m
    OBVIOUS
  <2>8. ASSUME NEW b, NEW n \in 1..m
        PROVE  Holds(next[n], b) <=> Holds(ms[n], b) \/ (n = m /\ Holds(t, b))
    <3>1. CASE n \in 1..m - 1
      <4>1. next[n] = ms[n] /\ n # m
        BY <2>1, <3>1
      <4> QED
        BY <4>1
    <3>2. CASE n = m
      BY <2>5, <2>6, <3>2
    <3> QED
      BY <2>7, <3>1, <3>2
  <2>9. \A b : \A n \in 1..m : Holds(next[n], b) <=> Holds(ms[n], b) \/ (n = m /\ Holds(t, b))
    BY <2>8
  <2>10. \A n \in 1..m : n <= m
    OBVIOUS
  <2>11. \A b : \A n \in 1..Len(next) : Holds(next[n], b) <=> \/ n <= Len(ms) /\ Holds(ms[n], b)
                                                              \/ n = Len(next) /\ Holds(t, b)
    BY <1>2, <2>1, <2>9, <2>10
  <2> QED
    BY <1>2, <2>1, <2>11
<1> QED
  BY <1>1, <1>3, <1>4

Once(ms, b) == \E m \in 1..Len(ms) : \A n \in 1..Len(ms) : Holds(ms[n], b) <=> n = m
Nowhere(ms, b) == \A n \in 1..Len(ms) : ~ Holds(ms[n], b)

LEMMA OnceMerged ==
  ASSUME NEW ms \in Seq(Message), NEW t \in Turn, NEW next, next = Extend(t)[ms], NEW b
  PROVE  /\ Once(ms, b) /\ ~ Holds(t, b) => Once(next, b)
         /\ Nowhere(ms, b) /\ Holds(t, b) => Once(next, b)
<1>1. PICK m \in Nat, l \in Nat : m = Len(ms) /\ l = Len(next) /\ l \in 1..m + 1 /\ m <= l
  BY Holders
<1>2. \A n \in 1..l : Holds(next[n], b) <=> \/ n <= m /\ Holds(ms[n], b)
                                            \/ n = l /\ Holds(t, b)
  <2>1. \A n \in 1..Len(next) : Holds(next[n], b) <=> \/ n <= Len(ms) /\ Holds(ms[n], b)
                                                      \/ n = Len(next) /\ Holds(t, b)
    BY Holders, ZenonT(60)
  <2> QED
    BY <1>1, <2>1, ZenonT(60)
<1>3. ASSUME Once(ms, b), ~ Holds(t, b)
      PROVE  Once(next, b)
  <2>1. PICK i \in 1..m : \A n \in 1..m : Holds(ms[n], b) <=> n = i
    BY <1>1, <1>3 DEF Once
  <2>2. i \in 1..l /\ \A n \in 1..l : Holds(next[n], b) <=> n = i
    BY <1>1, <1>2, <1>3, <2>1
  <2> QED
    BY <1>1, <2>2 DEF Once
<1>4. ASSUME Nowhere(ms, b), Holds(t, b)
      PROVE  Once(next, b)
  <2>1. l \in 1..l /\ \A n \in 1..l : Holds(next[n], b) <=> n = l
    BY <1>1, <1>2, <1>4 DEF Nowhere
  <2> QED
    BY <1>1, <2>1 DEF Once
<1> QED
  BY <1>3, <1>4

\* Results lead every message, and a user message never follows a user message.
Alternates(ms) ==
  \A m \in 1..Len(ms) : /\ LeadsWithResults(ms[m].content)
                        /\ m > 1 /\ ms[m].role = "user" => ms[m - 1].role = "assistant"

LEMMA AlternatesOn ==
  ASSUME NEW ms \in Seq(Message), NEW t \in Turn, NEW next, next = Extend(t)[ms],
         Alternates(ms), LeadsWithResults(t.content)
  PROVE  Alternates(next)
<1>1. next \in Seq(Message) /\ (JoinedTo(ms, t, next) \/ StartedBy(ms, t, next))
  BY ExtendIs
<1>2. PICK m \in Nat : m = Len(ms)
  BY LenProperties
<1>3. \A k \in 1..m : ms[k].role \in {"user", "assistant"}
  BY <1>2, ContentsIs DEF Message
<1>4. CASE StartedBy(ms, t, next)
  <2>1. /\ Len(next) = m + 1 /\ next[m + 1].content = t.content /\ next[m + 1].role = Role(t)
        /\ \A k \in 1..m : next[k] = ms[k]
        /\ m > 0 => ~ (Role(t) = "user" /\ ms[m].role = "user")
    BY <1>2, <1>4 DEF StartedBy
  <2>2. ASSUME NEW k \in 1..m
        PROVE  /\ LeadsWithResults(next[k].content)
               /\ k > 1 /\ next[k].role = "user" => next[k - 1].role = "assistant"
    <3>1. next[k] = ms[k] /\ (k > 1 => next[k - 1] = ms[k - 1])
      BY <2>1
    <3> QED
      BY <1>2, <3>1 DEF Alternates
  <2>3. /\ LeadsWithResults(next[m + 1].content)
        /\ m + 1 > 1 /\ next[m + 1].role = "user" => next[m].role = "assistant"
    BY <1>3, <2>1
  <2>4. m + 1 - 1 = m /\ \A k \in 1..m + 1 : k \in 1..m \/ k = m + 1
    OBVIOUS
  <2> QED
    BY <2>1, <2>2, <2>3, <2>4 DEF Alternates
<1>5. CASE JoinedTo(ms, t, next)
  <2>1. m > 0 /\ Len(next) = m /\ next[m].role = ms[m].role /\ \A k \in 1..m - 1 : next[k] = ms[k]
    BY <1>2, <1>5 DEF JoinedTo
  <2>2. LeadsWithResults(next[m].content)
    <3>1. PICK d \in Seq(Block), c \in Seq(Block) : d = ms[m].content /\ c = t.content
      BY <1>2, <2>1, ContentsIs DEF Turn
    <3>2. PICK e \in Seq(Block) : e = d \o c
      BY ConcatProperties
    <3> QED
      BY <1>2, <1>5, <3>1, <3>2, ResultsFirstKeeps DEF JoinedTo
  <2>3. ASSUME NEW k \in 1..m
        PROVE  /\ LeadsWithResults(next[k].content)
               /\ k > 1 /\ next[k].role = "user" => next[k - 1].role = "assistant"
    <3>1. next[k].role = ms[k].role /\ (k > 1 => next[k - 1] = ms[k - 1]) /\ (k < m => next[k] = ms[k])
      BY <2>1
    <3> QED
      BY <1>2, <2>2, <3>1 DEF Alternates
  <2> QED
    BY <2>1, <2>3 DEF Alternates
<1> QED
  BY <1>1, <1>4, <1>5

\* A block among the first n turns: one that was said there, and no answer still due.
Heard(b, n, open) ==
  /\ b.id[1] \in 1..n
  /\ IsResult(b) => \A u \in open : b.id # <<u[1], u[2]>>

\* Every block of the turns is in one message, and the messages hold no other.
Told ==
  /\ \A u, v \in unanswered : u[1] = v[1] /\ u[2] = v[2] => u = v
  /\ \A j \in 1..Len(turns) : \A b : Holds(turns[j], b) => Once(Messages[turns], b)
  /\ \A n \in 1..Len(Messages[turns]) : \A b :
       Holds(Messages[turns][n], b) => Heard(b, Len(turns), unanswered)
  /\ Alternates(Messages[turns])
  /\ Len(FlattenSeq(Contents(Messages[turns]))) = Len(FlattenSeq(Contents(turns)))

\* A turn that says something new.
LEMMA ToldOn ==
  ASSUME Log, Told, NEW t, Brings(t), LeadsWithResults(t.content),
         \A u, v \in unanswered' : u[1] = v[1] /\ u[2] = v[2] => u = v,
         \A b : Holds(t, b) => ~ Heard(b, Len(turns), unanswered) /\ Heard(b, Len(turns) + 1, unanswered'),
         \A b : Heard(b, Len(turns), unanswered) => Heard(b, Len(turns) + 1, unanswered')
  PROVE  Told'
<1>1. PICK s \in Seq(Turn), v \in Turn, x \in Seq(Turn) :
        s = turns /\ v = t /\ x = Append(s, v) /\ x = turns'
  BY AppendIs DEF Log, Brings
<1>2. PICK ms \in Seq(Message) : ms = Messages[s]
  BY MessagesAppend
<1>3. PICK next \in Seq(Message) : next = Extend(v)[ms] /\ next = Messages[x]
  <2>1. Messages[x] = Extend(v)[Messages[s]]
    BY <1>1, MessagesAppend, ZenonT(60)
  <2> QED
    BY <1>2, <2>1, ExtendIs
<1>4. PICK m \in Nat, l \in Nat : m = Len(ms) /\ l = Len(next) /\ l \in 1..m + 1 /\ m <= l
  BY <1>3, Holders, ZenonT(60)
<1>5. PICK q \in Nat : q = Len(s) /\ Len(x) = q + 1 /\ x[q + 1] = v /\ \A k \in 1..q : x[k] = s[k]
  <2>1. /\ Len(s) \in Nat /\ Len(Append(s, v)) = Len(s) + 1 /\ Append(s, v)[Len(s) + 1] = v
        /\ \A k \in 1..Len(s) : Append(s, v)[k] = s[k]
    BY AppendIs
  <2> QED
    BY <1>1, <2>1
<1>6. PICK old, new : old = unanswered /\ new = unanswered'
  OBVIOUS
<1>7. /\ \A j \in 1..q : \A b : Holds(s[j], b) => Once(ms, b)
      /\ \A n \in 1..m : \A b : Holds(ms[n], b) => Heard(b, q, old)
      /\ Alternates(ms) /\ Len(FlattenSeq(Contents(ms))) = Len(FlattenSeq(Contents(s)))
  BY <1>1, <1>2, <1>4, <1>5, <1>6 DEF Told
<1>8. /\ \A b : Holds(v, b) => ~ Heard(b, q, old) /\ Heard(b, q + 1, new)
      /\ \A b : Heard(b, q, old) => Heard(b, q + 1, new)
  BY <1>1, <1>5, <1>6
<1>9. \A b : Holds(v, b) => Nowhere(ms, b)
  BY <1>4, <1>7, <1>8 DEF Nowhere
<1>10. ASSUME NEW j \in 1..q + 1, NEW b, Holds(x[j], b)
       PROVE  Once(next, b)
  <2>1. CASE j \in 1..q
    <3>1. Holds(s[j], b) /\ Once(ms, b)
      BY <1>5, <1>7, <1>10, <2>1
    <3>2. ~ Nowhere(ms, b)
      BY <3>1 DEF Once, Nowhere
    <3>3. ~ Holds(v, b)
      BY <1>9, <3>2
    <3> QED
      BY <1>3, <3>1, <3>3, OnceMerged
  <2>2. CASE j = q + 1
    BY <1>3, <1>5, <1>9, <1>10, <2>2, OnceMerged
  <2> QED
    BY <2>1, <2>2
<1>11. ASSUME NEW n \in 1..l, NEW b, Holds(next[n], b)
       PROVE  Heard(b, q + 1, new)
  <2>1. (n <= m /\ Holds(ms[n], b)) \/ Holds(v, b)
    BY <1>3, <1>4, <1>11, Holders
  <2> QED
    BY <1>4, <1>7, <1>8, <2>1
<1>12. Alternates(next)
  BY <1>1, <1>3, <1>7, AlternatesOn
<1>13. Len(FlattenSeq(Contents(next))) = Len(FlattenSeq(Contents(x)))
  <2>1. Len(FlattenSeq(Contents(next))) = Len(FlattenSeq(Contents(ms))) + Len(v.content)
    BY <1>3, BlocksAdded
  <2>2. Len(FlattenSeq(Contents(x))) = Len(FlattenSeq(Contents(s))) + Len(v.content)
    BY <1>1, TurnBlocksAdded
  <2> QED
    BY <1>7, <2>1, <2>2
<1> QED
  BY <1>1, <1>3, <1>4, <1>5, <1>6, <1>10, <1>11, <1>12, <1>13 DEF Told

\* A turn of text, which answers nothing.
LEMMA ToldText ==
  ASSUME Log, Told, NEW t, Brings(t), t.content = <<Text(Len(turns) + 1, 0)>>,
         unanswered' = unanswered
  PROVE  Told'
<1>1. PICK n \in Nat : n = Len(turns)
  BY NextIs
<1>2. PICK b \in Block : b = Text(n + 1, 0) /\ b.id = <<n + 1, 0>> /\ ~ IsResult(b)
  <2>1. PICK i \in Nat \X Nat : i = <<n + 1, 0>>
    <3>1. PICK j \in Nat : j = n + 1
      OBVIOUS
    <3> QED
      BY <3>1
  <2>2. PICK b : b = [type |-> "text", id |-> i, stub |-> FALSE]
    OBVIOUS
  <2>3. b \in Block /\ b.id = i /\ ~ IsResult(b)
    BY <2>2 DEF Block, IsResult
  <2>4. b = Text(n + 1, 0)
    BY <2>1, <2>2 DEF Text
  <2> QED
    BY <2>1, <2>3, <2>4
<1>3. t.content = <<b>> /\ LeadsWithResults(t.content)
  BY <1>1, <1>2, OneBlock, ZenonT(60)
<1>4. \A c : Holds(t, c) => c = b
  <2>1. DOMAIN t.content = 1..1 /\ t.content[1] = b
    BY <1>3, OneBlock
  <2> QED
    BY <2>1 DEF Holds
<1>5. ~ Heard(b, n, unanswered) /\ Heard(b, n + 1, unanswered)
  BY <1>2 DEF Heard
<1>6. \A c : Heard(c, n, unanswered) => Heard(c, n + 1, unanswered)
  BY DEF Heard
<1>7. \A u, v \in unanswered' : u[1] = v[1] /\ u[2] = v[2] => u = v
  BY DEF Told
<1> QED
  BY <1>1, <1>3, <1>4, <1>5, <1>6, <1>7, ToldOn

\* A turn of tool_use blocks, and the questions of a turn.
Uses(t, q, n) == DOMAIN t.content = 1..n /\ \A k \in 1..n : t.content[k] = ToolUse(<<q, k>>)
Questions(open, q, tools) == \A u \in open : u[1] = q /\ u = <<q, u[2], tools[u[2]]>>

LEMMA ToldToolUse ==
  ASSUME Log, Told, NEW t, Brings(t), NEW n \in 1..2, NEW tools, NEW new,
         Uses(t, Len(turns) + 1, n), Questions(new, Len(turns) + 1, tools),
         unanswered' = unanswered \cup new
  PROVE  Told'
<1>1. PICK q \in Nat : q = Len(turns)
  BY NextIs
<1>2. DOMAIN t.content = 1..n /\ \A k \in 1..n : t.content[k] = ToolUse(<<q + 1, k>>)
  BY <1>1 DEF Uses
<1>3. LeadsWithResults(t.content)
  <2>1. ASSUME NEW k \in 1..n
        PROVE  ~ IsResult(t.content[k])
    <3>1. PICK b : b = t.content[k] /\ b = ToolUse(<<q + 1, k>>)
      BY <1>2
    <3>2. b.type = "tool_use"
      BY <3>1 DEF ToolUse
    <3> QED
      BY <3>1, <3>2 DEF IsResult
  <2> QED
    BY <1>2, <2>1 DEF LeadsWithResults
<1>4. PICK open, now : open = unanswered /\ now = unanswered'
  OBVIOUS
<1>5. now = open \cup new
  BY <1>1, <1>4
<1>6. \A u \in open : u[1] \in 1..q
  BY <1>1, <1>4 DEF Log
<1>7. \A u \in new : u[1] = q + 1 /\ u = <<q + 1, u[2], tools[u[2]]>>
  BY <1>1 DEF Questions
<1>8. \A u, v \in now : u[1] = v[1] /\ u[2] = v[2] => u = v
  <2>1. \A u, v \in open : u[1] = v[1] /\ u[2] = v[2] => u = v
    BY <1>4 DEF Told
  <2>2. \A u \in open, v \in new : u[1] # v[1]
    BY <1>6, <1>7
  <2>3. \A u, v \in new : u[2] = v[2] => u = v
    BY <1>7
  <2> QED
    BY <1>5, <2>1, <2>2, <2>3
<1>9. ASSUME NEW b, Holds(t, b)
      PROVE  ~ Heard(b, q, open) /\ Heard(b, q + 1, now)
  <2>1. PICK k \in 1..n : b = ToolUse(<<q + 1, k>>)
    BY <1>2, <1>9 DEF Holds
  <2>2. b.id[1] = q + 1 /\ ~ IsResult(b)
    BY <2>1 DEF ToolUse, IsResult
  <2> QED
    BY <2>2 DEF Heard
<1>10. ASSUME NEW b, Heard(b, q, open)
       PROVE  Heard(b, q + 1, now)
  <2>1. b.id[1] \in 1..q /\ (IsResult(b) => \A u \in open : b.id # <<u[1], u[2]>>)
    BY <1>10 DEF Heard
  <2>2. \A u \in new : b.id # <<u[1], u[2]>>
    BY <1>7, <2>1
  <2> QED
    BY <1>5, <2>1, <2>2 DEF Heard
<1> QED
  BY <1>1, <1>3, <1>4, <1>8, <1>9, <1>10, ToldOn

LEMMA ToldResult ==
  ASSUME Log, Told, NEW t, Brings(t), NEW u \in unanswered,
         t.content = <<Result(<<u[1], u[2]>>)>>, unanswered' = unanswered \ {u}
  PROVE  Told'
<1>1. PICK q \in Nat : q = Len(turns)
  BY NextIs
<1>2. u[1] \in 1..q /\ u[2] \in 1..2
  BY <1>1 DEF Log
<1>3. PICK b \in Block : b = Result(<<u[1], u[2]>>) /\ b.id = <<u[1], u[2]>> /\ IsResult(b)
  <2>1. PICK i \in Nat \X Nat : i = <<u[1], u[2]>>
    BY <1>2
  <2>2. PICK b : b = [type |-> "tool_result", id |-> i, stub |-> FALSE]
    OBVIOUS
  <2>3. b \in Block /\ b.id = i /\ IsResult(b)
    BY <2>2 DEF Block, IsResult
  <2>4. b = Result(<<u[1], u[2]>>)
    BY <2>1, <2>2 DEF Result
  <2> QED
    BY <2>1, <2>3, <2>4
<1>4. t.content = <<b>> /\ LeadsWithResults(t.content)
  <2>1. t.content = <<b>>
    BY <1>3
  <2>2. LeadsWithResults(<<b>>)
    BY OneBlock
  <2> QED
    BY <2>1, <2>2
<1>5. \A c : Holds(t, c) => c = b
  <2>1. DOMAIN t.content = 1..1 /\ t.content[1] = b
    BY <1>4, OneBlock
  <2> QED
    BY <2>1 DEF Holds
<1>6. PICK open, now : open = unanswered /\ now = unanswered' /\ now = open \ {u}
  OBVIOUS
<1>7. \A v, w \in open : v[1] = w[1] /\ v[2] = w[2] => v = w
  BY <1>6 DEF Told
<1>8. ~ Heard(b, q, open)
  BY <1>3, <1>6 DEF Heard
<1>9. Heard(b, q + 1, now)
  <2>1. \A v \in now : ~ (v[1] = u[1] /\ v[2] = u[2])
    BY <1>6, <1>7
  <2>2. \A v \in now : b.id # <<v[1], v[2]>>
    BY <1>3, <2>1
  <2> QED
    BY <1>2, <1>3, <2>2 DEF Heard
<1>10. \A c : Heard(c, q, open) => Heard(c, q + 1, now)
  BY <1>6 DEF Heard
<1>11. \A v, w \in now : v[1] = w[1] /\ v[2] = w[2] => v = w
  BY <1>6, <1>7
<1> QED
  BY <1>1, <1>4, <1>5, <1>6, <1>8, <1>9, <1>10, <1>11, ToldOn

LEMMA ToldStep == Log /\ Told /\ [Next]_vars => Told'
<1> SUFFICES ASSUME Log, Told, [Next]_vars PROVE Told'
  OBVIOUS
<1>1. CASE AppendUserText
  <2>1. PICK says \in UserSays : Grow(UserText(NextSeq(turns), says)) /\ unanswered' = unanswered
    BY <1>1 DEF AppendUserText
  <2>2. PICK t : Brings(t) /\ t.content = <<Text(Len(turns) + 1, 0)>>
    BY <2>1, UserTextBrings
  <2> QED
    BY <2>1, <2>2, ToldText
<1>2. CASE AppendReply
  <2>1. PICK says \in ReplySays :
          Grow(Assistant(NextSeq(turns), TRUE, <<>>, says)) /\ unanswered' = unanswered
    BY <1>2 DEF AppendReply
  <2>2. PICK t : Brings(t) /\ t.content = <<Text(Len(turns) + 1, 0)>>
    BY <2>1, ReplyBrings
  <2> QED
    BY <2>1, <2>2, ToldText
<1>3. CASE AppendToolUse
  <2>1. PICK tools \in {<<"search">>, <<"card", "ticket">>} :
          /\ Grow(Assistant(NextSeq(turns), FALSE, tools, "plain"))
          /\ unanswered' = unanswered \cup {<<NextSeq(turns), n, tools[n]>> : n \in DOMAIN tools}
    BY <1>3 DEF AppendToolUse
  <2>2. PICK t : /\ Brings(t) /\ t.content = [n \in 1..Len(tools) |-> ToolUse(<<Len(turns) + 1, n>>)]
                 /\ Len(tools) \in 1..2 /\ DOMAIN tools = 1..Len(tools)
    BY <2>1, ToolUseBrings
  <2>3. PICK n \in 1..2 : n = Len(tools)
    BY <2>2
  <2>4. NextSeq(turns) = Len(turns) + 1
    BY NextIs
  <2>5. PICK names, new : names = tools /\ new = {<<Len(turns) + 1, k, tools[k]>> : k \in DOMAIN tools}
    OBVIOUS
  <2>6. Uses(t, Len(turns) + 1, n)
    BY <2>2, <2>3 DEF Uses
  <2>7. Questions(new, Len(turns) + 1, names)
    BY <2>5 DEF Questions
  <2>8. unanswered' = unanswered \cup new
    BY <2>1, <2>4, <2>5
  <2> QED
    BY <2>2, <2>6, <2>7, <2>8, ToldToolUse
<1>4. CASE AppendResult
  <2>1. PICK u \in unanswered, err \in BOOLEAN :
          /\ Grow(ToolResult(NextSeq(turns), <<u[1], u[2]>>, u[3], err))
          /\ unanswered' = unanswered \ {u}
    BY <1>4 DEF AppendResult
  <2>2. PICK t : Brings(t) /\ t.content = <<Result(<<u[1], u[2]>>)>>
    BY <2>1, ResultBrings
  <2> QED
    BY <2>1, <2>2, ToldResult
<1>5. CASE AppendFlowEvent
  <2>1. PICK t : Brings(t) /\ t.content = <<Text(Len(turns) + 1, 0)>>
    BY <1>5, FlowEventBrings
  <2>2. unanswered' = unanswered
    BY <1>5 DEF AppendFlowEvent
  <2> QED
    BY <2>1, <2>2, ToldText
<1>6. CASE UNCHANGED vars
  BY <1>6 DEF vars, Told
<1> QED
  BY <1>1, <1>2, <1>3, <1>4, <1>5, <1>6 DEF Next

LEMMA ToldInit == Init => Told
<1> SUFFICES ASSUME Init PROVE Told
  OBVIOUS
<1>1. turns = <<>> /\ unanswered = {} /\ Messages[turns] = <<>> /\ Len(turns) = 0
  BY MessagesEmpty DEF Init
<1>2. 1..Len(turns) = {} /\ 1..Len(Messages[turns]) = {}
  BY <1>1
<1>3. Contents(Messages[turns]) = Contents(turns)
  BY <1>1
<1> QED
  BY <1>1, <1>2, <1>3 DEF Told, Alternates

\* The merge of the turns into messages loses, doubles and invents no block, a user message
\* never follows a user message, and results lead every message, however the thread grew.
THEOREM MergeKeeps == Spec => []MergeSound
<1>1. Log /\ Told => MergeSound
  <2> SUFFICES ASSUME Log, Told PROVE MergeSound
    OBVIOUS
  <2>1. PICK s \in Seq(Turn) : s = turns
    BY DEF Log
  <2>2. PICK ms \in Seq(Message) : ms = Messages[s]
    BY MessagesTyped
  <2>3. DOMAIN s = 1..Len(s) /\ DOMAIN ms = 1..Len(ms) /\ Len(ms) \in Nat
    BY LenProperties
  <2>4. ASSUME NEW j \in DOMAIN s, NEW k \in DOMAIN s[j].content
        PROVE  Cardinality({m \in DOMAIN ms : Holds(ms[m], s[j].content[k])}) = 1
    <3>1. PICK b : b = s[j].content[k]
      OBVIOUS
    <3>2. Holds(s[j], b)
      BY <2>4, <3>1 DEF Holds
    <3>3. Once(ms, b)
      BY <2>1, <2>2, <2>3, <2>4, <3>2 DEF Told
    <3>4. PICK m \in 1..Len(ms) : \A n \in 1..Len(ms) : Holds(ms[n], b) <=> n = m
      BY <3>3 DEF Once
    <3>5. {n \in DOMAIN ms : Holds(ms[n], b)} = {m}
      BY <2>3, <3>4
    <3> QED
      BY <3>1, <3>5, FS_Singleton
  <2>5. Len(Bytes[ms]) = Len(FlattenSeq([j \in DOMAIN s |-> s[j].content]))
    <3>1. Bytes[ms] = FlattenSeq(Contents(ms))
      BY DEF Bytes, Contents
    <3> QED
      BY <2>1, <2>2, <3>1 DEF Told, Contents
  <2>6. Alternates(ms)
    BY <2>1, <2>2 DEF Told
  <2> QED
    BY <2>1, <2>2, <2>3, <2>4, <2>5, <2>6, ZenonT(60) DEF MergeSound, Alternates
<1>2. Log /\ Told /\ [Next]_vars => Told'
  BY ToldStep
<1> QED
  BY <1>1, <1>2, ToldInit, LogAlways, PTL DEF Spec


-----------------------------------------------------------------------------
(* What the first calls of two turns share.                                *)

\* The pass over the roles agrees with the merge: as many messages as turns that open one.
LEMMA MessagesCounted ==
  ASSUME NEW s \in Seq(Turn)
  PROVE  /\ Len(Messages[s]) = Cardinality({k \in 1..Len(s) : OpensMessage(s, k)})
         /\ Len(s) > 0 => Len(Messages[s]) > 0
<1>1. PICK n \in Nat : n = Len(s)
  BY LenProperties
<1>2. PICK b : Built(s, b) /\ Messages[s] = b[n]
  BY <1>1, MessagesAre
<1>3. \A k \in 0..n : b[k] \in Seq(Message) /\ Len(b[k]) \in Nat
  BY <1>1, <1>2, LenProperties DEF Built
<1> DEFINE Opening(m) == {k \in 1..m : OpensMessage(s, k)}
           Alike(m) == /\ IsFiniteSet(Opening(m)) /\ Len(b[m]) = Cardinality(Opening(m))
                       /\ m > 0 => Len(b[m]) > 0 /\ b[m][Len(b[m])].role = Role(s[m])
           S == {m \in 0..n : Alike(m)}
<1>4. 0 \in S
  <2>1. Opening(0) = {} /\ Len(b[0]) = 0
    BY <1>2, EmptySeq DEF Built
  <2> QED
    BY <2>1, FS_EmptySet
<1>5. ASSUME NEW m \in 1..n, m - 1 \in S PROVE m \in S
  <2>1. PICK p \in 0..n : p = m - 1
    OBVIOUS
  <2>2. PICK t \in Turn, x \in Seq(Message), y \in Seq(Message) :
          t = s[m] /\ x = b[p] /\ y = b[m] /\ y = Extend(t)[x]
    <3>1. s[m] \in Turn /\ b[m] = Extend(s[m])[b[m - 1]]
      BY <1>1, <1>2, ElementOfSeq DEF Built
    <3> QED
      BY <1>3, <2>1, <3>1
  <2>3. JoinedTo(x, t, y) \/ StartedBy(x, t, y)
    BY <2>2, ExtendIs
  <2>4. /\ IsFiniteSet(Opening(p)) /\ Len(x) = Cardinality(Opening(p)) /\ Len(x) \in Nat
        /\ p > 0 => Len(x) > 0 /\ x[Len(x)].role = Role(s[p])
    BY <1>3, <1>5, <2>1, <2>2
  <2>5. p = 0 => Len(x) = 0
    BY <1>2, <2>2, EmptySeq DEF Built
  <2>6. JoinedTo(x, t, y) <=> ~ OpensMessage(s, m)
    <3>1. OpensMessage(s, m) <=> ~ (Role(t) = "user" /\ p > 0 /\ Role(s[p]) = "user")
      BY <2>1, <2>2 DEF OpensMessage
    <3> QED
      BY <2>3, <2>4, <2>5, <3>1 DEF JoinedTo, StartedBy
  <2>7. Len(y) > 0 /\ y[Len(y)].role = Role(t)
    BY <2>3, <2>4, SMTT(60) DEF JoinedTo, StartedBy
  <2>8. IsFiniteSet(Opening(m)) /\ Len(y) = Cardinality(Opening(m))
    <3>1. CASE OpensMessage(s, m)
      <4>1. Opening(m) = Opening(p) \cup {m} /\ m \notin Opening(p)
        BY <2>1, <3>1
      <4>2. Len(y) = Len(x) + 1
        BY <2>3, <2>6, <3>1 DEF StartedBy
      <4>3. PICK J : J = Opening(p)
        OBVIOUS
      <4>4. IsFiniteSet(J \cup {m}) /\ Cardinality(J \cup {m}) = Cardinality(J) + 1
        BY <2>4, <4>1, <4>3, FS_AddElement
      <4> QED
        BY <2>4, <4>1, <4>2, <4>3, <4>4
    <3>2. CASE ~ OpensMessage(s, m)
      <4>1. Opening(m) = Opening(p)
        BY <2>1, <3>2
      <4>2. Len(y) = Len(x)
        BY <2>6, <3>2 DEF JoinedTo
      <4> QED
        BY <2>4, <4>1, <4>2
    <3> QED
      BY <3>1, <3>2
  <2>9. Alike(m)
    BY <2>2, <2>7, <2>8
  <2> QED
    BY <2>9
<1>6. Alike(n)
  <2> HIDE DEF Alike
  <2>1. 0..n \subseteq S
    <3> HIDE DEF S
    <3> QED
      BY <1>4, <1>5, Climb, ZenonT(20), SMTT(60)
  <2> QED
    BY <2>1
<1> QED
  BY <1>1, <1>2, <1>6

\* The anchor is the message the newest user text is in.
LEMMA AnchorIs ==
  ASSUME NEW s \in Seq(Turn)
  PROVE  LastUserMessageIndex(s) = Len(Messages[SubSeq(s, 1, LastUserText(s))])
<1>1. PICK p \in 0..Len(s) : p = LastUserText(s)
  BY LastUserTextPlace
<1>2. PICK x \in Seq(Turn) : x = SubSeq(s, 1, p) /\ Len(x) = p /\ \A k \in 1..p : x[k] = s[k]
  <2>1. p \in Nat /\ p <= Len(s)
    BY LenProperties
  <2> QED
    BY <2>1, PrefixIs
<1>3. {k \in 1..p : OpensMessage(s, k)} = {k \in 1..p : OpensMessage(x, k)}
  <2>1. \A k \in 1..p : x[k] = s[k] /\ (k > 1 => x[k - 1] = s[k - 1])
    <3>1. \A k \in 1..p : k > 1 => k - 1 \in 1..p
      BY LenProperties
    <3> QED
      BY <1>2, <3>1
  <2> QED
    BY <2>1 DEF OpensMessage
<1>4. Len(Messages[x]) = Cardinality({k \in 1..p : OpensMessage(x, k)})
  BY <1>2, MessagesCounted
<1> QED
  BY <1>1, <1>2, <1>3, <1>4 DEF LastUserMessageIndex

\* The number of blocks between two messages.
LEMMA BlocksBetweenIs ==
  ASSUME NEW ms \in Seq(Message), NEW b, Flat(Contents(ms), b),
         NEW j \in 0..Len(ms), NEW i \in 0..j
  PROVE  /\ Len(b[i]) \in Nat /\ Len(b[j]) \in Nat /\ BlocksBetween(ms, i, j) \in Nat
         /\ BlocksBetween(ms, i, j) = Len(b[j]) - Len(b[i])
<1>1. PICK n \in Nat, x \in Pieces : /\ n = Len(ms) /\ x = Contents(ms) /\ Len(x) = n
                                     /\ \A k \in 1..n : x[k] = ms[k].content /\ x[k] \in Seq(Block)
  BY ContentsIs
<1>2. \A k \in 0..n : b[k] \in Seq(Block)
  BY <1>1 DEF Flat
<1>3. PICK w \in Nat : w = j - i /\ i \in Nat /\ j \in Nat /\ j <= n
  BY <1>1
<1>4. PICK z \in Pieces : /\ z = [k \in 1..w |-> ms[i + k].content] /\ Len(z) = w
                          /\ \A k \in 1..w : z[k] = x[i + k]
  <2>1. \A k \in 1..w : i + k \in 1..n
    BY <1>3
  <2>2. \A k \in 1..w : ms[i + k].content \in Seq(Block) /\ ms[i + k].content = x[i + k]
    BY <1>1, <2>1
  <2>3. PICK z : z = [k \in 1..w |-> ms[i + k].content]
    OBVIOUS
  <2>4. z \in [1..w -> Seq(Block)]
    BY <2>2, <2>3
  <2>5. z \in Seq(Seq(Block)) /\ Len(z) = w
    BY <2>4
  <2> QED
    BY <2>2, <2>3, <2>5 DEF Pieces
<1>5. PICK c : Flat(z, c) /\ FlattenSeq(z) = c[w]
  BY <1>4, FlattenIs
<1> DEFINE Behind(k) == Len(c[k]) = Len(b[i + k]) - Len(b[i])
           S == {k \in 0..w : Behind(k)}
<1>6. 0 \in S
  <2>1. Len(c[0]) = 0 /\ i + 0 = i /\ i \in 0..n
    BY <1>3, <1>5, EmptySeq DEF Flat
  <2>2. Len(b[i]) \in Nat
    BY <1>2, <2>1, LenProperties
  <2>3. Behind(0)
    BY <2>1, <2>2
  <2> HIDE DEF Behind
  <2> QED
    BY <2>3
<1>7. ASSUME NEW k \in 1..w, k - 1 \in S PROVE k \in S
  <2>1. PICK p \in 0..w, q \in 1..n : p = k - 1 /\ q = i + k /\ q - 1 = i + p
    BY <1>3
  <2>2. PICK d \in Seq(Block), e \in Seq(Block), f \in Seq(Block) : d = c[p] /\ e = b[q - 1] /\ f = x[q]
    <3>1. c[p] \in Seq(Block)
      BY <1>4, <1>5 DEF Flat
    <3> QED
      BY <1>1, <1>2, <2>1, <3>1
  <2>3. c[k] = d \o f
    <3>1. c[k] = c[k - 1] \o z[k] /\ z[k] = x[i + k]
      BY <1>4, <1>5 DEF Flat
    <3> QED
      BY <2>1, <2>2, <3>1
  <2>4. b[q] = e \o f
    <3>1. b[q] = b[q - 1] \o x[q]
      BY <1>1 DEF Flat
    <3> QED
      BY <2>2, <3>1
  <2>5. Len(d) = Len(e) - Len(b[i])
    BY <1>7, <2>1, <2>2
  <2>6. Len(d \o f) = Len(d) + Len(f) /\ Len(e \o f) = Len(e) + Len(f)
        /\ Len(d) \in Nat /\ Len(e) \in Nat /\ Len(f) \in Nat
    BY ConcatProperties, LenProperties
  <2>7. Len(b[i]) \in Nat
    <3>1. i \in 0..n
      BY <1>3
    <3> QED
      BY <1>2, <3>1, LenProperties
  <2>8. Behind(k)
    BY <2>1, <2>3, <2>4, <2>5, <2>6, <2>7
  <2> HIDE DEF Behind
  <2> QED
    BY <2>8
<1>8. Behind(w)
  <2> HIDE DEF Behind
  <2>1. 0..w \subseteq S
    <3> HIDE DEF S
    <3> QED
      BY <1>6, <1>7, Climb, ZenonT(20), SMTT(60)
  <2> QED
    BY <2>1
<1>9. BlocksBetween(ms, i, j) = Len(c[w])
  BY <1>3, <1>4, <1>5 DEF BlocksBetween
<1>10. Len(b[i]) \in Nat /\ Len(b[j]) \in Nat
  <2>1. i \in 0..n /\ j \in 0..n
    BY <1>3
  <2> QED
    BY <1>2, <2>1, LenProperties
<1>11. i + w = j
  BY <1>3
<1>12. Len(c[w]) \in Nat
  <2>1. c[w] \in Seq(Block)
    BY <1>4, <1>5 DEF Flat
  <2> QED
    BY <2>1, LenProperties
<1> QED
  BY <1>8, <1>9, <1>10, <1>11, <1>12

\* If any message behind the anchor ends within reach of it, a marked one does: the last, or,
\* when that is too far, the last one within reach.
LEMMA MarkIsNear ==
  ASSUME NEW ms \in Seq(Message), NEW q \in 1..Len(ms), Last(ms).content # <<>>,
         NEW k \in q + 1..Len(ms), BlocksBetween(ms, q, k) \in 0..Reach
  PROVE  \E m \in Marks(ms, q) : m \in q..Len(ms) /\ BlocksBetween(ms, q, m) \in 0..Reach
<1>1. PICK n \in Nat : n = Len(ms) /\ n > 0 /\ ms # <<>>
  BY LenProperties, EmptySeq
<1>2. PICK b : Flat(Contents(ms), b)
  BY ContentsIs, FlattenIs
<1>3. ASSUME NEW m \in q..n PROVE BlocksBetween(ms, q, m) \in Nat
  <2>1. m \in 0..Len(ms) /\ q \in 0..m
    BY <1>1
  <2> QED
    BY <1>2, <2>1, BlocksBetweenIs
<1>4. PICK r \in Int : r = Reach /\ \E m \in Nat : r = m
  BY LookbackAssumption DEF Reach
<1>5. n \in Marks(ms, q)
  BY <1>1 DEF Marks
<1>6. CASE BlocksBetween(ms, q, n) <= r
  <2>1. n \in q..n /\ BlocksBetween(ms, q, n) \in Nat
    BY <1>1, <1>3
  <2>2. BlocksBetween(ms, q, n) \in 0..r
    BY <1>4, <1>6, <2>1
  <2> QED
    BY <1>1, <1>4, <1>5, <2>1, <2>2
<1>7. CASE ~ (BlocksBetween(ms, q, n) <= r)
  <2>1. k \in q + 1..n - 1 /\ q \in 1..n - 1
    BY <1>1, <1>4, <1>7
  <2>2. PICK J : J = WithinReach(ms, q)
    OBVIOUS
  <2>3. J \subseteq 1..n /\ k \in J
    BY <1>1, <2>1, <2>2 DEF WithinReach
  <2>4. PICK m \in J : \A y \in J : m >= y
    BY <2>3, LargestOf
  <2>5. m \in Marks(ms, q)
    BY <1>1, <1>3, <1>4, <1>7, <2>1, <2>2, <2>3, <2>4, SMTT(60) DEF Marks
  <2>6. m \in q..n /\ BlocksBetween(ms, q, m) <= r
    BY <1>1, <1>4, <2>1, <2>2 DEF WithinReach
  <2>7. BlocksBetween(ms, q, m) \in 0..r
    BY <1>3, <1>4, <2>6
  <2> QED
    BY <1>1, <1>4, <2>5, <2>6, <2>7
<1> QED
  BY <1>6, <1>7

\* The user text before the newest one is the newest of what came before that.
LEMMA FrontIs ==
  ASSUME NEW s \in Seq(Turn), Len(s) > 0, IsUserText(s[Len(s)])
  PROVE  /\ Front(s) \in Seq(Turn) /\ PreviousUserText(s) = LastUserText(Front(s))
         /\ PreviousUserText(s) \in 0..Len(s) - 1
         /\ SubSeq(Front(s), 1, PreviousUserText(s)) = SubSeq(s, 1, PreviousUserText(s))
<1>1. PICK n \in Nat : n = Len(s) - 1
  BY LenProperties
<1>2. PICK f \in Seq(Turn) : f = Front(s) /\ Len(f) = n /\ \A k \in 1..n : f[k] = s[k]
  <2>1. n <= Len(s) /\ Front(s) = SubSeq(s, 1, n)
    BY <1>1 DEF Front
  <2> QED
    BY <2>1, PrefixIs
<1>3. PICK t \in Turn : t = s[n + 1] /\ IsUserText(t) /\ Len(s) = n + 1
  <2>1. Len(s) = n + 1 /\ Len(s) \in 1..Len(s)
    BY <1>1
  <2> QED
    BY <2>1, ElementOfSeq
<1>4. s = Append(f, t)
  <2>1. /\ Append(f, t) \in Seq(Turn) /\ Len(Append(f, t)) = n + 1 /\ Append(f, t)[n + 1] = t
        /\ \A k \in 1..n : Append(f, t)[k] = f[k]
    BY <1>2, AppendIs
  <2>2. \A k \in 1..n + 1 : Append(f, t)[k] = s[k]
    BY <1>2, <1>3, <2>1
  <2> QED
    BY <1>3, <2>1, <2>2, SeqEqual
<1>5. PICK p \in 0..n : p = LastUserText(f)
  BY <1>2, LastUserTextPlace
<1>6. PreviousUserText(s) = p
  BY <1>3, <1>4, <1>5, UserTextsGrow
<1>7. SubSeq(f, 1, p) = SubSeq(s, 1, p)
  <2>1. p \in Nat /\ p <= Len(f) /\ p <= Len(s) /\ \A k \in 1..p : f[k] = s[k]
    BY <1>1, <1>2, <1>3
  <2> QED
    BY <2>1, SamePrefix
<1> QED
  BY <1>1, <1>2, <1>5, <1>6, <1>7

\* A last message that has as many blocks as it had is the message it was.
LEMMA OntoCalmly ==
  ASSUME NEW old \in Seq(Message), NEW new \in Seq(Message), Len(old) > 0, NEW calm,
         Onto(old, new, calm), BlocksBetween(new, 0, Len(old)) = Len(Bytes[old])
  PROVE  Onto(old, new, TRUE)
<1>1. PICK m \in Nat, n \in Nat : m = Len(old) /\ n = Len(new) /\ m <= n /\ m > 0
  BY LenProperties DEF Onto
<1>2. PICK x \in Pieces : /\ x = Contents(old) /\ Len(x) = m
                          /\ \A k \in 1..m : x[k] = old[k].content /\ x[k] \in Seq(Block)
  BY <1>1, ContentsIs
<1>3. PICK y \in Pieces : /\ y = Contents(new) /\ Len(y) = n
                          /\ \A k \in 1..n : y[k] = new[k].content /\ y[k] \in Seq(Block)
  BY <1>1, ContentsIs
<1>4. PICK b : Flat(x, b) /\ Bytes[old] = b[m]
  BY <1>2, FlattenIs, BytesIs
<1>5. PICK c : Flat(y, c)
  BY <1>3, FlattenIs
<1>6. PICK p \in Nat : p = m - 1
  BY <1>1, SMTT(60)
<1>7. b[p] = c[p]
  <2>1. \A k \in 1..p : x[k] = y[k]
    <3>1. \A k \in 1..p : new[k] = old[k]
      BY <1>1, <1>6 DEF Onto
    <3>2. \A k \in 1..p : k \in 1..m /\ k \in 1..n
      BY <1>1, <1>6
    <3>3. ASSUME NEW k \in 1..p PROVE x[k] = y[k]
      <4>1. x[k] = old[k].content /\ y[k] = new[k].content /\ new[k] = old[k]
        BY <1>2, <1>3, <3>1, <3>2
      <4> QED
        BY ONLY <4>1
    <3> QED
      BY <3>3
  <2>2. p <= Len(x) /\ p <= Len(y)
    BY <1>1, <1>2, <1>3, <1>6
  <2>3. \A k \in 0..p : b[k] = c[k]
    BY <1>4, <1>5, <2>1, <2>2, FlatPrefix, SMTT(60)
  <2> QED
    BY <2>3
<1>8. PICK a \in Seq(Block), d \in Seq(Block), e \in Seq(Block) :
        a = b[p] /\ d = x[m] /\ e = y[m] /\ d = old[m].content /\ e = new[m].content
  <2>1. b[p] \in Seq(Block)
    <3>1. b \in [0..m -> Seq(Block)]
      BY <1>2, <1>4 DEF Flat
    <3>2. p \in 0..m
      BY <1>1, <1>6
    <3> QED
      BY <3>1, <3>2
  <2>2. m \in 1..m /\ m \in 1..n
    BY <1>1
  <2> QED
    BY <1>2, <1>3, <2>1, <2>2
<1>9. b[m] = a \o d
  <2>1. \A k \in 1..m : b[k] = b[k - 1] \o x[k]
    BY <1>2, <1>4 DEF Flat
  <2>2. m \in 1..m
    BY <1>1
  <2>3. b[m] = b[m - 1] \o x[m]
    BY <2>1, <2>2
  <2> QED
    BY <1>6, <1>8, <2>3
<1>10. c[m] = a \o e
  <2>1. \A k \in 1..n : c[k] = c[k - 1] \o y[k]
    BY <1>3, <1>5 DEF Flat
  <2>2. m \in 1..n
    BY <1>1
  <2>3. c[m] = c[m - 1] \o y[m]
    BY <2>1, <2>2
  <2> QED
    BY <1>6, <1>7, <1>8, <2>3
<1>11. Len(c[m]) = Len(b[m])
  <2>1. m \in 0..Len(new) /\ 0 \in 0..m /\ Flat(Contents(new), c)
    BY <1>1, <1>3, <1>5
  <2>2. Len(c[m]) \in Nat /\ BlocksBetween(new, 0, m) = Len(c[m]) - Len(c[0])
    BY <2>1, BlocksBetweenIs
  <2>3. Len(c[0]) = 0
    BY <1>5, EmptySeq DEF Flat
  <2> QED
    BY <1>1, <1>4, <2>2, <2>3
<1>12. Len(d) = Len(e) /\ Len(d) \in Nat
  <2>1. Len(a \o d) = Len(a) + Len(d) /\ Len(a \o e) = Len(a) + Len(e)
        /\ Len(a) \in Nat /\ Len(d) \in Nat /\ Len(e) \in Nat
    BY ConcatProperties, LenProperties
  <2> QED
    BY <1>9, <1>10, <1>11, <2>1
<1>13. new[m] = old[m]
  BY <1>1, <1>8, <1>12 DEF Onto
<1>14. Begins(old[m].content, new[m].content)
  BY <1>8, <1>13, LenProperties DEF Begins
<1> QED
  BY <1>1, <1>14 DEF Onto

LEMMA LastExtends ==
  ASSUME NEW s \in Seq(Turn), Len(s) > 0
  PROVE  \E z \in Seq(Message) : Messages[s] = Extend(s[Len(s)])[z]
<1>1. PICK n \in Nat : n = Len(s) /\ n > 0
  BY LenProperties
<1>2. PICK b : Built(s, b) /\ Messages[s] = b[n]
  BY <1>1, MessagesAre
<1>3. b[n] = Extend(s[n])[b[n - 1]] /\ b[n - 1] \in Seq(Message)
  <2>1. n \in 1..Len(s) /\ n - 1 \in 0..Len(s)
    BY <1>1
  <2> QED
    BY <1>2, <2>1 DEF Built
<1> QED
  BY <1>1, <1>2, <1>3

\* A user text is never sent in an empty message.
LEMMA ExtendFills ==
  ASSUME NEW t \in Turn, Len(t.content) = 1, NEW ms \in Seq(Message)
  PROVE  Last(Extend(t)[ms]).content # <<>>
<1>1. PICK next \in Seq(Message) : next = Extend(t)[ms] /\ (JoinedTo(ms, t, next) \/ StartedBy(ms, t, next))
  BY ExtendIs
<1>2. PICK n \in Nat : n = Len(ms)
  BY LenProperties
<1>3. Len(<<>>) = 0
  BY EmptySeq
<1>4. CASE StartedBy(ms, t, next)
  <2>1. Last(next).content = t.content
    BY <1>2, <1>4 DEF StartedBy, Last
  <2>2. t.content # <<>>
    <3>1. t.content = <<>> => Len(t.content) = 0
      BY <1>3
    <3> QED
      BY <3>1
  <2> QED
    BY <1>1, <2>1, <2>2
<1>5. CASE JoinedTo(ms, t, next)
  <2>1. PICK d \in Seq(Block), c \in Seq(Block) : d = ms[n].content /\ c = t.content /\ n > 0
    <3>1. n \in 1..Len(ms)
      BY <1>2, <1>5 DEF JoinedTo
    <3> QED
      BY <1>2, <3>1, ContentsIs DEF Turn
  <2>2. PICK e \in Seq(Block) : e = d \o c /\ Len(e) = Len(d) + 1 /\ Len(d) \in Nat
    BY <2>1, ConcatProperties, LenProperties, ZenonT(60)
  <2>3. Last(next).content = ResultsFirst[e]
    BY <1>2, <1>5, <2>1, <2>2 DEF JoinedTo, Last
  <2>4. PICK f : f = ResultsFirst[e] /\ Len(f) = Len(d) + 1 /\ Len(d) \in Nat
    <3>1. Len(ResultsFirst[e]) = Len(e)
      BY ResultsFirstLen
    <3> QED
      BY <2>2, <3>1
  <2>5. f # <<>>
    <3>1. f = <<>> => Len(f) = 0
      BY <1>3
    <3>2. Len(f) # 0
      BY <2>4
    <3> QED
      BY <3>1, <3>2
  <2> QED
    BY <1>1, <2>3, <2>4, <2>5
<1> QED
  BY <1>1, <1>4, <1>5

\* Log is all that the history of two requests depends on.
LEMMA HistoryShared == Log => HistoryIsRead
<1> SUFFICES ASSUME Log PROVE HistoryIsRead
  OBVIOUS
<1>1. PICK s \in Seq(Turn) : s = turns /\ \A k \in 1..Len(s) : s[k].seq = k /\ Single(s[k])
  BY DEF Log, Fresh
<1>2. PICK w \in Nat, p \in 0..Len(s) : w = Len(s) /\ p = PreviousUserText(s)
  BY PreviousUserTextPlace, LenProperties
<1>3. PICK q : q = LastUserMessageIndex(Front(s))
  OBVIOUS
<1>4. PICK old, ms : old = MessagesForModel(SubSeq(s, 1, p)) /\ ms = MessagesForModel(s)
  OBVIOUS
<1> DEFINE Near(k) == BlocksBetween(ms, 0, k) - Len(Bytes[old]) \in 0..Reach
<1> SUFFICES ASSUME s # <<>>, IsUserText(Last(s)), SubSeq(s, 1, p) # <<>>,
                    BlocksBetween(ms, 0, q) = Len(Bytes[old])
             PROVE  /\ IsPrefix(Bytes[old], Bytes[ms])
                    /\ (\E k \in q + 1..Len(ms) : Near(k)) => \E k \in Marks(ms, q) : Near(k)
  BY <1>1, <1>2, <1>3, <1>4 DEF HistoryIsRead
<1>5. w > 0 /\ IsUserText(s[w])
  BY <1>2, EmptySeq DEF Last
<1>6. /\ p \in 1..w - 1 /\ Front(s) \in Seq(Turn) /\ p = LastUserText(Front(s))
      /\ SubSeq(Front(s), 1, p) = SubSeq(s, 1, p)
  <2>1. /\ p \in 0..w - 1 /\ Front(s) \in Seq(Turn) /\ p = LastUserText(Front(s))
        /\ SubSeq(Front(s), 1, p) = SubSeq(s, 1, p)
    BY <1>2, <1>5, FrontIs
  <2>2. p # 0
    <3>1. SubSeq(s, 1, 0) = <<>>
      <4>1. SubSeq(s, 1, 0) \in Seq(Turn) /\ Len(SubSeq(s, 1, 0)) = 0
        BY <1>2, PrefixIs
      <4> QED
        BY <4>1, EmptySeq
    <3> QED
      BY <3>1
  <2> QED
    BY <2>1, <2>2, SMTT(60)
<1>7. PICK x \in Seq(Turn) : x = SubSeq(s, 1, p) /\ Len(x) = p /\ \A k \in 1..p : x[k] = s[k]
  <2>1. p \in Nat /\ p <= Len(s)
    BY <1>2, <1>6
  <2> QED
    BY <2>1, PrefixIs
<1>8. Newest(x, p) /\ Newest(s, w)
  <2>1. PICK f \in Seq(Turn) : f = Front(s)
    BY <1>6
  <2>2. IsUserText(f[p]) /\ p \in 0..Len(f)
    <3>1. LastUserText(f) \in 0..Len(f) /\ (LastUserText(f) # 0 => IsUserText(f[LastUserText(f)]))
      BY LastUserTextPlace
    <3>2. LastUserText(f) = p /\ p # 0
      BY <1>6, <2>1
    <3> QED
      BY <3>1, <3>2
  <2>3. SubSeq(f, 1, p)[p] = f[p]
    <3>1. Len(f) \in Nat /\ p \in Nat /\ p <= Len(f) /\ p \in 1..p
      BY <1>6, <2>2, LenProperties
    <3> QED
      BY <3>1, PrefixIs
  <2>4. IsUserText(x[p])
    BY <1>6, <1>7, <2>1, <2>2, <2>3, SMTT(60), ZenonT(60)
  <2>5. w \in 1..w /\ p \in 1..p /\ \A k \in p + 1..p : FALSE
    <3>1. p \in Nat /\ p > 0 /\ w > 0
      BY <1>5, <1>6
    <3> QED
      BY ONLY <3>1, w \in Nat
  <2>6. Newest(x, p)
    BY <1>7, <2>4, <2>5, Zenon DEF Newest
  <2>7. \A k \in w + 1..w : FALSE
    BY <1>5
  <2> QED
    BY <1>2, <1>5, <2>5, <2>6, <2>7, Zenon DEF Newest
<1>9. old \in Seq(Message) /\ ms \in Seq(Message) /\ Onto(old, ms, Calm(s, p))
  <2>1. p \in Nat /\ p <= Len(s) /\ w > p /\ Newest(SubSeq(s, 1, p), p)
    BY <1>2, <1>6, <1>7, <1>8
  <2> QED
    BY <1>1, <1>4, <1>8, <2>1, HistoryGrows
<1>10. q = Len(old) /\ Len(old) > 0
  <2>1. q = Len(Messages[x]) /\ Len(Messages[x]) > 0
    <3>1. q = Len(Messages[SubSeq(Front(s), 1, p)])
      BY <1>3, <1>6, AnchorIs
    <3>2. Len(Messages[x]) > 0
      <4>1. Len(x) > 0
        BY <1>2, <1>6, <1>7
      <4> QED
        BY <4>1, MessagesCounted
    <3> QED
      BY <1>6, <1>7, <3>1, <3>2
  <2>2. PICK y \in Seq(Turn) : y = Curated(x)
    BY CuratedSame
  <2>3. Len(Messages[x]) = Len(Messages[y])
    BY <2>2, CuratedSame, MessagesSame DEF SameMessages
  <2> QED
    BY <1>4, <1>7, <2>1, <2>2, <2>3 DEF MessagesForModel
<1>11. IsPrefix(Bytes[old], Bytes[ms])
  <2>1. Onto(old, ms, TRUE)
    BY <1>9, <1>10, OntoCalmly
  <2>2. PICK c \in Seq(Block), d \in Seq(Block) : c = Bytes[old] /\ d = Bytes[ms]
    BY <1>9, BytesIs
  <2>3. Begins(c, d)
    BY <1>9, <2>1, <2>2, BytesGrow
  <2>4. SubSeq(d, 1, Len(c)) = c /\ Len(c) <= Len(d)
    BY <2>3, BeginsIsPrefix DEF Begins
  <2>5. SubSeq(c, 1, Len(c)) = c
    <3>1. Begins(c, c)
      BY LenProperties DEF Begins
    <3> QED
      BY <3>1, BeginsIsPrefix
  <2> QED
    BY <2>2, <2>4, <2>5 DEF IsPrefix
<1>12. Last(ms).content # <<>>
  <2>1. PICK y \in Seq(Turn) : y = Curated(s) /\ Len(y) = w
    BY <1>2, CuratedSame
  <2>2. \A k \in 1..w : y[k].kind = s[k].kind /\ Single(y[k])
    <3>1. \A k \in 1..Len(s) : Single(s[k])
      BY <1>1
    <3>2. \A k \in 1..Len(s) : Single(Curated(s)[k])
      BY <3>1, CuratedSingle
    <3>3. \A k \in 1..Len(s) : s[k].kind = Curated(s)[k].kind
      BY CuratedSame
    <3> QED
      BY ONLY <1>2, <2>1, <3>2, <3>3
  <2>3. PICK t \in Turn : t = y[w] /\ Role(t) = "user" /\ Len(t.content) = 1
    <3>1. y[w] \in Turn /\ y[w].kind = "user_text" /\ Single(y[w])
      BY <1>5, <2>1, <2>2, ElementOfSeq DEF IsUserText
    <3> QED
      BY <3>1 DEF Single, Role
  <2>4. PICK z \in Seq(Message) : ms = Extend(t)[z]
    BY <1>4, <1>5, <2>1, <2>3, LastExtends DEF MessagesForModel
  <2> QED
    BY <1>9, <2>3, <2>4, ExtendFills
<1>13. ASSUME NEW k \in q + 1..Len(ms), Near(k)
       PROVE  \E m \in Marks(ms, q) : Near(m)
  <2>1. PICK n \in Nat, r \in Nat : n = Len(ms) /\ r = q /\ r \in 1..n /\ k \in r + 1..n
    BY <1>9, <1>10, <1>13, LenProperties
  <2>2. PICK b : Flat(Contents(ms), b)
    BY <1>9, ContentsIs, FlattenIs
  <2>3. ASSUME NEW m \in r..n
        PROVE  BlocksBetween(ms, 0, m) - Len(Bytes[old]) = BlocksBetween(ms, r, m)
    <3>1. m \in 0..Len(ms) /\ r \in 0..Len(ms) /\ 0 \in 0..m /\ 0 \in 0..r /\ r \in 0..m
      BY <2>1
    <3>2. BlocksBetween(ms, 0, m) = Len(b[m]) - Len(b[0]) /\ Len(b[0]) \in Nat /\ Len(b[m]) \in Nat
      BY <1>9, <2>2, <3>1, BlocksBetweenIs
    <3>3. BlocksBetween(ms, 0, r) = Len(b[r]) - Len(b[0]) /\ Len(b[r]) \in Nat
      BY <1>9, <2>2, <3>1, BlocksBetweenIs
    <3>4. BlocksBetween(ms, r, m) = Len(b[m]) - Len(b[r])
      BY <1>9, <2>2, <3>1, BlocksBetweenIs
    <3>5. BlocksBetween(ms, 0, r) = Len(Bytes[old])
      BY <2>1
    <3>6. BlocksBetween(ms, 0, m) - BlocksBetween(ms, 0, r) = BlocksBetween(ms, r, m)
      <4>1. PICK i \in Nat, j \in Nat, h \in Nat : i = Len(b[0]) /\ j = Len(b[r]) /\ h = Len(b[m])
        BY <3>2, <3>3
      <4>2. BlocksBetween(ms, 0, m) = h - i /\ BlocksBetween(ms, 0, r) = j - i
            /\ BlocksBetween(ms, r, m) = h - j
        BY <3>2, <3>3, <3>4, <4>1
      <4>3. (h - i) - (j - i) = h - j
        OBVIOUS
      <4> QED
        BY ONLY <4>2, <4>3
    <3> QED
      BY <3>5, <3>6
  <2>4. BlocksBetween(ms, r, k) \in 0..Reach
    BY <1>13, <2>1, <2>3
  <2>5. PICK m \in Marks(ms, r) : m \in r..n /\ BlocksBetween(ms, r, m) \in 0..Reach
    BY <1>9, <1>12, <2>1, <2>4, MarkIsNear
  <2>6. Near(m)
    BY <2>3, <2>5
  <2> HIDE DEF Near
  <2> QED
    BY <2>1, <2>5, <2>6
<1> HIDE DEF Near
<1> QED
  BY <1>11, <1>13

\* Unless something was merged into its last message after that, the bytes that the first
\* model call of a turn marked are sent again by the first call of the next turn, and one of its
\* markers is close enough behind them if any message is: for every thread, however it grew,
\* and every reach of the lookback (with_history_breakpoint, store.py:220-336).
THEOREM HistoryRead == Spec => []HistoryIsRead
  BY LogAlways, HistoryShared, PTL
=============================================================================
