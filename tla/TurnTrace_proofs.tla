-------------------------- MODULE TurnTrace_proofs --------------------------
(* The trace of a turn, for any number of turns and threads, replies of any length and *)
(* any number of rounds: its spans nest, what is kept is kept whole, and a score is    *)
(* put where it belongs.                                                               *)
EXTENDS TurnTrace, TLAPS

-----------------------------------------------------------------------------
(* The shape of a turn.                                                    *)

SpanType ==
  [type : {"agent", "llm", "tool", "retriever"}, by : Nat, parent : Nat, ended : BOOLEAN,
   mirror : {"none", "open", "ended"}]

TaskType ==
  [kind : {"kb", "plain"},
   at : {"ready", "running", "embedding", "embedded", "searching", "answering", "ended",
         "cancelled"},
   span : Nat, parent : Nat, child : Nat]

Places ==
  {"new", "opened", "thinking", "yielding", "tools", "reported", "cancelling", "closing",
   "over", "lost", "gone"}
TurnType ==
  [at : Places, spans : Seq(SpanType), tasks : Seq(TaskType), thread : Threads \cup {NoThread},
   seq : Nat, rounds : 0..MaxRounds, next : Places \cup {"none"}, lastSet : Nat]

\* A span that somebody has still to close, in one sink or the other.
Due(s) == s.mirror = "open" \/ (s.type = "tool" /\ ~s.ended)

Thinks(T) == T.at = "thinking" \/ (T.at = "yielding" /\ T.next = "thinking")
\* Where a call may be at work: in its reply, or on its way out of a turn that was cancelled.
Calls(T) == T.at \in {"tools", "cancelling", "closing", "over", "gone"}
\* Where the anchor may be bound.
Answered(T) ==
  T.at \in {"closing", "over", "lost", "gone"} \/ (T.at = "yielding" /\ T.next = "closing")
Called(T) ==
  T.at \in {"tools", "reported"} \/ (T.at = "yielding" /\ T.next \in {"tools", "reported"})
Bound(T) == T.at \in {"thinking", "yielding", "tools", "reported", "cancelling"}

\* The tree: what a call does hangs under the call's span, everything else under the root.
Nested(r) ==
  /\ Len(r) > 0 => r[Root].parent = 0
  /\ \A i \in 2..Len(r) :
       IF r[i].type = "retriever"
       THEN /\ r[i].parent \in 1..(i - 1) /\ r[r[i].parent].type = "tool"
            /\ r[r[i].parent].by = r[i].by
       ELSE r[i].type \in {"llm", "tool"} /\ r[i].parent = Root

\* A task at work is one of a reply being answered; its span is a call's, of its own number,
\* and the parent of what it calls.
TaskSound(r, k, c) ==
  /\ IF Busy(c)
     THEN c.span \in 2..Len(r) /\ r[c.span].type = "tool" /\ r[c.span].by = k /\ c.parent = c.span
     ELSE c.parent = Root
  /\ c.at \in {"embedding", "searching"} => c.child \in 2..Len(r) /\ r[c.child].type = "retriever"
TasksSound(T) ==
  \A k \in 1..Len(T.tasks) :
    TaskSound(T.spans, k, T.tasks[k]) /\ (Busy(T.tasks[k]) => Calls(T))

\* Who has still to close a span: the round, or a call.
Owed(T) ==
  \A i \in 2..Len(T.spans) :
    Due(T.spans[i]) =>
      (Thinks(T) /\ i = Len(T.spans)) \/ \E k \in 1..Len(T.tasks) : Closes(T.tasks[k], i)

Placed(T) ==
  /\ T.at # "new" => Len(T.spans) > 0
  /\ T.at = "new" => Len(T.spans) = 0
  /\ T.seq # NoSeq => Answered(T)
  /\ Bound(T) => T.thread \in Threads
  /\ T.at = "yielding" => T.next \in {"thinking", "tools", "reported", "closing"}
  /\ Called(T) => Len(T.tasks) > 0
  /\ Thinks(T) => Len(T.spans) > 1 /\ T.spans[Len(T.spans)].type = "llm"
  /\ T.at \in {"over", "gone"} => ~Due(T.spans[Root]) /\ T.spans[Root].ended

TurnSound(T) == T \in TurnType /\ Placed(T) /\ Nested(T.spans) /\ TasksSound(T) /\ Owed(T)

-----------------------------------------------------------------------------
(* Opening and closing a span.                                             *)

\* The tree is the same, no more is due and what has ended has ended.
Alike(r, s) ==
  /\ Len(s) = Len(r)
  /\ \A i \in 1..Len(r) :
       /\ s[i].type = r[i].type /\ s[i].by = r[i].by /\ s[i].parent = r[i].parent
       /\ Due(s[i]) => Due(r[i])
       /\ r[i].ended => s[i].ended

WithSpans(T, s) == [T EXCEPT !.spans = s]

Put(r, i, x) == [r EXCEPT ![i] = x]

LEMMA PutIs ==
  ASSUME NEW r \in Seq(SpanType), NEW i \in 1..Len(r), NEW x \in SpanType
  PROVE  /\ Put(r, i, x) \in Seq(SpanType) /\ Len(Put(r, i, x)) = Len(r) /\ Put(r, i, x)[i] = x
         /\ \A j \in 1..Len(r) : j # i => Put(r, i, x)[j] = r[j]
BY DEF Put

\* The same of a list named apart.
Placing(r, i, x, s) ==
  /\ s \in Seq(SpanType) /\ Len(s) = Len(r) /\ s[i] = x
  /\ \A j \in 1..Len(r) : j # i => s[j] = r[j]

LEMMA IsPut ==
  ASSUME NEW r \in Seq(SpanType), NEW i \in 1..Len(r), NEW x \in SpanType
  PROVE  Placing(r, i, x, Put(r, i, x))
BY PutIs DEF Placing

LEMMA Settled ==
  ASSUME NEW T \in TurnType, NEW i \in 1..Len(T.spans), NEW x \in SpanType,
         x.type = T.spans[i].type, x.by = T.spans[i].by, x.parent = T.spans[i].parent, ~ Due(x),
         T.spans[i].ended => x.ended, NEW s, s = [T.spans EXCEPT ![i] = x]
  PROVE  s \in Seq(SpanType) /\ Alike(T.spans, s) /\ s[i] = x
<1>1. PICK r \in Seq(SpanType) : r = T.spans
  BY DEF TurnType
<1>2. /\ Len(s) = Len(r) /\ s \in Seq(SpanType)
      /\ \A j \in 1..Len(r) : s[j] = IF j = i THEN x ELSE r[j]
  BY <1>1
<1> QED
  BY <1>1, <1>2 DEF Alike

LEMMA EndedIs ==
  ASSUME NEW T \in TurnType, NEW i \in 1..Len(T.spans)
  PROVE  \E s \in Seq(SpanType) :
           /\ Ended(T, i) = WithSpans(T, s) /\ Alike(T.spans, s) /\ ~ Due(s[i]) /\ s[i].ended
<1>1. PICK o \in SpanType : o = T.spans[i]
  BY DEF TurnType
<1>2. PICK x : x = MirrorEnd([o EXCEPT !.ended = TRUE])
  OBVIOUS
<1>3. /\ x \in SpanType /\ x.type = o.type /\ x.by = o.by /\ x.parent = o.parent
      /\ x.mirror # "open" /\ x.ended
  BY <1>2 DEF MirrorEnd, SpanType
<1>4. ~ Due(x)
  BY <1>3, Zenon DEF Due
<1>5. PICK s : s = [T.spans EXCEPT ![i] = x]
  OBVIOUS
<1>6. Ended(T, i) = WithSpans(T, s)
  BY <1>1, <1>2, <1>5 DEF Ended, WithSpans, TurnType
<1> QED
  BY <1>1, <1>3, <1>4, <1>5, <1>6, Settled

LEMMA RaisedIs ==
  ASSUME NEW T \in TurnType, NEW i \in 1..Len(T.spans), T.spans[i].type # "tool"
  PROVE  \E s \in Seq(SpanType) :
           Raised(T, i) = WithSpans(T, s) /\ Alike(T.spans, s) /\ ~ Due(s[i])
<1>1. PICK o \in SpanType : o = T.spans[i]
  BY DEF TurnType
<1>2. PICK x : x = MirrorEnd(o)
  OBVIOUS
<1>3. /\ x \in SpanType /\ x.type = o.type /\ x.by = o.by /\ x.parent = o.parent
      /\ x.mirror # "open" /\ (o.ended => x.ended)
  BY <1>2 DEF MirrorEnd, SpanType
<1>4. ~ Due(x)
  BY <1>1, <1>3, Zenon DEF Due
<1>5. PICK s : s = [T.spans EXCEPT ![i] = x]
  OBVIOUS
<1>6. Raised(T, i) = WithSpans(T, s)
  BY <1>1, <1>2, <1>5 DEF Raised, WithSpans, TurnType
<1> QED
  BY <1>1, <1>3, <1>4, <1>5, <1>6, Settled, SMTT(60)

LEMMA ToolRaisedIs ==
  ASSUME NEW T \in TurnType, NEW i \in 1..Len(T.spans)
  PROVE  \E s \in Seq(SpanType) :
           ToolRaised(T, i) = WithSpans(T, s) /\ Alike(T.spans, s) /\ ~ Due(s[i])
<1>1. PICK o \in SpanType : o = T.spans[i]
  BY DEF TurnType
<1>2. PICK y : y = MirrorEnd(o)
  OBVIOUS
<1>3. PICK x : x = [y EXCEPT !.ended = TRUE]
  OBVIOUS
<1>4. /\ x \in SpanType /\ x.type = o.type /\ x.by = o.by /\ x.parent = o.parent
      /\ x.mirror # "open" /\ x.ended
  BY <1>2, <1>3 DEF MirrorEnd, SpanType
<1>5. ~ Due(x)
  BY <1>4, Zenon DEF Due
<1>6. PICK s : s = [T.spans EXCEPT ![i] = x]
  OBVIOUS
<1>7. ToolRaised(T, i) = WithSpans(T, s)
  <2>1. T.spans \in Seq(SpanType)
    BY DEF TurnType
  <2>2. Raised(T, i) = WithSpans(T, [T.spans EXCEPT ![i] = y])
    BY <1>1, <1>2 DEF Raised, WithSpans, TurnType
  <2>3. [T.spans EXCEPT ![i] = y][i] = y
    BY <2>1
  <2>4. [[T.spans EXCEPT ![i] = y] EXCEPT ![i] = x] = [T.spans EXCEPT ![i] = x]
    BY <2>1
  <2> QED
    BY <1>3, <1>6, <2>1, <2>2, <2>3, <2>4 DEF ToolRaised, WithSpans, TurnType
<1> QED
  BY <1>1, <1>4, <1>5, <1>6, <1>7, Settled

\* The span x is opened by the turn, or under one of its own.
OpensSpan(T, type, by, parent, x, s) ==
  /\ Opened(T, type, by, parent) = WithSpans(T, s)
  /\ x.type = type /\ x.by = by /\ x.parent = parent
  /\ Len(s) = Len(T.spans) + 1 /\ s[Len(s)] = x
  /\ \A i \in 1..Len(T.spans) : s[i] = T.spans[i]

LEMMA OpenedIs ==
  ASSUME NEW T \in TurnType, NEW type \in {"llm", "tool", "retriever"}, NEW by \in Nat,
         NEW parent \in 1..Len(T.spans)
  PROVE  \E x \in SpanType, s \in Seq(SpanType) : OpensSpan(T, type, by, parent, x, s)
<1>1. PICK mirror \in {"none", "open", "ended"} :
        mirror = IF T.spans[parent].mirror = "none" THEN "none" ELSE "open"
  OBVIOUS
<1>2. PICK x : x = Span(type, by, parent, mirror)
  OBVIOUS
<1>3. x \in SpanType /\ x.type = type /\ x.by = by /\ x.parent = parent
  BY <1>2 DEF Span, SpanType, TurnType
<1>4. PICK s : s = Append(T.spans, x)
  OBVIOUS
<1>5. /\ s \in Seq(SpanType) /\ Len(s) = Len(T.spans) + 1 /\ s[Len(s)] = x
      /\ \A i \in 1..Len(T.spans) : s[i] = T.spans[i]
  BY <1>3, <1>4 DEF TurnType
<1>6. Opened(T, type, by, parent) = WithSpans(T, s)
  BY <1>1, <1>2, <1>4 DEF Opened, WithSpans, TurnType
<1> QED
  BY <1>3, <1>4, <1>5, <1>6 DEF OpensSpan

LEMMA WithSpansIs ==
  ASSUME NEW T \in TurnType, NEW s \in Seq(SpanType)
  PROVE  /\ WithSpans(T, s) \in TurnType /\ WithSpans(T, s).spans = s
         /\ WithSpans(T, s).at = T.at /\ WithSpans(T, s).tasks = T.tasks
         /\ WithSpans(T, s).thread = T.thread /\ WithSpans(T, s).seq = T.seq
         /\ WithSpans(T, s).rounds = T.rounds /\ WithSpans(T, s).next = T.next
         /\ WithSpans(T, s).lastSet = T.lastSet
BY DEF WithSpans, TurnType

Grows(r, s) == Len(s) = Len(r) + 1 /\ \A i \in 1..Len(r) : s[i] = r[i]

LEMMA AlikeTransitive ==
  ASSUME NEW q \in Seq(SpanType), NEW r \in Seq(SpanType), NEW s \in Seq(SpanType),
         Alike(q, r), Alike(r, s)
  PROVE  Alike(q, s)
BY DEF Alike

LEMMA AlikeNests ==
  ASSUME NEW r \in Seq(SpanType), NEW s \in Seq(SpanType), Alike(r, s), Nested(r)
  PROVE  Nested(s)
BY SMTT(60) DEF Alike, Nested, Root

LEMMA GrowsNests ==
  ASSUME NEW r \in Seq(SpanType), NEW s \in Seq(SpanType), Grows(r, s), Nested(r), Len(r) > 0,
         NEW x, x = s[Len(s)],
         IF x.type = "retriever"
         THEN x.parent \in 1..Len(r) /\ r[x.parent].type = "tool" /\ r[x.parent].by = x.by
         ELSE x.type \in {"llm", "tool"} /\ x.parent = Root
  PROVE  Nested(s)
<1>1. /\ Len(r) \in Nat \ {0} /\ Len(s) = Len(r) + 1 /\ s[Len(r) + 1] = x
      /\ \A i \in 1..Len(r) : s[i] = r[i]
  BY DEF Grows
<1>2. s[Root].parent = 0
  BY <1>1 DEF Nested, Root
<1>3. ASSUME NEW i \in 2..Len(s)
      PROVE  IF s[i].type = "retriever"
             THEN /\ s[i].parent \in 1..(i - 1) /\ s[s[i].parent].type = "tool"
                  /\ s[s[i].parent].by = s[i].by
             ELSE s[i].type \in {"llm", "tool"} /\ s[i].parent = Root
  <2>1. CASE i = Len(r) + 1
    BY <1>1, <2>1
  <2>2. CASE i \in 2..Len(r)
    <3>1. s[i] = r[i] /\ \A j \in 1..(i - 1) : s[j] = r[j]
      BY <1>1, <2>2
    <3> QED
      BY <2>2, <3>1, SMTT(60) DEF Nested
  <2> QED
    BY <1>1, <2>1, <2>2
<1> QED
  BY <1>2, <1>3 DEF Nested

LEMMA TaskStaysSound ==
  ASSUME NEW r \in Seq(SpanType), NEW s \in Seq(SpanType), Alike(r, s) \/ Grows(r, s),
         NEW k, NEW c \in TaskType, TaskSound(r, k, c)
  PROVE  TaskSound(s, k, c)
<1>1. /\ Len(r) \in Nat /\ Len(s) \in Nat /\ Len(s) >= Len(r)
      /\ \A i \in 1..Len(r) : s[i].type = r[i].type /\ s[i].by = r[i].by
  BY DEF Alike, Grows
<1> QED
  BY <1>1 DEF TaskSound

\* The end of a round: its span is closed and nobody is at work.
LEMMA RoundOver ==
  ASSUME NEW T, TurnSound(T), Thinks(T), NEW s \in Seq(SpanType), Alike(T.spans, s),
         ~ Due(s[Len(s)]), NEW U \in TurnType, U.spans = s, U.thread = T.thread,
         U.at \in {"yielding", "closing", "lost"},
         U.at = "yielding" => U.next \in {"tools", "closing"},
         U.at = "yielding" /\ U.next = "tools" => Len(U.tasks) > 0 /\ U.seq = NoSeq,
         \A k \in 1..Len(U.tasks) : ~ Busy(U.tasks[k]) /\ U.tasks[k].parent = Root
  PROVE  TurnSound(U)
<1>1. /\ T \in TurnType /\ Placed(T) /\ Nested(T.spans) /\ TasksSound(T) /\ Owed(T)
      /\ T.spans \in Seq(SpanType) /\ U.spans \in Seq(SpanType)
  BY DEF TurnSound, TurnType
<1>2. /\ ~ Thinks(U) /\ ~ Calls(T)
      /\ T.thread \in Threads /\ Len(T.spans) > 1 /\ Len(s) = Len(T.spans)
  BY <1>1 DEF Thinks, Calls, Placed, Bound, Alike
<1>3. Placed(U)
  BY <1>2 DEF Placed, Called, Thinks, Answered
<1>4. Nested(U.spans)
  BY <1>1, AlikeNests
<1>5. TasksSound(U)
  BY DEF TasksSound, TaskSound, Busy
<1>6. \A k \in 1..Len(T.tasks) : ~ Busy(T.tasks[k])
  BY <1>1, <1>2 DEF TasksSound
<1>7. \A i \in 2..Len(s) : ~ Due(s[i])
  BY <1>1, <1>2, <1>6, SMTT(60) DEF Owed, Alike, Closes
<1>8. Owed(U)
  BY <1>7 DEF Owed
<1> QED
  BY <1>3, <1>4, <1>5, <1>8 DEF TurnSound

\* The turn goes on somewhere else, with its spans and tasks as they are.
LEMMA Moved ==
  ASSUME NEW T, TurnSound(T), NEW U \in TurnType, U.spans = T.spans, U.tasks = T.tasks, Placed(U),
         Thinks(T) => Thinks(U),
         Calls(U) \/ \A k \in 1..Len(T.tasks) : ~ Busy(T.tasks[k])
  PROVE  TurnSound(U)
<1>1. Nested(U.spans)
  BY DEF TurnSound
<1>2. TasksSound(U)
  BY DEF TurnSound, TasksSound
<1>3. Owed(U)
  BY DEF TurnSound, Owed
<1> QED
  BY <1>1, <1>2, <1>3 DEF TurnSound

\* One call of a reply goes on: its task becomes c, the spans s.
LEMMA Worked ==
  ASSUME NEW T, TurnSound(T), Calls(T), NEW k \in 1..Len(T.tasks), NEW c \in TaskType,
         NEW s \in Seq(SpanType), Alike(T.spans, s) \/ Grows(T.spans, s), Nested(s),
         NEW U \in TurnType, U.at = T.at, U.thread = T.thread, U.seq = T.seq, U.spans = s,
         U.tasks = [T.tasks EXCEPT ![k] = c],
         TaskSound(s, k, c),
         \A i \in 2..Len(s) :
           Due(s[i]) => \/ Closes(c, i)
                        \/ i <= Len(T.spans) /\ Due(T.spans[i]) /\ ~ Closes(T.tasks[k], i)
  PROVE  TurnSound(U)
<1>1. /\ T \in TurnType /\ Placed(T) /\ TasksSound(T) /\ Owed(T)
      /\ T.spans \in Seq(SpanType) /\ T.tasks \in Seq(TaskType)
  BY DEF TurnSound, TurnType
<1>2. /\ Len(U.tasks) = Len(T.tasks) /\ Len(T.tasks) \in Nat /\ U.tasks[k] = c
      /\ \A j \in 1..Len(T.tasks) : j # k => U.tasks[j] = T.tasks[j]
      /\ \A j \in 1..Len(T.tasks) : T.tasks[j] \in TaskType
  BY <1>1
<1>3. ~ Thinks(T) /\ ~ Thinks(U) /\ Calls(U) /\ Len(s) >= Len(T.spans)
  BY <1>1 DEF Thinks, Calls, Alike, Grows
<1>4. Placed(U)
  <2>1. T.at \in {"over", "gone"} => ~ Due(s[Root]) /\ s[Root].ended
    <3> SUFFICES ASSUME T.at \in {"over", "gone"}
                 PROVE  ~ Due(s[Root]) /\ s[Root].ended
      OBVIOUS
    <3>1. Len(T.spans) > 0 /\ ~ Due(T.spans[Root]) /\ T.spans[Root].ended
      BY <1>1 DEF Placed
    <3>2. Root \in 1..Len(T.spans)
      BY <1>1, <3>1 DEF Root
    <3> QED
      BY <3>1, <3>2 DEF Alike, Grows
  <2>2. T.at # "new" /\ T.at # "yielding" /\ T.at # "thinking"
    BY DEF Calls
  <2>3. T.seq # NoSeq => Answered(U)
    BY <1>1, <2>2 DEF Placed, Answered
  <2>4. Called(U) => Len(U.tasks) > 0
    BY <1>1, <1>2, <2>2 DEF Placed, Called
  <2>5. Bound(U) => U.thread \in Threads
    BY <1>1 DEF Placed, Bound
  <2>6. Len(U.spans) > 0
    BY <1>1, <1>3, <2>2 DEF Placed
  <2> QED
    BY <1>3, <2>1, <2>2, <2>3, <2>4, <2>5, <2>6 DEF Placed
<1>5. TasksSound(U)
  <2> SUFFICES ASSUME NEW j \in 1..Len(T.tasks)
               PROVE  TaskSound(s, j, U.tasks[j])
    BY <1>2, <1>3 DEF TasksSound
  <2>1. CASE j = k
    BY <1>2, <2>1
  <2>2. CASE j # k
    <3>1. TaskSound(T.spans, j, T.tasks[j])
      BY <1>1 DEF TasksSound
    <3>2. TaskSound(s, j, T.tasks[j])
      BY <1>1, <1>2, <3>1, TaskStaysSound
    <3> QED
      BY <1>2, <2>2, <3>2
  <2> QED
    BY <2>1, <2>2
<1>6. Owed(U)
  <2> SUFFICES ASSUME NEW i \in 2..Len(s), Due(s[i])
               PROVE  \E j \in 1..Len(U.tasks) : Closes(U.tasks[j], i)
    BY DEF Owed
  <2>1. CASE Closes(c, i)
    BY <1>2, <2>1
  <2>2. CASE i <= Len(T.spans) /\ Due(T.spans[i]) /\ ~ Closes(T.tasks[k], i)
    <3>1. PICK j \in 1..Len(T.tasks) : Closes(T.tasks[j], i)
      BY <1>1, <1>3, <2>2 DEF Owed
    <3> QED
      BY <1>2, <2>2, <3>1
  <2> QED
    BY <2>1, <2>2
<1> QED
  BY <1>4, <1>5, <1>6 DEF TurnSound

-----------------------------------------------------------------------------
(* The steps of a turn.                                                    *)

Ready(t) == TurnSound(turn[t]) /\ seqs \in [Threads -> Nat] /\ active \in Threads

\* The anchor of a turn, once bound, is above all that its thread held before.
Anchored(T, U) ==
  \/ U.seq = NoSeq
  \/ U.seq = T.seq /\ U.thread = T.thread
  \/ U.thread \in Threads /\ seqs[U.thread] < U.seq /\ U.seq <= seqs'[U.thread]

\* A turn that is over stays where it is, and an anchor that is bound stays bound.
Onward(T, U) ==
  /\ T.at \in {"over", "gone"} => U.at = T.at
  /\ U.at = "gone" => T.at = "gone"
  /\ T.at \in {"over", "gone"} \/ T.seq # NoSeq => U.seq = T.seq /\ U.thread = T.thread

Goes(t, U) ==
  /\ turn' = [turn EXCEPT ![t] = U] /\ TurnSound(U)
  /\ Anchored(turn[t], U) /\ Onward(turn[t], U)
  /\ seqs' \in [Threads -> Nat] /\ \A th \in Threads : seqs[th] <= seqs'[th]

LEMMA StoredIs ==
  ASSUME seqs \in [Threads -> Nat], NEW th \in Threads, NEW n \in Nat,
         seqs' = [seqs EXCEPT ![th] = @ + n]
  PROVE  /\ seqs' \in [Threads -> Nat] /\ \A x \in Threads : seqs[x] <= seqs'[x]
         /\ seqs'[th] = seqs[th] + n /\ seqs[th] \in Nat
OBVIOUS

LEMMA Waits ==
  ASSUME NEW t \in Turns, Ready(t), UNCHANGED seqs
  PROVE  seqs' \in [Threads -> Nat] /\ \A th \in Threads : seqs[th] <= seqs'[th]
<1>1. \A th \in Threads : seqs[th] \in Nat
  BY DEF Ready
<1> QED
  BY <1>1 DEF Ready

LEMMA BeginGoes ==
  ASSUME NEW t \in Turns, Ready(t), Begin(t)
  PROVE  \E U : Goes(t, U)
<1>1. PICK m \in {"open", "none"} :
        Become(t, [NoTurn EXCEPT !.at = "opened", !.spans = <<Span("agent", 0, 0, m)>>])
  BY DEF Begin
<1>2. PICK x : x = Span("agent", 0, 0, m)
  OBVIOUS
<1>3. PICK U : U = [NoTurn EXCEPT !.at = "opened", !.spans = <<x>>]
  OBVIOUS
<1>4. x \in SpanType
  BY <1>2 DEF Span, SpanType
<1>5. /\ U \in TurnType /\ U.at = "opened" /\ U.spans = <<x>> /\ U.tasks = <<>> /\ U.seq = NoSeq
  <2>1. <<x>> \in Seq(SpanType) /\ <<>> \in Seq(TaskType) /\ 0 \in 0..MaxRounds
    BY <1>4, TraceAssumption
  <2>2. U = [at |-> "opened", spans |-> <<x>>, tasks |-> <<>>, thread |-> NoThread, seq |-> NoSeq,
             rounds |-> 0, next |-> "none", lastSet |-> Root]
    BY <1>3 DEF NoTurn
  <2> QED
    BY <2>1, <2>2 DEF TurnType, Places, NoSeq, Root
<1>6. Placed(U)
  BY <1>5 DEF Placed, Bound, Called, Thinks, Answered
<1>7. Nested(U.spans) /\ TasksSound(U) /\ Owed(U)
  <2>1. x.parent = 0 /\ Len(U.spans) = 1 /\ U.spans[1] = x /\ Len(U.tasks) = 0
    BY <1>2, <1>5 DEF Span
  <2> QED
    BY <2>1 DEF Nested, TasksSound, Owed, Root
<1>8. Onward(turn[t], U)
  <2>1. TurnSound(turn[t]) /\ turn[t].at = "new"
    BY DEF Ready, Begin, Is
  <2>2. turn[t].seq = NoSeq
    BY <2>1 DEF TurnSound, Placed, Answered
  <2> QED
    BY <1>5, <2>1, <2>2 DEF Onward
<1> QED
  BY <1>1, <1>2, <1>3, <1>5, <1>6, <1>7, <1>8, Waits DEF Goes, Become, Begin, TurnSound, Anchored

\* A round begins: its span hangs under the root.
LEMMA ThinkingIs ==
  ASSUME NEW T, TurnSound(T), T.at \in {"opened", "reported"}, NEW V \in TurnType,
         V.spans = T.spans, V.thread \in Threads, V.seq = NoSeq,
         \A k \in 1..Len(V.tasks) : ~ Busy(V.tasks[k]) /\ V.tasks[k].parent = Root
  PROVE  /\ TurnSound(Thinking(V)) /\ Thinking(V).at = "thinking"
         /\ Thinking(V).thread = V.thread /\ Thinking(V).seq = V.seq
<1>1. /\ T \in TurnType /\ Placed(T) /\ Nested(T.spans) /\ TasksSound(T) /\ Owed(T)
      /\ V.spans \in Seq(SpanType) /\ Len(V.spans) > 0
  BY DEF TurnSound, TurnType, Placed
<1>2. Root \in 1..Len(V.spans)
  BY <1>1 DEF Root
<1>3. PICK x \in SpanType, s \in Seq(SpanType) : OpensSpan(V, "llm", 0, Root, x, s)
  <2>1. "llm" \in {"llm", "tool", "retriever"} /\ 0 \in Nat
    OBVIOUS
  <2> QED
    BY <1>2, <2>1, OpenedIs
<1>4. PICK U : U = At(WithSpans(V, s), "thinking")
  OBVIOUS
<1>5. /\ U \in TurnType /\ U.at = "thinking" /\ U.spans = s /\ U.tasks = V.tasks
      /\ U.thread = V.thread /\ U.seq = V.seq
  <2>1. PICK W \in TurnType :
          /\ W = WithSpans(V, s) /\ W.spans = s /\ W.tasks = V.tasks
          /\ W.thread = V.thread /\ W.seq = V.seq
    BY WithSpansIs
  <2> QED
    BY <1>4, <2>1, ZenonT(60) DEF At, TurnType, Places
<1>6. Thinks(U) /\ ~ Called(U)
  BY <1>5 DEF Thinks, Called
<1>7. Placed(U)
  BY <1>1, <1>3, <1>5, <1>6 DEF Placed, Bound, OpensSpan, Answered
<1>8. Nested(s)
  BY <1>1, <1>3, GrowsNests, SMTT(60) DEF Grows, OpensSpan
<1>9. TasksSound(U)
  BY <1>5 DEF TasksSound, TaskSound, Busy
<1>10. \A k \in 1..Len(T.tasks) : ~ Busy(T.tasks[k])
  BY <1>1 DEF TasksSound, Calls
<1>11. \A i \in 2..Len(T.spans) : ~ Due(T.spans[i])
  BY <1>1, <1>10 DEF Owed, Thinks, Closes
<1>12. Owed(U)
  BY <1>1, <1>3, <1>5, <1>6, <1>11 DEF Owed, OpensSpan
<1> QED
  BY <1>3, <1>4, <1>5, <1>7, <1>8, <1>9, <1>12 DEF TurnSound, Thinking, OpensSpan

LEMMA BindGoes ==
  ASSUME NEW t \in Turns, Ready(t), Bind(t)
  PROVE  \E U : Goes(t, U)
<1>1. PICK T : T = turn[t]
  OBVIOUS
<1>2. PICK th \in Threads : th = active
  BY DEF Ready
<1>3. TurnSound(T) /\ T.at = "opened" /\ T \in TurnType /\ T.seq = NoSeq
  BY <1>1 DEF Ready, Bind, Is, TurnSound, Placed, Answered
<1>4. PICK V : V = [T EXCEPT !.thread = th]
  OBVIOUS
<1>5. /\ V \in TurnType /\ V.spans = T.spans /\ V.thread = th /\ V.tasks = T.tasks /\ V.seq = NoSeq
  BY <1>3, <1>4, SMTT(60), ZenonT(60) DEF TurnType
<1>6. \A k \in 1..Len(V.tasks) : ~ Busy(V.tasks[k]) /\ V.tasks[k].parent = Root
  BY <1>3, <1>5 DEF TurnSound, TasksSound, TaskSound, Calls
<1>7. TurnSound(Thinking(V)) /\ Thinking(V).at = "thinking" /\ Thinking(V).seq = NoSeq
  BY <1>3, <1>5, <1>6, ThinkingIs
<1>8. turn' = [turn EXCEPT ![t] = Thinking(V)]
  BY <1>1, <1>2, <1>4 DEF Bind, Become
<1>9. seqs' \in [Threads -> Nat] /\ \A x \in Threads : seqs[x] <= seqs'[x]
  BY StoredIs DEF Ready, Bind
<1> QED
  BY <1>1, <1>3, <1>7, <1>8, <1>9 DEF Goes, Anchored, Onward

\* Between rounds and calls nothing is due but the root.
LEMMA NothingDue ==
  ASSUME NEW T, TurnSound(T), ~ Thinks(T), ~ Calls(T)
  PROVE  /\ \A i \in 2..Len(T.spans) : ~ Due(T.spans[i])
         /\ \A k \in 1..Len(T.tasks) : ~ Busy(T.tasks[k]) /\ T.tasks[k].parent = Root
<1>1. \A k \in 1..Len(T.tasks) : ~ Busy(T.tasks[k]) /\ T.tasks[k].parent = Root
  BY SMTT(60) DEF TurnSound, TasksSound, TaskSound
<1> QED
  BY <1>1 DEF TurnSound, Owed, Closes

LEMMA Rests ==
  ASSUME NEW U \in TurnType, Placed(U), Nested(U.spans),
         \A i \in 2..Len(U.spans) : ~ Due(U.spans[i]),
         \A k \in 1..Len(U.tasks) : ~ Busy(U.tasks[k]) /\ U.tasks[k].parent = Root
  PROVE  TurnSound(U)
<1>1. TasksSound(U)
  BY DEF TasksSound, TaskSound, Busy
<1> QED
  BY <1>1 DEF TurnSound, Owed

LEMMA DeltaGoes ==
  ASSUME NEW t \in Turns, Ready(t), Delta(t)
  PROVE  \E U : Goes(t, U)
<1>1. PICK T : T = turn[t]
  OBVIOUS
<1>2. PICK U : U = Yield(T, "thinking")
  OBVIOUS
<1>3. TurnSound(T) /\ T.at = "thinking" /\ T \in TurnType
  BY <1>1 DEF Ready, Delta, Is, TurnSound
<1>4. /\ U \in TurnType /\ U.at = "yielding" /\ U.next = "thinking"
      /\ U.spans = T.spans /\ U.tasks = T.tasks /\ U.thread = T.thread /\ U.seq = T.seq
  BY <1>2, <1>3 DEF Yield, TurnType, Places
<1>5. Placed(U)
  BY <1>3, <1>4 DEF TurnSound, Placed, Bound, Called, Thinks, Answered
<1>6. TurnSound(U)
  BY <1>3, <1>4, <1>5, Moved DEF Thinks, TurnSound, TasksSound, Calls
<1>7. turn' = [turn EXCEPT ![t] = U] /\ UNCHANGED seqs
  BY <1>1, <1>2 DEF Delta, Become
<1> QED
  BY <1>1, <1>3, <1>4, <1>6, <1>7, Waits DEF Goes, Anchored, Onward

\* What the model's span is while a round runs.
LEMMA RoundSpan ==
  ASSUME NEW T, TurnSound(T), Thinks(T)
  PROVE  /\ T \in TurnType /\ Len(T.spans) \in 2..Len(T.spans) /\ Len(T.spans) \in 1..Len(T.spans)
         /\ T.spans[Len(T.spans)].type # "tool" /\ T.thread \in Threads /\ T.seq = NoSeq
         /\ \A k \in 1..Len(T.tasks) : ~ Busy(T.tasks[k]) /\ T.tasks[k].parent = Root
<1>1. ~ Calls(T)
  BY DEF Thinks, Calls
<1>2. \A k \in 1..Len(T.tasks) : ~ Busy(T.tasks[k]) /\ T.tasks[k].parent = Root
  BY <1>1 DEF TurnSound, TasksSound, TaskSound
<1>3. T.seq = NoSeq
  BY DEF TurnSound, Placed, Answered, Thinks
<1> QED
  BY <1>2, <1>3 DEF TurnSound, Placed, Bound, Thinks, TurnType

LEMMA RoundFailsGoes ==
  ASSUME NEW t \in Turns, Ready(t), RoundFails(t)
  PROVE  \E U : Goes(t, U)
<1>1. PICK T : T = turn[t]
  OBVIOUS
<1>2. TurnSound(T) /\ T.at = "thinking" /\ Thinks(T)
  BY <1>1 DEF Ready, RoundFails, Is, Thinks
<1>3. PICK s \in Seq(SpanType) :
        Raised(T, Len(T.spans)) = WithSpans(T, s) /\ Alike(T.spans, s) /\ ~ Due(s[Len(T.spans)])
  BY <1>2, RoundSpan, RaisedIs
<1>4. PICK W \in TurnType :
        /\ W = WithSpans(T, s) /\ W.spans = s /\ W.tasks = T.tasks
        /\ W.thread = T.thread /\ W.seq = T.seq
  BY <1>2, RoundSpan, WithSpansIs
<1>5. PICK U : U = Yield(W, "closing")
  OBVIOUS
<1>6. /\ U \in TurnType /\ U.at = "yielding" /\ U.next = "closing" /\ U.spans = s
      /\ U.tasks = T.tasks /\ U.thread = T.thread /\ U.seq = T.seq
  BY <1>4, <1>5, ZenonT(60) DEF Yield, TurnType, Places
<1>7. TurnSound(U)
  <2>1. ~ Due(s[Len(s)])
    BY <1>3 DEF Alike
  <2> QED
    BY <1>2, <1>3, <1>6, <2>1, RoundSpan, RoundOver, ZenonT(60)
<1>8. turn' = [turn EXCEPT ![t] = U] /\ UNCHANGED seqs
  BY <1>1, <1>3, <1>4, <1>5 DEF RoundFails, Become
<1> QED
  BY <1>1, <1>2, <1>6, <1>7, <1>8, Waits DEF Goes, Anchored, Onward

LEMMA RoundAnswersGoes ==
  ASSUME NEW t \in Turns, Ready(t), RoundAnswers(t)
  PROVE  \E U : Goes(t, U)
<1>1. PICK T : T = turn[t]
  OBVIOUS
<1>2. TurnSound(T) /\ T.at = "thinking" /\ Thinks(T)
  BY <1>1 DEF Ready, RoundAnswers, Is, Thinks
<1>3. PICK s \in Seq(SpanType) :
        Ended(T, Len(T.spans)) = WithSpans(T, s) /\ Alike(T.spans, s) /\ ~ Due(s[Len(T.spans)])
  BY <1>2, RoundSpan, EndedIs
<1>4. PICK W \in TurnType :
        /\ W = WithSpans(T, s) /\ W.spans = s /\ W.tasks = T.tasks
        /\ W.thread = T.thread /\ W.seq = T.seq
  BY <1>2, RoundSpan, WithSpansIs
<1>5. PICK n \in Nat : n = seqs[T.thread] + 1
  BY <1>2, RoundSpan, SMTT(60) DEF Ready
<1>6. PICK U : U = Yield([W EXCEPT !.seq = n], "closing")
  OBVIOUS
<1>7. /\ U \in TurnType /\ U.at = "yielding" /\ U.next = "closing" /\ U.spans = s
      /\ U.tasks = T.tasks /\ U.thread = T.thread /\ U.seq = n
  BY <1>4, <1>6, ZenonT(60) DEF Yield, TurnType, Places
<1>8. TurnSound(U)
  <2>1. ~ Due(s[Len(s)])
    BY <1>3 DEF Alike
  <2> QED
    BY <1>2, <1>3, <1>7, <2>1, RoundSpan, RoundOver, SMTT(60), ZenonT(60)
<1>9. turn' = [turn EXCEPT ![t] = U]
  BY <1>1, <1>3, <1>4, <1>5, <1>6 DEF RoundAnswers, Become, Stamped
<1>10. /\ seqs' \in [Threads -> Nat] /\ \A x \in Threads : seqs[x] <= seqs'[x]
       /\ seqs'[T.thread] = n /\ seqs[T.thread] < n
  BY <1>1, <1>2, <1>5, RoundSpan, StoredIs, SMTT(60) DEF Ready, RoundAnswers, Stored
<1>11. Anchored(T, U)
  BY <1>2, <1>5, <1>7, <1>10, RoundSpan DEF Anchored
<1>12. Onward(T, U)
  <2>1. T.seq = NoSeq
    BY <1>2, RoundSpan
  <2> QED
    BY <1>2, <1>7, <2>1 DEF Onward
<1> QED
  BY <1>1, <1>2, <1>7, <1>8, <1>9, <1>10, <1>11, <1>12 DEF Goes

LEMMA RoundCallsGoes ==
  ASSUME NEW t \in Turns, Ready(t), RoundCalls(t)
  PROVE  \E U : Goes(t, U)
<1>1. PICK T : T = turn[t]
  OBVIOUS
<1>2. TurnSound(T) /\ T.at = "thinking" /\ Thinks(T) /\ T.rounds < MaxRounds
  BY <1>1 DEF Ready, RoundCalls, Is, Thinks
<1>3. PICK s \in Seq(SpanType) :
        Ended(T, Len(T.spans)) = WithSpans(T, s) /\ Alike(T.spans, s) /\ ~ Due(s[Len(T.spans)])
  <2>1. T \in TurnType /\ Len(T.spans) \in 1..Len(T.spans)
    BY <1>2, RoundSpan
  <2> QED
    BY <2>1, EndedIs, ZenonT(60)
<1>4. PICK W \in TurnType :
        /\ W = WithSpans(T, s) /\ W.spans = s /\ W.tasks = T.tasks /\ W.rounds = T.rounds
        /\ W.thread = T.thread /\ W.seq = T.seq
  BY <1>2, RoundSpan, WithSpansIs, SMTT(60)
<1>5. PICK kinds \in Replies[t] :
        Become(t, [Yield(Ended(T, Len(T.spans)), "tools") EXCEPT
                     !.rounds = @ + 1, !.tasks = [k \in DOMAIN kinds |-> Task(kinds[k])]])
  BY <1>1, ZenonT(60) DEF RoundCalls
<1>6. kinds \in Seq({"kb", "plain"}) /\ Len(kinds) \in Nat \ {0} /\ DOMAIN kinds = 1..Len(kinds)
  BY TraceAssumption
<1>7. PICK tasks : tasks = [k \in 1..Len(kinds) |-> Task(kinds[k])]
  OBVIOUS
<1>8. /\ tasks \in Seq(TaskType) /\ Len(tasks) = Len(kinds)
      /\ \A k \in 1..Len(tasks) : tasks[k].at = "ready" /\ tasks[k].parent = Root
  BY <1>6, <1>7 DEF TaskType, Task, Root
<1>9. PICK U : U = [Yield(W, "tools") EXCEPT !.rounds = @ + 1, !.tasks = tasks]
  OBVIOUS
<1>10. /\ U \in TurnType /\ U.at = "yielding" /\ U.next = "tools" /\ U.spans = s
       /\ U.tasks = tasks /\ U.thread = T.thread /\ U.seq = T.seq
  <2>1. W.rounds + 1 \in 0..MaxRounds
    BY <1>2, <1>4, RoundSpan, TraceAssumption, SMTT(60) DEF TurnType
  <2> QED
    BY <1>4, <1>8, <1>9, <2>1, ZenonT(60) DEF Yield, TurnType, Places
<1>11. TurnSound(U)
  <2>1. ~ Due(s[Len(s)])
    BY <1>3 DEF Alike
  <2>2. /\ \A k \in 1..Len(U.tasks) : ~ Busy(U.tasks[k]) /\ U.tasks[k].parent = Root
        /\ Len(U.tasks) > 0
    BY <1>6, <1>8, <1>10 DEF Busy
  <2>3. U.seq = NoSeq
    BY <1>2, <1>10, RoundSpan
  <2> QED
    BY <1>2, <1>3, <1>10, <2>1, <2>2, <2>3, RoundOver
<1>12. turn' = [turn EXCEPT ![t] = U]
  BY <1>3, <1>4, <1>5, <1>6, <1>7, <1>9 DEF Become
<1>13. seqs' \in [Threads -> Nat] /\ \A x \in Threads : seqs[x] <= seqs'[x]
  BY <1>1, <1>2, RoundSpan, StoredIs DEF Ready, RoundCalls, Stored
<1> QED
  BY <1>1, <1>2, <1>10, <1>11, <1>12, <1>13 DEF Goes, Anchored, Onward

\* The turn goes on elsewhere and nothing else of it changes.
LEMMA MovedGoes ==
  ASSUME NEW t \in Turns, Ready(t), NEW T, T = turn[t], NEW U \in TurnType,
         turn' = [turn EXCEPT ![t] = U], UNCHANGED seqs,
         U.spans = T.spans, U.tasks = T.tasks, U.thread = T.thread, U.seq = T.seq,
         T.at \notin {"over", "gone"}, U.at # "gone",
         Placed(U), Thinks(T) => Thinks(U),
         Calls(U) \/ \A k \in 1..Len(T.tasks) : ~ Busy(T.tasks[k])
  PROVE  Goes(t, U)
<1>1. TurnSound(T)
  BY DEF Ready
<1>2. TurnSound(U)
  BY <1>1, Moved
<1>3. Anchored(T, U) /\ Onward(T, U)
  BY DEF Anchored, Onward
<1> QED
  BY <1>2, <1>3, Waits DEF Goes

\* Where nothing is called, no task is at work.
LEMMA NobodyBusy ==
  ASSUME NEW T, TurnSound(T), ~ Calls(T)
  PROVE  \A k \in 1..Len(T.tasks) : ~ Busy(T.tasks[k])
BY DEF TurnSound, TasksSound

LEMMA ResumeGoes ==
  ASSUME NEW t \in Turns, Ready(t), Resume(t)
  PROVE  \E U : Goes(t, U)
<1>1. PICK T \in TurnType : T = turn[t]
  BY DEF Ready, TurnSound
<1>2. /\ TurnSound(T) /\ T.at = "yielding" /\ turn' = [turn EXCEPT ![t] = At(T, T.next)]
      /\ UNCHANGED seqs /\ Placed(T)
  BY <1>1 DEF Ready, Resume, Is, Become, TurnSound
<1>3. PICK place \in Places :
        place = T.next /\ place \in {"thinking", "tools", "reported", "closing"}
  BY <1>2 DEF Placed, Places
<1>4. PICK U : U = [T EXCEPT !.at = place]
  OBVIOUS
<1>5. U = At(T, T.next)
  BY <1>3, <1>4 DEF At
<1>6. /\ U \in TurnType /\ U.at = place /\ U.spans = T.spans /\ U.tasks = T.tasks
      /\ U.thread = T.thread /\ U.seq = T.seq
  BY <1>4 DEF TurnType
<1>7. Placed(U) /\ (Thinks(T) => Thinks(U)) /\ ~ Calls(T)
  BY <1>2, <1>3, <1>6 DEF Placed, Bound, Called, Thinks, Calls, Answered
<1>8. \A k \in 1..Len(T.tasks) : ~ Busy(T.tasks[k])
  BY <1>2, <1>7, NobodyBusy
<1>9. turn' = [turn EXCEPT ![t] = U] /\ T.at \notin {"over", "gone"} /\ U.at \notin {"over", "gone"}
  BY <1>2, <1>3, <1>5, <1>6
<1> QED
  BY <1>1, <1>2, <1>6, <1>7, <1>8, <1>9, MovedGoes

LEMMA ReportGoes ==
  ASSUME NEW t \in Turns, Ready(t), Report(t)
  PROVE  \E U : Goes(t, U)
<1>1. PICK T \in TurnType : T = turn[t]
  BY DEF Ready, TurnSound
<1>2. /\ TurnSound(T) /\ T.at = "tools" /\ AllEnded(T) /\ UNCHANGED seqs /\ Placed(T)
      /\ turn' = [turn EXCEPT ![t] = Yield(T, "reported")]
  BY <1>1 DEF Ready, Report, Is, Become, TurnSound
<1>3. PICK U : U = Yield(T, "reported")
  OBVIOUS
<1>4. /\ U \in TurnType /\ U.at = "yielding" /\ U.next = "reported" /\ U.spans = T.spans
      /\ U.tasks = T.tasks /\ U.thread = T.thread /\ U.seq = T.seq
  BY <1>3 DEF Yield, TurnType, Places
<1>5. Placed(U) /\ ~ Thinks(T)
  BY <1>2, <1>4 DEF Placed, Bound, Called, Thinks, Answered
<1>6. \A k \in 1..Len(T.tasks) : ~ Busy(T.tasks[k])
  <2>1. DOMAIN T.tasks = 1..Len(T.tasks)
    BY DEF TurnType
  <2> QED
    BY <1>2, <2>1 DEF AllEnded, Busy
<1> QED
  BY <1>1, <1>2, <1>3, <1>4, <1>5, <1>6, MovedGoes

LEMMA AfterToolsGoes ==
  ASSUME NEW t \in Turns, Ready(t), AfterTools(t)
  PROVE  \E U : Goes(t, U)
<1>1. PICK T \in TurnType : T = turn[t]
  BY DEF Ready, TurnSound
<1>2. PICK V : V = [T EXCEPT !.tasks = <<>>]
  OBVIOUS
<1>3. /\ TurnSound(T) /\ Placed(T) /\ Nested(T.spans) /\ T.at = "reported"
      /\ ~ Thinks(T) /\ ~ Calls(T) /\ T.seq = NoSeq
  BY <1>1 DEF Ready, AfterTools, Is, TurnSound, Thinks, Calls, Placed, Answered
<1>4. /\ T.thread \in Threads /\ Len(T.tasks) \in Nat \ {0} /\ Len(T.spans) > 0
      /\ \A i \in 2..Len(T.spans) : ~ Due(T.spans[i])
  BY <1>3, NothingDue DEF Placed, Bound, Called, TurnType
<1>5. /\ V \in TurnType /\ V.at = "reported" /\ V.spans = T.spans /\ V.tasks = <<>>
      /\ V.thread = T.thread /\ V.seq = T.seq
  <2>1. <<>> \in Seq(TaskType)
    OBVIOUS
  <2> QED
    BY <1>2, <1>3, <2>1 DEF TurnType
<1>6. PICK n \in Nat : n = seqs[T.thread] + Len(T.tasks) /\ seqs[T.thread] < n
  BY <1>4, SMTT(60) DEF Ready
<1>7. /\ seqs' \in [Threads -> Nat] /\ \A x \in Threads : seqs[x] <= seqs'[x]
      /\ seqs'[T.thread] = n
  <2>1. seqs' = [seqs EXCEPT ![T.thread] = @ + Len(T.tasks)]
    BY <1>1, <1>2, <1>5 DEF AfterTools, Stored
  <2> QED
    BY <1>4, <1>6, <2>1, StoredIs DEF Ready
<1>8. ASSUME NEW W \in TurnType, W.at = "yielding", W.next = "closing", W.spans = T.spans,
             W.tasks = <<>>, W.thread = T.thread, W.seq \in {T.seq, n},
             turn' = [turn EXCEPT ![t] = W]
      PROVE  Goes(t, W)
  <2>1. Placed(W)
    BY <1>4, <1>8 DEF Placed, Bound, Called, Thinks, Answered
  <2>2. TurnSound(W)
    <3>1. Len(W.tasks) = 0
      BY <1>8
    <3> QED
      BY <1>3, <1>4, <1>8, <2>1, <3>1, Rests
  <2>3. Anchored(T, W)
    BY <1>4, <1>6, <1>7, <1>8 DEF Anchored
  <2>4. Onward(T, W)
    BY <1>3, <1>8 DEF Onward
  <2> QED
    BY <1>1, <1>3, <1>7, <1>8, <2>2, <2>3, <2>4 DEF Goes
<1>9. CASE Become(t, Yield(Stamped(V, Len(T.tasks)), "closing"))
  <2>1. PICK W : W = Yield([V EXCEPT !.seq = n], "closing")
    OBVIOUS
  <2>2. W = Yield(Stamped(V, Len(T.tasks)), "closing")
    BY <1>5, <1>6, <2>1 DEF Stamped
  <2>3. /\ W \in TurnType /\ W.at = "yielding" /\ W.next = "closing" /\ W.spans = T.spans
        /\ W.tasks = <<>> /\ W.thread = T.thread /\ W.seq = n
    BY <1>5, <2>1 DEF Yield, TurnType, Places
  <2> QED
    BY <1>8, <1>9, <2>2, <2>3 DEF Become
<1>10. CASE Become(t, Yield(V, "closing"))
  <2>1. PICK W : W = Yield(V, "closing")
    OBVIOUS
  <2>2. /\ W \in TurnType /\ W.at = "yielding" /\ W.next = "closing" /\ W.spans = T.spans
        /\ W.tasks = <<>> /\ W.thread = T.thread /\ W.seq = T.seq
    BY <1>5, <2>1 DEF Yield, TurnType, Places
  <2> QED
    BY <1>8, <1>10, <2>1, <2>2 DEF Become
<1>11. CASE Become(t, Thinking(V))
  <2>1. Len(V.tasks) = 0
    BY <1>5
  <2>2. /\ TurnSound(Thinking(V)) /\ Thinking(V).at = "thinking"
        /\ Thinking(V).thread = T.thread /\ Thinking(V).seq = T.seq
    BY <1>3, <1>4, <1>5, <2>1, ThinkingIs
  <2>3. Anchored(T, Thinking(V)) /\ Onward(T, Thinking(V))
    BY <1>3, <2>2 DEF Anchored, Onward
  <2> QED
    BY <1>1, <1>3, <1>7, <1>11, <2>2, <2>3 DEF Goes, Become
<1> QED
  BY <1>1, <1>2, <1>9, <1>10, <1>11 DEF AfterTools

LEMMA CloseGoes ==
  ASSUME NEW t \in Turns, Ready(t), Close(t)
  PROVE  \E U : Goes(t, U) /\ U.at = "over"
<1>1. PICK T \in TurnType : T = turn[t]
  BY DEF Ready, TurnSound
<1>2. /\ TurnSound(T) /\ Placed(T) /\ Nested(T.spans) /\ T.at = "closing" /\ UNCHANGED seqs
      /\ turn' = [turn EXCEPT ![t] = Closed(T)] /\ ~ Thinks(T)
      /\ TasksSound(T) /\ Owed(T)
  BY <1>1 DEF Ready, Close, Is, Become, TurnSound, Thinks
<1>3. Root \in 1..Len(T.spans)
  BY <1>2 DEF Placed, Root, TurnType
<1>4. PICK s \in Seq(SpanType) :
        Ended(T, Root) = WithSpans(T, s) /\ Alike(T.spans, s) /\ ~ Due(s[Root]) /\ s[Root].ended
  BY <1>3, EndedIs
<1>5. PICK W \in TurnType :
        /\ W = WithSpans(T, s) /\ W.spans = s /\ W.tasks = T.tasks
        /\ W.thread = T.thread /\ W.seq = T.seq
  BY WithSpansIs
<1>6. PICK U : U = At(W, "over")
  OBVIOUS
<1>7. /\ U \in TurnType /\ U.at = "over" /\ U.spans = s /\ U.tasks = T.tasks
      /\ U.thread = T.thread /\ U.seq = T.seq
  BY <1>5, <1>6, SMTT(60), ZenonT(60) DEF At, TurnType, Places
<1>8. Len(s) = Len(T.spans) /\ Len(s) > 0
  BY <1>3, <1>4 DEF Alike, TurnType
<1>9. Placed(U)
  <2>1. /\ ~ Thinks(U) /\ ~ Called(U) /\ ~ Bound(U) /\ Answered(U)
        /\ U.at \notin {"new", "yielding"}
    BY <1>7 DEF Thinks, Called, Bound, Answered
  <2> QED
    BY <1>4, <1>7, <1>8, <2>1, Zenon DEF Placed
<1>10. Nested(s)
  BY <1>2, <1>4, AlikeNests DEF TurnType
<1>11. TasksSound(U)
  <2> SUFFICES ASSUME NEW k \in 1..Len(T.tasks)
               PROVE  TaskSound(s, k, T.tasks[k])
    BY <1>7 DEF TasksSound, Calls
  <2>1. TaskSound(T.spans, k, T.tasks[k])
    BY <1>2 DEF TasksSound
  <2>2. T.tasks[k] \in TaskType /\ T.spans \in Seq(SpanType)
    BY DEF TurnType
  <2> QED
    BY <1>4, <2>1, <2>2, TaskStaysSound
<1>12. Owed(U)
  BY <1>2, <1>4, <1>7, <1>8 DEF Owed, Alike
<1>13. TurnSound(U)
  BY <1>7, <1>9, <1>10, <1>11, <1>12 DEF TurnSound
<1>14. turn' = [turn EXCEPT ![t] = U]
  BY <1>2, <1>4, <1>5, <1>6 DEF Closed
<1> QED
  BY <1>1, <1>2, <1>7, <1>13, <1>14, Waits DEF Goes, Anchored, Onward

LEMMA CancelGoes ==
  ASSUME NEW t \in Turns, Ready(t), Cancel(t)
  PROVE  \E U : Goes(t, U)
<1>1. PICK T \in TurnType : T = turn[t]
  BY DEF Ready, TurnSound
<1>2. TurnSound(T) /\ Placed(T) /\ UNCHANGED seqs
  BY <1>1 DEF Ready, Cancel, TurnSound
<1>3. CASE T.at = "opened" /\ turn' = [turn EXCEPT ![t] = At(T, "closing")]
  <2>1. PICK U : U = At(T, "closing")
    OBVIOUS
  <2>2. /\ U \in TurnType /\ U.at = "closing" /\ U.spans = T.spans /\ U.tasks = T.tasks
        /\ U.thread = T.thread /\ U.seq = T.seq
    BY <2>1, SMTT(60), ZenonT(60) DEF At, TurnType, Places
  <2>3. Placed(U) /\ ~ Thinks(T) /\ ~ Calls(T)
    BY <1>2, <1>3, <2>2 DEF Placed, Bound, Called, Thinks, Calls, Answered
  <2> QED
    BY <1>1, <1>2, <1>3, <2>1, <2>2, <2>3, NobodyBusy, MovedGoes
<1>4. CASE T.at = "thinking" /\ turn' = [turn EXCEPT ![t] = At(Raised(T, Len(T.spans)), "closing")]
  <2>1. Thinks(T)
    BY <1>4 DEF Thinks
  <2>2. PICK s \in Seq(SpanType) :
          Raised(T, Len(T.spans)) = WithSpans(T, s) /\ Alike(T.spans, s) /\ ~ Due(s[Len(T.spans)])
    BY <1>2, <2>1, RoundSpan, RaisedIs
  <2>3. PICK W \in TurnType :
          /\ W = WithSpans(T, s) /\ W.spans = s /\ W.tasks = T.tasks
          /\ W.thread = T.thread /\ W.seq = T.seq
    BY WithSpansIs
  <2>4. PICK U : U = At(W, "closing")
    OBVIOUS
  <2>5. /\ U \in TurnType /\ U.at = "closing" /\ U.spans = s /\ U.tasks = T.tasks
        /\ U.thread = T.thread /\ U.seq = T.seq
    BY <2>3, <2>4, SMTT(60), ZenonT(60) DEF At, TurnType, Places
  <2>6. ~ Due(s[Len(s)])
    BY <2>2 DEF Alike
  <2>7. TurnSound(U)
    BY <1>2, <2>1, <2>2, <2>5, <2>6, RoundSpan, RoundOver, SMTT(60)
  <2>8. turn' = [turn EXCEPT ![t] = U]
    BY <1>4, <2>2, <2>3, <2>4
  <2> QED
    BY <1>1, <1>2, <1>4, <2>5, <2>7, <2>8, Waits DEF Goes, Anchored, Onward
<1>5. CASE T.at = "tools" /\ turn' = [turn EXCEPT ![t] = At(T, "cancelling")]
  <2>1. PICK U : U = At(T, "cancelling")
    OBVIOUS
  <2>2. /\ U \in TurnType /\ U.at = "cancelling" /\ U.spans = T.spans /\ U.tasks = T.tasks
        /\ U.thread = T.thread /\ U.seq = T.seq
    BY <2>1 DEF At, TurnType, Places
  <2>3. Placed(U) /\ ~ Thinks(T) /\ Calls(U)
    BY <1>2, <1>5, <2>2 DEF Placed, Bound, Called, Thinks, Calls, Answered
  <2> QED
    BY <1>1, <1>2, <1>5, <2>1, <2>2, <2>3, MovedGoes
<1> QED
  BY <1>1, <1>3, <1>4, <1>5 DEF Cancel, Is, Become

LEMMA CancelledGoes ==
  ASSUME NEW t \in Turns, Ready(t), Cancelled(t)
  PROVE  \E U : Goes(t, U)
<1>1. PICK T \in TurnType : T = turn[t]
  BY DEF Ready, TurnSound
<1>2. /\ TurnSound(T) /\ Placed(T) /\ T.at = "cancelling" /\ UNCHANGED seqs
      /\ turn' = [turn EXCEPT ![t] = At(T, "closing")]
  BY <1>1 DEF Ready, Cancelled, Is, Become, TurnSound
<1>3. PICK U : U = At(T, "closing")
  OBVIOUS
<1>4. /\ U \in TurnType /\ U.at = "closing" /\ U.spans = T.spans /\ U.tasks = T.tasks
      /\ U.thread = T.thread /\ U.seq = T.seq
  BY <1>3, SMTT(60), ZenonT(60) DEF At, TurnType, Places
<1>5. Placed(U) /\ ~ Thinks(T) /\ Calls(U)
  BY <1>2, <1>4 DEF Placed, Bound, Called, Thinks, Answered, Calls
<1> QED
  BY <1>1, <1>2, <1>3, <1>4, <1>5, MovedGoes

LEMMA RootEndIs ==
  ASSUME NEW r \in Seq(SpanType), Len(r) > 0, NEW s, s = [r EXCEPT ![Root].ended = TRUE]
  PROVE  s \in Seq(SpanType) /\ Alike(r, s) /\ \A i \in 2..Len(r) : s[i] = r[i]
<1>1. PICK o \in SpanType : o = r[Root]
  BY DEF Root
<1>2. PICK x : x = [o EXCEPT !.ended = TRUE]
  OBVIOUS
<1>3. /\ x \in SpanType /\ x.type = o.type /\ x.by = o.by /\ x.parent = o.parent
      /\ x.mirror = o.mirror /\ x.ended
  BY <1>2 DEF SpanType
<1>4. Due(x) => Due(o)
  BY <1>3, Zenon DEF Due
<1>5. /\ s = [r EXCEPT ![Root] = x] /\ Len(s) = Len(r) /\ s \in Seq(SpanType)
      /\ s[Root] = x /\ \A i \in 2..Len(r) : s[i] = r[i]
  <2>1. s = Put(r, Root, x)
    BY <1>1, <1>2 DEF Put
  <2>2. Root \in 1..Len(r) /\ \A i \in 2..Len(r) : i \in 1..Len(r) /\ i # Root
    BY DEF Root
  <2>3. x \in SpanType
    BY <1>3
  <2>4. /\ s \in Seq(SpanType) /\ Len(s) = Len(r) /\ s[Root] = x
        /\ \A j \in 1..Len(r) : j # Root => s[j] = r[j]
    <3>1. /\ Put(r, Root, x) \in Seq(SpanType) /\ Len(Put(r, Root, x)) = Len(r)
          /\ Put(r, Root, x)[Root] = x
          /\ \A j \in 1..Len(r) : j # Root => Put(r, Root, x)[j] = r[j]
      <4>1. Placing(r, Root, x, Put(r, Root, x))
        BY <2>2, <2>3, IsPut, Zenon
      <4> QED
        BY <4>1, Zenon DEF Placing
    <3> QED
      BY <2>1, <3>1, Zenon
  <2>5. s = [r EXCEPT ![Root] = x]
    BY <2>1 DEF Put
  <2> QED
    BY <2>2, <2>4, <2>5, Zenon
<1>6. \A i \in 1..Len(r) : i = Root \/ i \in 2..Len(r)
  BY DEF Root
<1>7. \A i \in 1..Len(r) :
        /\ s[i].type = r[i].type /\ s[i].by = r[i].by /\ s[i].parent = r[i].parent
        /\ (Due(s[i]) => Due(r[i])) /\ (r[i].ended => s[i].ended)
  BY <1>1, <1>3, <1>4, <1>5, <1>6
<1> QED
  BY <1>5, <1>7 DEF Alike

LEMMA AbandonGoes ==
  ASSUME NEW t \in Turns, Ready(t), Abandon(t)
  PROVE  \E U : Goes(t, U)
<1>1. PICK T \in TurnType : T = turn[t]
  BY DEF Ready, TurnSound
<1>2. PICK V : V = IF T.next = "thinking" THEN Raised(T, Len(T.spans)) ELSE T
  OBVIOUS
<1>3. /\ TurnSound(T) /\ Placed(T) /\ Nested(T.spans) /\ T.at = "yielding" /\ UNCHANGED seqs
      /\ turn' = [turn EXCEPT ![t] = [At(V, "lost") EXCEPT !.spans[Root].ended = TRUE]]
  BY <1>1, <1>2 DEF Ready, Abandon, Is, Become, TurnSound
<1>4. Len(T.spans) > 0 /\ T.spans \in Seq(SpanType) /\ ~ Calls(T)
  BY <1>3 DEF Placed, TurnType, Calls
<1>5. ASSUME NEW r \in Seq(SpanType), Alike(T.spans, r), V = WithSpans(T, r),
             \A i \in 2..Len(r) : ~ Due(r[i])
      PROVE  \E U : Goes(t, U)
  <2>1. PICK s : s = [r EXCEPT ![Root].ended = TRUE]
    OBVIOUS
  <2>2. Len(r) = Len(T.spans)
    BY <1>5 DEF Alike
  <2>3. s \in Seq(SpanType) /\ Alike(r, s) /\ \A i \in 2..Len(r) : s[i] = r[i]
    BY <1>4, <2>1, <2>2, RootEndIs, ZenonT(60)
  <2>4. PICK W \in TurnType :
          /\ W = V /\ W.spans = r /\ W.tasks = T.tasks /\ W.thread = T.thread /\ W.seq = T.seq
    BY <1>5, WithSpansIs
  <2>5. PICK U : U = [At(W, "lost") EXCEPT !.spans[Root].ended = TRUE]
    OBVIOUS
  <2>6. /\ U \in TurnType /\ U.at = "lost" /\ U.spans = s /\ U.tasks = T.tasks
        /\ U.thread = T.thread /\ U.seq = T.seq
    <3>1. U = [W EXCEPT !.at = "lost", !.spans = s]
      BY <2>1, <2>4, <2>5 DEF At, TurnType
    <3> QED
      BY <2>3, <2>4, <3>1, ZenonT(60) DEF TurnType, Places
  <2>7. Len(s) = Len(T.spans)
    BY <2>2, <2>3 DEF Alike
  <2>8. Placed(U)
    BY <1>4, <2>6, <2>7 DEF Placed, Bound, Called, Thinks, Answered
  <2>9. Nested(s)
    BY <1>3, <1>4, <1>5, <2>3, AlikeNests
  <2>10. \A i \in 2..Len(s) : ~ Due(s[i])
    BY <1>5, <2>2, <2>3, <2>7
  <2>11. \A k \in 1..Len(T.tasks) : ~ Busy(T.tasks[k]) /\ T.tasks[k].parent = Root
    BY <1>3, <1>4 DEF TurnSound, TasksSound, TaskSound
  <2>12. TurnSound(U)
    BY <2>6, <2>8, <2>9, <2>10, <2>11, Rests
  <2> QED
    BY <1>1, <1>3, <2>4, <2>5, <2>6, <2>12, Waits, ZenonT(60) DEF Goes, Anchored, Onward
<1>6. CASE T.next = "thinking"
  <2>1. Thinks(T)
    BY <1>3, <1>6 DEF Thinks
  <2>2. PICK r \in Seq(SpanType) :
          Raised(T, Len(T.spans)) = WithSpans(T, r) /\ Alike(T.spans, r) /\ ~ Due(r[Len(T.spans)])
    BY <1>3, <2>1, RoundSpan, RaisedIs
  <2>3. \A i \in 2..Len(r) : ~ Due(r[i])
    <3>1. \A k \in 1..Len(T.tasks) : ~ Busy(T.tasks[k])
      BY <1>3, <1>4, NobodyBusy
    <3>2. \A i \in 2..Len(T.spans) : Due(T.spans[i]) => i = Len(T.spans)
      BY <1>3, <3>1 DEF TurnSound, Owed, Closes
    <3> QED
      BY <1>4, <2>2, <3>2 DEF Alike
  <2> QED
    BY <1>2, <1>5, <1>6, <2>2, <2>3
<1>7. CASE T.next # "thinking"
  <2>1. ~ Thinks(T)
    BY <1>3, <1>7 DEF Thinks
  <2>2. V = WithSpans(T, T.spans)
    BY <1>2, <1>7 DEF WithSpans, TurnType
  <2>3. Alike(T.spans, T.spans)
    BY DEF Alike
  <2> QED
    BY <1>3, <1>4, <1>5, <2>1, <2>2, <2>3, NothingDue
<1> QED
  BY <1>6, <1>7

-----------------------------------------------------------------------------
(* The steps of a call.                                                    *)

\* What is known of the call k of a turn.
LEMMA CallIs ==
  ASSUME NEW T, TurnSound(T), NEW k, k \in DOMAIN T.tasks
  PROVE  /\ k \in 1..Len(T.tasks) /\ k \in Nat /\ T.tasks[k] \in TaskType
         /\ T.tasks \in Seq(TaskType) /\ T.spans \in Seq(SpanType) /\ T \in TurnType
         /\ TaskSound(T.spans, k, T.tasks[k])
         /\ Calls(T) => Len(T.spans) > 0 /\ ~ Thinks(T)
<1>1. T \in TurnType /\ T.tasks \in Seq(TaskType) /\ T.spans \in Seq(SpanType)
  BY DEF TurnSound, TurnType
<1>2. k \in 1..Len(T.tasks) /\ k \in Nat /\ T.tasks[k] \in TaskType
  BY <1>1
<1>3. Calls(T) => Len(T.spans) > 0 /\ ~ Thinks(T)
  BY DEF TurnSound, Placed, Calls, Thinks
<1> QED
  BY <1>1, <1>2, <1>3 DEF TurnSound, TasksSound


WithTask(T, k, c, last) == [T EXCEPT !.tasks = [T.tasks EXCEPT ![k] = c], !.lastSet = last]

LEMMA WithTaskIs ==
  ASSUME NEW T \in TurnType, NEW k \in 1..Len(T.tasks), NEW c \in TaskType, NEW last \in Nat
  PROVE  /\ WithTask(T, k, c, last) \in TurnType
         /\ WithTask(T, k, c, last).tasks = [T.tasks EXCEPT ![k] = c]
         /\ WithTask(T, k, c, last).spans = T.spans /\ WithTask(T, k, c, last).at = T.at
         /\ WithTask(T, k, c, last).thread = T.thread /\ WithTask(T, k, c, last).seq = T.seq
<1>1. PICK tasks \in Seq(TaskType) : tasks = [T.tasks EXCEPT ![k] = c]
  <2>1. PICK r \in Seq(TaskType) : r = T.tasks
    BY DEF TurnType
  <2>2. [r EXCEPT ![k] = c] \in Seq(TaskType)
    BY <2>1
  <2> QED
    BY <2>1, <2>2
<1>2. WithTask(T, k, c, last) = [T EXCEPT !.tasks = tasks, !.lastSet = last]
  BY <1>1 DEF WithTask
<1> QED
  BY <1>1, <1>2, ZenonT(60) DEF TurnType

\* A call goes on: the spans become s, its task c.
LEMMA WorkGoes ==
  ASSUME NEW t \in Turns, Ready(t), NEW T, T = turn[t], Calls(T), NEW k, k \in DOMAIN T.tasks,
         NEW c \in TaskType, NEW last \in Nat, NEW s \in Seq(SpanType),
         turn' = [turn EXCEPT ![t] = WithTask(WithSpans(T, s), k, c, last)], UNCHANGED seqs,
         Alike(T.spans, s) \/ Grows(T.spans, s), Nested(s), TaskSound(s, k, c),
         \A i \in 2..Len(s) :
           Due(s[i]) => \/ Closes(c, i)
                        \/ i <= Len(T.spans) /\ Due(T.spans[i]) /\ ~ Closes(T.tasks[k], i)
  PROVE  \E U : Goes(t, U)
<1>1. TurnSound(T) /\ k \in 1..Len(T.tasks) /\ T \in TurnType
  BY CallIs DEF Ready
<1>2. PICK W \in TurnType :
        /\ W = WithSpans(T, s) /\ W.spans = s /\ W.tasks = T.tasks /\ W.at = T.at
        /\ W.thread = T.thread /\ W.seq = T.seq
  BY <1>1, WithSpansIs
<1>3. PICK U \in TurnType :
        /\ U = WithTask(W, k, c, last) /\ U.tasks = [T.tasks EXCEPT ![k] = c] /\ U.spans = s
        /\ U.at = T.at /\ U.thread = T.thread /\ U.seq = T.seq
  <2>1. k \in 1..Len(W.tasks)
    BY <1>1, <1>2
  <2> QED
    BY <1>2, <2>1, WithTaskIs, SMTT(60)
<1>4. TurnSound(U)
  BY <1>1, <1>3, Worked, ZenonT(60)
<1>5. Anchored(T, U) /\ Onward(T, U)
  BY <1>3 DEF Anchored, Onward
<1>6. turn' = [turn EXCEPT ![t] = U]
  BY <1>2, <1>3
<1> QED
  BY <1>3, <1>4, <1>5, <1>6, Waits DEF Goes

LEMMA ToolStartGoes ==
  ASSUME NEW t \in Turns, Ready(t), NEW k, ToolStart(t, k)
  PROVE  \E U : Goes(t, U)
<1>1. PICK T : T = turn[t]
  OBVIOUS
<1>2. /\ TurnSound(T) /\ T.at = "tools" /\ Calls(T) /\ k \in DOMAIN T.tasks
      /\ T.tasks[k].at = "ready" /\ UNCHANGED seqs
  BY <1>1 DEF Ready, ToolStart, TaskOf, Calls
<1>3. PICK o \in TaskType : o = T.tasks[k]
  BY <1>2, CallIs, SMTT(60)
<1>4. /\ T \in TurnType /\ k \in Nat /\ k \in 1..Len(T.tasks) /\ o.at = "ready" /\ o.parent = Root
      /\ Len(T.spans) > 0 /\ T.spans \in Seq(SpanType) /\ T.tasks \in Seq(TaskType)
      /\ Nested(T.spans)
  BY <1>2, <1>3, CallIs, SMTT(60), ZenonT(60) DEF TaskSound, Busy, TurnSound
<1>5. PICK x \in SpanType, s \in Seq(SpanType) : OpensSpan(T, "tool", k, Root, x, s)
  <2>1. "tool" \in {"llm", "tool", "retriever"} /\ Root \in 1..Len(T.spans)
    BY <1>4 DEF Root
  <2> QED
    BY <1>4, <2>1, OpenedIs
<1>6. PICK i \in Nat : i = Len(s)
  BY <1>5
<1>7. PICK c \in TaskType : c = [o EXCEPT !.at = "running", !.span = i, !.parent = i]
  BY DEF TaskType, Busy
<1>8. turn' = [turn EXCEPT ![t] = WithTask(WithSpans(T, s), k, c, i)]
  <2>1. PICK W \in TurnType :
          W = WithSpans(T, s) /\ W.spans = s /\ W.tasks = T.tasks
    BY <1>4, WithSpansIs
  <2>2. Opened(T, "tool", k, Parent(T, k)) = W
    BY <1>3, <1>4, <1>5, <2>1 DEF OpensSpan, Parent
  <2>3. turn' = [turn EXCEPT ![t] =
                   [W EXCEPT !.tasks[k] = [o EXCEPT !.at = "running", !.span = i, !.parent = i],
                             !.lastSet = i]]
    BY <1>1, <1>3, <1>6, <2>1, <2>2 DEF ToolStart, Become
  <2> QED
    BY <1>7, <2>1, <2>3 DEF WithTask
<1>9. Grows(T.spans, s) /\ Nested(s)
  BY <1>4, <1>5, GrowsNests DEF Grows, OpensSpan
<1>10. c.at = "running" /\ c.span = i /\ c.parent = i
  BY <1>7 DEF TaskType
<1>11. TaskSound(s, k, c)
  BY <1>4, <1>5, <1>6, <1>10 DEF TaskSound, Busy, OpensSpan
<1>12. \A j \in 2..Len(s) :
         Due(s[j]) => \/ Closes(c, j)
                      \/ j <= Len(T.spans) /\ Due(T.spans[j]) /\ ~ Closes(T.tasks[k], j)
  BY <1>2, <1>4, <1>5, <1>6, <1>10, SMTT(60) DEF Closes, Busy, OpensSpan
<1> QED
  BY <1>1, <1>2, <1>8, <1>9, <1>11, <1>12, WorkGoes

LEMMA RetrieverStartGoes ==
  ASSUME NEW t \in Turns, Ready(t), NEW k, RetrieverStart(t, k)
  PROVE  \E U : Goes(t, U)
<1>1. PICK T : T = turn[t]
  OBVIOUS
<1>2. /\ TurnSound(T) /\ T.at = "tools" /\ Calls(T) /\ k \in DOMAIN T.tasks /\ UNCHANGED seqs
  BY <1>1 DEF Ready, RetrieverStart, TaskOf, Calls
<1>3. PICK o \in TaskType : o = T.tasks[k]
  BY <1>2, CallIs, SMTT(60)
<1>4. PICK at \in {"embedding", "searching"} :
        /\ o.at \in {"running", "embedded"}
        /\ LET V == Opened(T, "retriever", k, Parent(T, k)) IN
             turn' = [turn EXCEPT ![t] =
                        [V EXCEPT !.tasks[k] = [@ EXCEPT !.at = at, !.child = Len(V.spans)]]]
  BY <1>1, <1>3, SMTT(60) DEF RetrieverStart, TaskOf, Become
<1>5. /\ T \in TurnType /\ k \in Nat /\ k \in 1..Len(T.tasks)
      /\ o.span \in 2..Len(T.spans) /\ T.spans[o.span].type = "tool" /\ T.spans[o.span].by = k
      /\ o.parent = o.span /\ Parent(T, k) = o.span
      /\ Len(T.spans) > 0 /\ T.spans \in Seq(SpanType) /\ Nested(T.spans)
  BY <1>2, <1>3, <1>4, CallIs DEF TaskSound, Busy, TurnSound, Parent
<1>6. PICK x \in SpanType, s \in Seq(SpanType) : OpensSpan(T, "retriever", k, o.span, x, s)
  <2>1. "retriever" \in {"llm", "tool", "retriever"} /\ o.span \in 1..Len(T.spans)
    BY <1>5
  <2> QED
    BY <1>5, <2>1, OpenedIs
<1>7. PICK i \in Nat : i = Len(s)
  BY <1>6
<1>8. PICK c \in TaskType : c = [o EXCEPT !.at = at, !.child = i]
  BY DEF TaskType, Busy
<1>9. turn' = [turn EXCEPT ![t] = WithTask(WithSpans(T, s), k, c, T.lastSet)]
  <2>1. PICK W \in TurnType :
          W = WithSpans(T, s) /\ W.spans = s /\ W.tasks = T.tasks /\ W.lastSet = T.lastSet
    BY <1>5, WithSpansIs
  <2>2. Opened(T, "retriever", k, Parent(T, k)) = W
    BY <1>5, <1>6, <2>1 DEF OpensSpan
  <2>3. turn' = [turn EXCEPT ![t] = [W EXCEPT !.tasks = [W.tasks EXCEPT ![k] = c]]]
    BY <1>3, <1>4, <1>7, <1>8, <2>1, <2>2
  <2>4. PICK tasks : tasks = [W.tasks EXCEPT ![k] = c]
    OBVIOUS
  <2>5. [W EXCEPT !.tasks = tasks] = [W EXCEPT !.tasks = tasks, !.lastSet = T.lastSet]
    BY <2>1 DEF TurnType
  <2> QED
    BY <2>1, <2>3, <2>4, <2>5 DEF WithTask
<1>10. Grows(T.spans, s)
  BY <1>6 DEF Grows, OpensSpan
<1>11. Nested(s)
  <2>1. x = s[Len(s)] /\ x.type = "retriever" /\ x.parent = o.span /\ x.by = k
    BY <1>6 DEF OpensSpan
  <2>2. IF x.type = "retriever"
        THEN /\ x.parent \in 1..Len(T.spans) /\ T.spans[x.parent].type = "tool"
             /\ T.spans[x.parent].by = x.by
        ELSE x.type \in {"llm", "tool"} /\ x.parent = Root
    BY <1>5, <2>1
  <2> QED
    BY <1>5, <1>10, <2>1, <2>2, GrowsNests
<1>12. c.at = at /\ c.child = i /\ c.span = o.span /\ c.parent = o.span
  BY <1>5, <1>8 DEF TaskType
<1>m. PICK m \in Nat : m = Len(T.spans) /\ i = m + 1
  BY <1>5, <1>6, <1>7 DEF OpensSpan
<1>13. TaskSound(s, k, c)
  <2>1. i \in 2..i /\ o.span \in 2..i /\ o.span \in 1..m
    <3>1. PICK n \in Nat : n = o.span /\ n \in 2..m /\ m > 0
      BY <1>5, <1>m
    <3>2. i \in 2..i /\ n \in 2..i /\ n \in 1..m
      BY ONLY <3>1, <1>m, n \in Nat, m \in Nat
    <3> QED
      BY <3>1, <3>2
  <2>2. s[i].type = "retriever" /\ s[o.span] = T.spans[o.span]
    BY <1>6, <1>7, <1>m, <2>1 DEF OpensSpan
  <2> QED
    BY <1>5, <1>7, <1>12, <2>1, <2>2 DEF TaskSound, Busy
<1>14. \A j \in 2..Len(s) :
         Due(s[j]) => \/ Closes(c, j)
                      \/ j <= Len(T.spans) /\ Due(T.spans[j]) /\ ~ Closes(T.tasks[k], j)
  <2> SUFFICES ASSUME NEW j \in 2..Len(s), Due(s[j]), ~ Closes(c, j)
               PROVE  j <= Len(T.spans) /\ Due(T.spans[j]) /\ ~ Closes(T.tasks[k], j)
    OBVIOUS
  <2>1. j # i /\ j # o.span
    BY <1>7, <1>12 DEF Closes, Busy
  <2>2. j \in 1..m /\ j <= m
    BY <1>7, <1>m, <2>1
  <2>3. s[j] = T.spans[j]
    BY <1>6, <1>m, <2>2 DEF OpensSpan
  <2>4. ~ Closes(T.tasks[k], j)
    BY <1>3, <1>4, <2>1 DEF Closes
  <2> QED
    BY <1>m, <2>2, <2>3, <2>4
<1>15. T.lastSet \in Nat
  BY <1>5 DEF TurnType
<1> QED
  BY <1>1, <1>2, <1>9, <1>10, <1>11, <1>13, <1>14, <1>15, WorkGoes

MovesTask(V, k, at) == [V EXCEPT !.tasks[k].at = at]

LEMMA RetrieverEndsGoes ==
  ASSUME NEW t \in Turns, Ready(t), NEW k, RetrieverEnds(t, k)
  PROVE  \E U : Goes(t, U)
<1>1. PICK T : T = turn[t]
  OBVIOUS
<1>2. /\ TurnSound(T) /\ T.at = "tools" /\ Calls(T) /\ k \in DOMAIN T.tasks /\ UNCHANGED seqs
  <2>1. TurnSound(T)
    BY <1>1 DEF Ready
  <2>2. (TaskOf(t, k, "embedding") \/ TaskOf(t, k, "searching")) /\ UNCHANGED seqs
    BY ZenonT(60) DEF RetrieverEnds
  <2>3. T.at = "tools" /\ k \in DOMAIN T.tasks
    BY <1>1, <2>2, Zenon DEF TaskOf
  <2> QED
    BY <2>1, <2>2, <2>3 DEF Calls
<1>3. PICK o \in TaskType : o = T.tasks[k] /\ o.at \in {"embedding", "searching"}
  BY <1>1, <1>2, CallIs DEF RetrieverEnds, TaskOf
<1>4. PICK V : /\ V = Ended(T, o.child) \/ V = Raised(T, o.child)
               /\ \E at \in {"embedded", "answering"} :
                    turn' = [turn EXCEPT ![t] = MovesTask(V, k, at)]
  <2>1. PICK after \in {"embedded", "answering"} :
          after = IF o.at = "embedding" THEN "embedded" ELSE "answering"
    BY SMTT(60)
  <2>2. \/ turn' = [turn EXCEPT ![t] = MovesTask(Ended(T, o.child), k, after)]
        \/ turn' = [turn EXCEPT ![t] = MovesTask(Raised(T, o.child), k, "answering")]
    BY <1>1, <1>3, <2>1, ZenonT(60) DEF RetrieverEnds, Become, MovesTask
  <2> QED
    BY <2>2
<1> PICK at \in {"embedded", "answering"} : turn' = [turn EXCEPT ![t] = MovesTask(V, k, at)]
  BY <1>4
<1>5. /\ T \in TurnType /\ k \in 1..Len(T.tasks) /\ Nested(T.spans) /\ TaskSound(T.spans, k, o)
      /\ o.child \in 1..Len(T.spans) /\ T.spans[o.child].type # "tool" /\ T.spans \in Seq(SpanType)
  BY <1>2, <1>3, CallIs, SMTT(60) DEF TaskSound, TurnSound
<1>6. PICK s \in Seq(SpanType) :
        V = WithSpans(T, s) /\ Alike(T.spans, s) /\ ~ Due(s[o.child])
  BY <1>4, <1>5, EndedIs, RaisedIs, ZenonT(60)
<1>7. PICK c \in TaskType : c = [o EXCEPT !.at = at]
  BY DEF TaskType, Busy
<1>8. turn' = [turn EXCEPT ![t] = WithTask(WithSpans(T, s), k, c, T.lastSet)]
  <2>1. PICK W \in TurnType :
          W = WithSpans(T, s) /\ W.spans = s /\ W.tasks = T.tasks /\ W.lastSet = T.lastSet
    BY <1>5, WithSpansIs
  <2>2. turn' = [turn EXCEPT ![t] = [W EXCEPT !.tasks = [W.tasks EXCEPT ![k] = c]]]
    BY <1>3, <1>4, <1>6, <1>7, <2>1 DEF MovesTask
  <2>3. PICK tasks : tasks = [W.tasks EXCEPT ![k] = c]
    OBVIOUS
  <2>4. [W EXCEPT !.tasks = tasks] = [W EXCEPT !.tasks = tasks, !.lastSet = T.lastSet]
    BY <2>1 DEF TurnType
  <2> QED
    BY <2>1, <2>2, <2>3, <2>4 DEF WithTask
<1>9. Nested(s)
  BY <1>5, <1>6, AlikeNests
<1>10. c.at = at /\ c.child = o.child /\ c.span = o.span /\ c.parent = o.parent
  BY <1>7 DEF TaskType
<1>11. TaskSound(s, k, c)
  <2>1. TaskSound(s, k, o)
    BY <1>5, <1>6, TaskStaysSound
  <2> QED
    BY <1>3, <1>4, <1>10, <2>1 DEF TaskSound, Busy
<1>12. \A j \in 2..Len(s) :
         Due(s[j]) => \/ Closes(c, j)
                      \/ j <= Len(T.spans) /\ Due(T.spans[j]) /\ ~ Closes(T.tasks[k], j)
  BY <1>3, <1>4, <1>6, <1>10 DEF Closes, Busy, Alike
<1>13. T.lastSet \in Nat
  BY <1>5 DEF TurnType
<1> QED
  BY <1>1, <1>2, <1>6, <1>8, <1>9, <1>11, <1>12, <1>13, WorkGoes, ZenonT(60)

\* The call is over; its spans have become s, in which nothing of it is due.
LEMMA OverGoes ==
  ASSUME NEW t \in Turns, Ready(t), NEW T, T = turn[t], Calls(T), NEW k, k \in DOMAIN T.tasks,
         NEW s \in Seq(SpanType), Alike(T.spans, s),
         NEW at \in {"ended", "cancelled"},
         turn' = [turn EXCEPT ![t] = TaskOver(WithSpans(T, s), k, at)], UNCHANGED seqs,
         \A j \in 2..Len(s) : Closes(T.tasks[k], j) => ~ Due(s[j])
  PROVE  \E U : Goes(t, U)
<1>1. TurnSound(T) /\ T \in TurnType /\ Nested(T.spans) /\ T.spans \in Seq(SpanType)
  BY CallIs DEF Ready, TurnSound
<1>2. PICK o \in TaskType : o = T.tasks[k]
  BY <1>1, CallIs
<1>3. PICK c \in TaskType : c = [o EXCEPT !.at = at, !.parent = Root]
  BY DEF TaskType, Root
<1>4. turn' = [turn EXCEPT ![t] = WithTask(WithSpans(T, s), k, c, Root)]
  <2>1. WithSpans(T, s).tasks = T.tasks
    BY <1>1, WithSpansIs
  <2> QED
    BY <1>2, <1>3, <2>1 DEF TaskOver, WithTask
<1>5. c.at = at /\ c.parent = Root /\ Root \in Nat
  BY <1>3 DEF TaskType, Root
<1>6. TaskSound(s, k, c)
  BY <1>5 DEF TaskSound, Busy
<1>7. Nested(s)
  BY <1>1, AlikeNests
<1>8. \A j \in 2..Len(s) :
         Due(s[j]) => \/ Closes(c, j)
                      \/ j <= Len(T.spans) /\ Due(T.spans[j]) /\ ~ Closes(T.tasks[k], j)
  BY DEF Alike
<1>9. PICK last \in Nat : last = Root
  BY <1>5
<1>10. turn' = [turn EXCEPT ![t] = WithTask(WithSpans(T, s), k, c, last)]
  BY <1>4, <1>9
<1> QED
  BY <1>6, <1>7, <1>8, <1>10, WorkGoes, ZenonT(60)

LEMMA ToolEndsGoes ==
  ASSUME NEW t \in Turns, Ready(t), NEW k, ToolEnds(t, k)
  PROVE  \E U : Goes(t, U)
<1>1. PICK T : T = turn[t]
  OBVIOUS
<1>2. /\ TurnSound(T) /\ T.at = "tools" /\ Calls(T) /\ k \in DOMAIN T.tasks /\ UNCHANGED seqs
      /\ T.tasks[k].at \in {"running", "answering"}
      /\ turn' = [turn EXCEPT ![t] = TaskOver(Ended(T, T.tasks[k].span), k, "ended")]
  BY <1>1 DEF Ready, ToolEnds, TaskOf, Calls, Become
<1>3. T \in TurnType /\ T.tasks[k].span \in 1..Len(T.spans)
  BY <1>2, CallIs DEF TaskSound, Busy
<1>4. PICK s \in Seq(SpanType) :
        /\ Ended(T, T.tasks[k].span) = WithSpans(T, s) /\ Alike(T.spans, s)
        /\ ~ Due(s[T.tasks[k].span])
  BY <1>3, EndedIs
<1>5. \A j \in 2..Len(s) : Closes(T.tasks[k], j) => ~ Due(s[j])
  BY <1>2, <1>4 DEF Closes
<1>6. PICK at \in {"ended", "cancelled"} : at = "ended"
  OBVIOUS
<1> QED
  BY <1>1, <1>2, <1>4, <1>5, <1>6, OverGoes

LEMMA TaskCancelledGoes ==
  ASSUME NEW t \in Turns, Ready(t), NEW k, TaskCancelled(t, k)
  PROVE  \E U : Goes(t, U)
<1>1. PICK T : T = turn[t]
  OBVIOUS
<1>2. PICK V : V = IF T.tasks[k].at \in {"embedding", "searching"}
                   THEN Raised(T, T.tasks[k].child) ELSE T
  OBVIOUS
<1>3. /\ TurnSound(T) /\ Calls(T) /\ k \in DOMAIN T.tasks /\ UNCHANGED seqs
      /\ \/ /\ T.tasks[k].at = "ready"
            /\ turn' = [turn EXCEPT ![t] = TaskOver(T, k, "cancelled")]
         \/ /\ Busy(T.tasks[k])
            /\ turn' = [turn EXCEPT ![t] =
                          TaskOver(ToolRaised(V, T.tasks[k].span), k, "cancelled")]
  BY <1>1, <1>2 DEF Ready, TaskCancelled, Calls, Become
<1>at. PICK at \in {"ended", "cancelled"} : at = "cancelled"
  OBVIOUS
<1>4. PICK o \in TaskType : o = T.tasks[k]
  BY <1>3, CallIs
<1>5. T \in TurnType /\ TaskSound(T.spans, k, o) /\ T.spans \in Seq(SpanType)
  BY <1>3, <1>4, CallIs
<1>6. CASE o.at = "ready" /\ turn' = [turn EXCEPT ![t] = TaskOver(T, k, at)]
  <2>1. T = WithSpans(T, T.spans)
    BY <1>5 DEF WithSpans, TurnType
  <2>2. \A j \in 2..Len(T.spans) : Closes(T.tasks[k], j) => ~ Due(T.spans[j])
    BY <1>4, <1>6 DEF Closes, Busy
  <2>3. Alike(T.spans, T.spans)
    BY DEF Alike
  <2>4. turn' = [turn EXCEPT ![t] = TaskOver(WithSpans(T, T.spans), k, at)]
    BY <1>6, <2>1
  <2> QED
    BY <1>1, <1>3, <1>5, <2>2, <2>3, <2>4, OverGoes
<1>7. CASE Busy(o) /\ turn' = [turn EXCEPT ![t] = TaskOver(ToolRaised(V, o.span), k, at)]
  <2>1. o.span \in 2..Len(T.spans)
    BY <1>5, <1>7 DEF TaskSound
  <2>2. PICK r \in Seq(SpanType) :
          /\ V = WithSpans(T, r) /\ Alike(T.spans, r)
          /\ o.at \in {"embedding", "searching"} => ~ Due(r[o.child])
    <3>1. CASE o.at \in {"embedding", "searching"}
      <4>1. o.child \in 1..Len(T.spans) /\ T.spans[o.child].type # "tool"
        BY <1>5, <3>1 DEF TaskSound
      <4> QED
        BY <1>2, <1>4, <1>5, <3>1, <4>1, RaisedIs
    <3>2. CASE o.at \notin {"embedding", "searching"}
      <4>1. V = WithSpans(T, T.spans)
        BY <1>2, <1>4, <1>5, <3>2 DEF WithSpans, TurnType
      <4>2. Alike(T.spans, T.spans)
        BY DEF Alike
      <4> QED
        BY <1>5, <3>2, <4>1, <4>2
    <3> QED
      BY <3>1, <3>2
  <2>3. V \in TurnType /\ V.spans = r
    BY <1>5, <2>2, WithSpansIs
  <2>4. o.span \in 1..Len(V.spans)
    BY <2>1, <2>2, <2>3 DEF Alike
  <2>5. PICK s \in Seq(SpanType) :
          ToolRaised(V, o.span) = WithSpans(V, s) /\ Alike(r, s) /\ ~ Due(s[o.span])
    BY <2>3, <2>4, ToolRaisedIs
  <2>6. WithSpans(V, s) = WithSpans(T, s)
    BY <1>5, <2>2 DEF WithSpans, TurnType
  <2>7. Alike(T.spans, s)
    BY <1>5, <2>2, <2>5, AlikeTransitive
  <2>8. \A j \in 2..Len(s) : Closes(T.tasks[k], j) => ~ Due(s[j])
    BY <1>4, <2>2, <2>5 DEF Closes, Alike
  <2>9. turn' = [turn EXCEPT ![t] = TaskOver(WithSpans(T, s), k, at)]
    BY <1>7, <2>5, <2>6
  <2> QED
    BY <1>1, <1>3, <2>7, <2>8, <2>9, OverGoes
<1> QED
  BY <1>3, <1>4, <1>at, <1>6, <1>7

-----------------------------------------------------------------------------
(* Anchors, rows and ratings.                                              *)

RowType ==
  [turn : Turns, thread : Threads \cup {NoThread}, seq : Nat, lf : BOOLEAN, whole : BOOLEAN]

\* An anchor is one turn's: it names a stored seq of its thread.
Anchors ==
  /\ \A t \in Turns : turn[t].seq # NoSeq =>
       turn[t].thread \in Threads /\ turn[t].seq <= seqs[turn[t].thread]
  /\ \A t, u \in Turns :
       t # u /\ turn[t].seq # NoSeq =>
         ~ (turn[u].thread = turn[t].thread /\ turn[u].seq = turn[t].seq)

\* A row is of a turn that is gone, under its thread and anchor.
RowsSound ==
  /\ rows \in Seq(RowType)
  /\ \A i \in 1..Len(rows) :
       LET T == turn[rows[i].turn] IN
       T.at = "gone" /\ rows[i].thread = T.thread /\ rows[i].seq = T.seq

\* What has been rated has its anchor, which it keeps.
ScoresSound ==
  /\ \A x \in scores : x.rated \in Turns /\ turn[x.rated].seq # NoSeq
  /\ \A x \in scores : x.on # "session" => x.on \in Turns

TraceInv ==
  /\ active \in Threads /\ seqs \in [Threads -> Nat] /\ turn \in [Turns -> TurnType]
  /\ \A t \in Turns : TurnSound(turn[t])
  /\ \A t \in pending : t \in Turns /\ turn[t].at = "over"
  /\ Anchors /\ RowsSound /\ ScoresSound /\ ScoresHitTheirTurn

LEMMA RowIs ==
  ASSUME RowsSound, NEW i \in 1..Len(rows)
  PROVE  /\ rows[i].turn \in Turns /\ turn[rows[i].turn].at = "gone"
         /\ rows[i].thread = turn[rows[i].turn].thread /\ rows[i].seq = turn[rows[i].turn].seq
<1>1. rows[i] \in RowType
  BY DEF RowsSound
<1>2. rows[i].turn \in Turns
  BY <1>1 DEF RowType
<1> QED
  BY <1>2 DEF RowsSound

LEMMA AnchorsKept ==
  ASSUME TraceInv, NEW t \in Turns, NEW U \in TurnType, turn' = [turn EXCEPT ![t] = U],
         seqs' \in [Threads -> Nat], \A th \in Threads : seqs[th] <= seqs'[th],
         Anchored(turn[t], U)
  PROVE  Anchors' /\ turn' \in [Turns -> TurnType]
<1>1. /\ turn' \in [Turns -> TurnType] /\ turn'[t] = U
      /\ \A u \in Turns : u # t => turn'[u] = turn[u]
  BY DEF TraceInv
<1>2. \A u \in Turns : turn[u].seq \in Nat
  BY DEF TraceInv, TurnType
<1>3. U.seq \in Nat
  BY DEF TurnType
<1>4. \A th \in Threads : seqs[th] \in Nat /\ seqs'[th] \in Nat
  BY DEF TraceInv
<1>5. ASSUME NEW u \in Turns, turn'[u].seq # NoSeq
      PROVE  turn'[u].thread \in Threads /\ turn'[u].seq <= seqs'[turn'[u].thread]
  <2>1. CASE u # t
    BY <1>1, <1>2, <1>4, <1>5, <2>1 DEF TraceInv, Anchors
  <2>2. CASE u = t
    BY <1>1, <1>2, <1>3, <1>4, <1>5, <2>2 DEF TraceInv, Anchors, Anchored
  <2> QED
    BY <2>1, <2>2
<1>6. ASSUME NEW u \in Turns, u # t, U.seq # NoSeq
      PROVE  ~ (turn[u].thread = U.thread /\ turn[u].seq = U.seq)
  <2>1. CASE U.seq = turn[t].seq /\ U.thread = turn[t].thread
    BY <1>6, <2>1 DEF TraceInv, Anchors
  <2>2. CASE U.thread \in Threads /\ seqs[U.thread] < U.seq
    <3>1. turn[u].thread = U.thread /\ turn[u].seq = U.seq => turn[u].seq <= seqs[U.thread]
      BY <1>6 DEF TraceInv, Anchors
    <3> QED
      BY <1>2, <1>4, <2>2, <3>1
  <2> QED
    BY <1>6, <2>1, <2>2 DEF Anchored
<1>7. ASSUME NEW u \in Turns, NEW v \in Turns, u # v, turn'[u].seq # NoSeq
      PROVE  ~ (turn'[v].thread = turn'[u].thread /\ turn'[v].seq = turn'[u].seq)
  <2>1. CASE u = t
    BY <1>1, <1>6, <1>7, <2>1
  <2>2. CASE v = t
    BY <1>1, <1>6, <1>7, <2>2
  <2>3. CASE u # t /\ v # t
    BY <1>1, <1>7, <2>3 DEF TraceInv, Anchors
  <2> QED
    BY <2>1, <2>2, <2>3
<1> QED
  BY <1>1, <1>5, <1>7 DEF Anchors

\* Anchors that are bound stay bound: so do the scores what they were put on.
LEMMA ScoresKept ==
  ASSUME ScoresSound, ScoresHitTheirTurn, UNCHANGED scores,
         \A u \in Turns : turn[u].seq # NoSeq => turn'[u].seq = turn[u].seq
  PROVE  ScoresSound' /\ ScoresHitTheirTurn'
<1>1. ScoresSound'
  BY DEF ScoresSound
<1>2. ASSUME NEW x \in scores, x.on # "session"
      PROVE  turn'[x.on].seq = turn'[x.rated].seq /\ (x.on = x.rated \/ ~ x.current)
  <2>1. x.rated \in Turns /\ turn[x.rated].seq # NoSeq /\ x.on \in Turns
    BY <1>2 DEF ScoresSound
  <2>2. turn[x.on].seq = turn[x.rated].seq /\ (x.on = x.rated \/ ~ x.current)
    BY <1>2 DEF ScoresHitTheirTurn
  <2> QED
    BY <2>1, <2>2
<1> QED
  BY <1>1, <1>2 DEF ScoresHitTheirTurn

\* A step of a turn keeps the invariant; the turn may become one that is to be persisted.
LEMMA GoesKeeps ==
  ASSUME TraceInv, NEW t \in Turns, NEW U, Goes(t, U),
         pending' = pending \/ (U.at = "over" /\ pending' = pending \cup {t}),
         UNCHANGED <<active, rows, scores>>
  PROVE  TraceInv'
<1>1. /\ turn' = [turn EXCEPT ![t] = U] /\ TurnSound(U) /\ U \in TurnType
      /\ Onward(turn[t], U)
      /\ seqs' \in [Threads -> Nat] /\ \A th \in Threads : seqs[th] <= seqs'[th]
      /\ Anchored(turn[t], U)
  BY DEF Goes, TurnSound
<1>2. Anchors' /\ turn' \in [Turns -> TurnType]
  BY <1>1, AnchorsKept
<1>3. turn'[t] = U /\ \A u \in Turns : u # t => turn'[u] = turn[u]
  BY <1>1 DEF TraceInv
<1>4. \A u \in Turns : TurnSound(turn'[u])
  BY <1>1, <1>3 DEF TraceInv
<1>5. \A u \in pending' : u \in Turns /\ turn'[u].at = "over"
  BY <1>1, <1>3 DEF TraceInv, Onward
<1>6. RowsSound'
  <2>1. rows' = rows /\ rows \in Seq(RowType)
    BY DEF TraceInv, RowsSound
  <2>2. ASSUME NEW i \in 1..Len(rows)
        PROVE  LET V == turn'[rows[i].turn] IN
               V.at = "gone" /\ rows[i].thread = V.thread /\ rows[i].seq = V.seq
    <3>1. /\ rows[i].turn \in Turns /\ turn[rows[i].turn].at = "gone"
          /\ rows[i].thread = turn[rows[i].turn].thread
          /\ rows[i].seq = turn[rows[i].turn].seq
      BY RowIs DEF TraceInv
    <3> QED
      BY <1>1, <1>3, <3>1 DEF Onward
  <2> QED
    BY <2>1, <2>2 DEF RowsSound
<1>7. \A u \in Turns : turn[u].seq # NoSeq => turn'[u].seq = turn[u].seq
  BY <1>1, <1>3 DEF Onward
<1>8. ScoresSound' /\ ScoresHitTheirTurn'
  BY <1>7, ScoresKept DEF TraceInv
<1> QED
  BY <1>1, <1>2, <1>4, <1>5, <1>6, <1>8 DEF TraceInv

LEMMA PersistKeeps ==
  ASSUME TraceInv, NEW t \in Turns, Persist(t)
  PROVE  TraceInv'
<1>1. PICK T \in TurnType : T = turn[t]
  BY DEF TraceInv
<1>2. /\ TurnSound(T) /\ T.at = "over" /\ pending' = pending \ {t} /\ UNCHANGED <<active, seqs, scores>>
  BY <1>1 DEF TraceInv, Persist
<1>3. PICK U : U = At(T, "gone")
  OBVIOUS
<1>4. turn' = [turn EXCEPT ![t] = U]
  BY <1>1, <1>3 DEF Persist, Become
<1>5. /\ U \in TurnType /\ U.at = "gone" /\ U.spans = T.spans /\ U.tasks = T.tasks
      /\ U.thread = T.thread /\ U.seq = T.seq
  BY <1>3, SMTT(60), ZenonT(60) DEF At, TurnType, Places
<1>6. TurnSound(U)
  <2>1. ~ Thinks(T) /\ Calls(U)
    BY <1>2, <1>5 DEF Thinks, Calls
  <2>2. Placed(U)
    BY <1>2, <1>5 DEF TurnSound, Placed, Bound, Called, Thinks, Answered
  <2> QED
    BY <1>2, <1>5, <2>1, <2>2, Moved
<1>7. Anchored(T, U)
  BY <1>5 DEF Anchored
<1>8. Anchors' /\ turn' \in [Turns -> TurnType]
  <2>1. seqs' \in [Threads -> Nat] /\ \A th \in Threads : seqs[th] <= seqs'[th]
    BY <1>2 DEF TraceInv
  <2> QED
    BY <1>1, <1>4, <1>5, <1>7, <2>1, AnchorsKept
<1>9. turn'[t] = U /\ \A u \in Turns : u # t => turn'[u] = turn[u]
  BY <1>4 DEF TraceInv
<1>10. \A u \in Turns : TurnSound(turn'[u])
  BY <1>6, <1>9 DEF TraceInv
<1>11. \A u \in pending' : u \in Turns /\ turn'[u].at = "over"
  BY <1>2, <1>9 DEF TraceInv
<1>12. rows \in Seq(RowType) /\ \A i \in 1..Len(rows) : rows[i].turn \in Turns /\ rows[i].turn # t
  <2>1. rows \in Seq(RowType)
    BY DEF TraceInv, RowsSound
  <2> QED
    BY <1>1, <1>2, <2>1, RowIs DEF TraceInv
<1>sc. ScoresSound' /\ ScoresHitTheirTurn'
  <2>1. \A u \in Turns : turn'[u].seq = turn[u].seq
    BY <1>1, <1>5, <1>9
  <2> QED
    BY <1>2, <2>1, ScoresKept DEF TraceInv
<1>13. CASE rows' = rows
  <2>1. RowsSound'
    BY <1>9, <1>12, <1>13 DEF TraceInv, RowsSound
  <2> QED
    BY <1>2, <1>8, <1>10, <1>11, <1>sc, <2>1 DEF TraceInv
<1>14. CASE rows' = Append(rows, [turn |-> t, thread |-> turn[t].thread, seq |-> turn[t].seq,
                                  lf |-> turn[t].spans[Root].mirror # "none",
                                  whole |-> Whole(turn[t])])
  <2>1. PICK lf \in BOOLEAN, whole \in BOOLEAN :
          lf = (turn[t].spans[Root].mirror # "none") /\ whole = Whole(turn[t])
    BY Zenon DEF Whole
  <2>2. PICK x : x = [turn |-> t, thread |-> T.thread, seq |-> T.seq, lf |-> lf, whole |-> whole]
    OBVIOUS
  <2>3. x \in RowType
    BY <2>2 DEF RowType, TurnType
  <2>4. x.turn = t /\ x.thread = T.thread /\ x.seq = T.seq
    BY <2>2
  <2>5. rows' = Append(rows, x)
    BY <1>1, <1>14, <2>1, <2>2, Zenon
  <2>6. /\ rows' \in Seq(RowType) /\ Len(rows') = Len(rows) + 1 /\ rows'[Len(rows) + 1] = x
        /\ \A i \in 1..Len(rows) : rows'[i] = rows[i]
    BY <1>12, <2>3, <2>5
  <2>7. RowsSound'
    <3>1. ASSUME NEW i \in 1..Len(rows')
          PROVE  LET V == turn'[rows'[i].turn] IN
                 V.at = "gone" /\ rows'[i].thread = V.thread /\ rows'[i].seq = V.seq
      <4>1. CASE i = Len(rows) + 1
        BY <1>5, <1>9, <2>4, <2>6, <4>1
      <4>2. CASE i \in 1..Len(rows)
        BY <1>9, <1>12, <2>6, <4>2 DEF TraceInv, RowsSound
      <4> QED
        BY <1>12, <2>6, <4>1, <4>2
    <3> QED
      BY <2>6, <3>1 DEF RowsSound
  <2> QED
    BY <1>2, <1>8, <1>10, <1>11, <1>sc, <2>7 DEF TraceInv
<1> QED
  BY <1>13, <1>14, Zenon DEF Persist

\* What a rating finds has the anchor that was rated, in the current thread.
LEMMA RateKeeps ==
  ASSUME TraceInv, NEW t \in Turns, Rate(t)
  PROVE  TraceInv'
<1>1. turn[t].seq # NoSeq
  BY DEF Rate
<1>2. ASSUME NEW u \in Lookup(active, turn[t].seq)
      PROVE  /\ u \in Turns /\ turn[u].seq = turn[t].seq
             /\ u = t \/ turn[t].thread # active
  <2> PICK i \in Newest(Own(active)) : rows[i].turn = u /\ rows[i].seq = turn[t].seq
    BY DEF Lookup
  <2>1. rows \in Seq(RowType) /\ i \in 1..Len(rows) /\ rows[i].thread = active
    BY DEF Newest, Own, TraceInv, RowsSound
  <2>2. /\ rows[i].turn \in Turns /\ turn[rows[i].turn].thread = active
        /\ turn[rows[i].turn].seq = turn[t].seq
    BY <2>1, RowIs DEF TraceInv
  <2> QED
    BY <1>1, <2>2 DEF TraceInv, Anchors
<1>3. PICK x : /\ scores' = scores \cup {x} /\ x.rated = t
               /\ x.on # "session" => /\ x.on \in Turns /\ turn[x.on].seq = turn[t].seq
                                      /\ x.on = t \/ ~ x.current
  <2>1. CASE Score(t, "session")
    <3>1. PICK x : x = [rated |-> t, on |-> "session", current |-> turn[t].thread = active]
      OBVIOUS
    <3>2. x.rated = t /\ x.on = "session"
      BY <3>1
    <3>3. scores' = scores \cup {x}
      BY <2>1, <3>1 DEF Score
    <3> QED
      BY <3>2, <3>3
  <2>2. ASSUME NEW u \in Lookup(active, turn[t].seq), Score(t, u)
        PROVE  \E x : /\ scores' = scores \cup {x} /\ x.rated = t
                      /\ x.on # "session" => /\ x.on \in Turns /\ turn[x.on].seq = turn[t].seq
                                             /\ x.on = t \/ ~ x.current
    <3>1. PICK b \in BOOLEAN : b = (turn[t].thread = active)
      OBVIOUS
    <3>2. PICK x : x = [rated |-> t, on |-> u, current |-> b]
      OBVIOUS
    <3>3. x.rated = t /\ x.on = u /\ x.current = b
      BY <3>2
    <3>4. scores' = scores \cup {x}
      BY <2>2, <3>1, <3>2, Zenon DEF Score
    <3>5. u = t \/ ~ x.current
      BY <1>2, <3>1, <3>3
    <3> QED
      BY <1>2, <3>3, <3>4, <3>5
  <2> QED
    BY <2>1, <2>2 DEF Rate
<1>4. UNCHANGED <<turn, active, seqs, pending, rows>>
  BY DEF Rate
<1>5. Anchors' /\ RowsSound'
  BY <1>4, Zenon DEF TraceInv, Anchors, RowsSound
<1>6. ScoresSound'
  BY <1>1, <1>3, <1>4 DEF TraceInv, ScoresSound
<1>7. ScoresHitTheirTurn'
  BY <1>3, <1>4 DEF TraceInv, ScoresHitTheirTurn
<1> QED
  BY <1>4, <1>5, <1>6, <1>7, Zenon DEF TraceInv

LEMMA TraceSteps ==
  ASSUME TraceInv, [Next]_vars
  PROVE  TraceInv'
<1>1. ASSUME NEW t \in Turns, Begin(t) \/ Step(t) \/ Cancel(t) \/ Abandon(t) \/ Persist(t) \/ Rate(t)
      PROVE  TraceInv'
  <2>1. Ready(t)
    BY DEF Ready, TraceInv
  <2>2. CASE Begin(t)
    BY <2>1, <2>2, BeginGoes, GoesKeeps DEF Begin
  <2>3. CASE Bind(t)
    BY <2>1, <2>3, BindGoes, GoesKeeps DEF Bind
  <2>4. CASE Delta(t)
    BY <2>1, <2>4, DeltaGoes, GoesKeeps DEF Delta
  <2>5. CASE RoundFails(t)
    BY <2>1, <2>5, RoundFailsGoes, GoesKeeps DEF RoundFails
  <2>6. CASE RoundAnswers(t)
    BY <2>1, <2>6, RoundAnswersGoes, GoesKeeps DEF RoundAnswers
  <2>7. CASE RoundCalls(t)
    BY <2>1, <2>7, RoundCallsGoes, GoesKeeps, ZenonT(60) DEF RoundCalls
  <2>8. CASE Resume(t)
    BY <2>1, <2>8, ResumeGoes, GoesKeeps, SMTT(60) DEF Resume
  <2>9. ASSUME NEW k \in DOMAIN turn[t].tasks, ToolStart(t, k)
        PROVE  TraceInv'
    BY <2>1, <2>9, ToolStartGoes, GoesKeeps, ZenonT(60) DEF ToolStart
  <2>10. ASSUME NEW k \in DOMAIN turn[t].tasks, RetrieverStart(t, k)
         PROVE  TraceInv'
    BY <2>1, <2>10, RetrieverStartGoes, GoesKeeps, ZenonT(60) DEF RetrieverStart
  <2>11. ASSUME NEW k \in DOMAIN turn[t].tasks, RetrieverEnds(t, k)
         PROVE  TraceInv'
    BY <2>1, <2>11, RetrieverEndsGoes, GoesKeeps, ZenonT(60) DEF RetrieverEnds
  <2>12. ASSUME NEW k \in DOMAIN turn[t].tasks, ToolEnds(t, k)
         PROVE  TraceInv'
    BY <2>1, <2>12, ToolEndsGoes, GoesKeeps, SMTT(60) DEF ToolEnds
  <2>13. ASSUME NEW k \in DOMAIN turn[t].tasks, TaskCancelled(t, k)
         PROVE  TraceInv'
    BY <2>1, <2>13, TaskCancelledGoes, GoesKeeps DEF TaskCancelled
  <2>14. CASE Report(t)
    BY <2>1, <2>14, ReportGoes, GoesKeeps DEF Report
  <2>15. CASE AfterTools(t)
    BY <2>1, <2>15, AfterToolsGoes, GoesKeeps, SMTT(60), ZenonT(60) DEF AfterTools
  <2>16. CASE Close(t)
    BY <2>1, <2>16, CloseGoes, GoesKeeps DEF Close
  <2>17. CASE Cancelled(t)
    BY <2>1, <2>17, CancelledGoes, GoesKeeps DEF Cancelled
  <2>18. CASE Cancel(t)
    BY <2>1, <2>18, CancelGoes, GoesKeeps DEF Cancel
  <2>19. CASE Abandon(t)
    BY <2>1, <2>19, AbandonGoes, GoesKeeps DEF Abandon
  <2>20. CASE Persist(t)
    BY <2>20, PersistKeeps
  <2>21. CASE Rate(t)
    BY <2>21, RateKeeps
  <2> QED
    BY <1>1, <2>2, <2>3, <2>4, <2>5, <2>6, <2>7, <2>8, <2>9, <2>10, <2>11, <2>12, <2>13, <2>14,
       <2>15, <2>16, <2>17, <2>18, <2>19, <2>20, <2>21 DEF Step
<1>2. CASE Reset
  <2>1. active' \in Threads
    BY <1>2, TraceAssumption DEF Reset, Threads, TraceInv
  <2> QED
    BY <1>2, <2>1 DEF Reset, TraceInv, Anchors, RowsSound, ScoresSound, ScoresHitTheirTurn
<1>3. CASE UNCHANGED vars
  BY <1>3 DEF vars, TraceInv, Anchors, RowsSound, ScoresSound, ScoresHitTheirTurn
<1> QED
  BY <1>1, <1>2, <1>3 DEF Next

LEMMA TraceInvariant == Spec => []TraceInv
<1>1. Init => TraceInv
  <2> SUFFICES ASSUME Init
               PROVE  TraceInv
    OBVIOUS
  <2>1. /\ NoTurn \in TurnType /\ NoTurn.at = "new" /\ NoTurn.seq = NoSeq
        /\ NoTurn.spans = <<>> /\ NoTurn.tasks = <<>>
    <3>1. <<>> \in Seq(SpanType) /\ <<>> \in Seq(TaskType) /\ 0 \in 0..MaxRounds
      BY TraceAssumption
    <3> QED
      BY <3>1 DEF NoTurn, TurnType, Places, NoSeq, Root
  <2>2. TurnSound(NoTurn)
    <3>1. Placed(NoTurn)
      BY <2>1 DEF Placed, Bound, Called, Thinks
    <3> QED
      BY <2>1, <3>1 DEF TurnSound, Nested, TasksSound, Owed
  <2>3. \A t \in Turns : turn[t] = NoTurn
    BY DEF Init
  <2>4. Anchors
    BY <2>1, <2>3 DEF Anchors
  <2>5. RowsSound
    BY DEF Init, RowsSound
  <2>6. active \in Threads /\ seqs \in [Threads -> Nat] /\ turn \in [Turns -> TurnType]
    BY <2>1, TraceAssumption, SMTT(60) DEF Init, Threads
  <2> QED
    BY <2>2, <2>3, <2>4, <2>5, <2>6 DEF Init, TraceInv, ScoresSound, ScoresHitTheirTurn
<1> QED
  BY <1>1, TraceSteps, PTL DEF Spec

-----------------------------------------------------------------------------
(* The theorems.                                                           *)

\* However the tool calls of a reply interleave, every span hangs under the span of the call
\* that opened it (the context variable of observe_tool, observe_embedding and
\* observe_retrieval).
THEOREM Nests == Spec => []SpansNest
<1>1. TraceInv => SpansNest
  <2> SUFFICES ASSUME TraceInv, NEW t \in Turns, NEW i \in DOMAIN turn[t].spans, i # Root
               PROVE  LET s == turn[t].spans[i]
                          p == turn[t].spans[s.parent]
                      IN IF s.type = "retriever" THEN p.type = "tool" /\ p.by = s.by
                         ELSE s.parent = Root
    BY DEF SpansNest
  <2>1. turn[t].spans \in Seq(SpanType) /\ Nested(turn[t].spans)
    BY DEF TraceInv, TurnSound, TurnType
  <2>2. i \in 2..Len(turn[t].spans)
    BY <2>1 DEF Root
  <2> QED
    BY <2>1, <2>2 DEF Nested
<1> QED
  BY <1>1, TraceInvariant, PTL

\* A turn that is over has ended its own span and every tool span, and the mirror has closed
\* every span it opened, whatever failed or was cancelled, but for what a call that is still
\* on its way out after the cancellation has itself to close (observe_turn, observe_tool,
\* _mirror_end_failed; gather() in loop.py).
THEOREM KeepsWhole == Spec => []KeptWhole
<1>1. TraceInv => KeptWhole
  <2> SUFFICES ASSUME TraceInv, NEW t \in Turns, turn[t].at \in {"over", "gone"},
                      NEW i \in DOMAIN turn[t].spans,
                      ~ \E k \in DOMAIN turn[t].tasks : Closes(turn[t].tasks[k], i)
               PROVE  /\ turn[t].spans[i].mirror # "open"
                      /\ turn[t].spans[i].type \in {"agent", "tool"} => turn[t].spans[i].ended
    BY DEF KeptWhole
  <2>1. PICK T \in TurnType : T = turn[t]
    BY DEF TraceInv
  <2>2. /\ TurnSound(T) /\ T.at \in {"over", "gone"}
        /\ i \in 1..Len(T.spans) /\ T.spans[i] \in SpanType
    BY <2>1 DEF TraceInv, TurnType
  <2>3. ~ Thinks(T) /\ ~ \E k \in 1..Len(T.tasks) : Closes(T.tasks[k], i)
    <3>1. DOMAIN T.tasks = 1..Len(T.tasks)
      BY DEF TurnType
    <3> QED
      BY <2>1, <2>2, <3>1 DEF Thinks
  <2>4. CASE i = Root
    <3>1. ~ Due(T.spans[i]) /\ T.spans[i].ended
      BY <2>2, <2>4 DEF TurnSound, Placed
    <3> QED
      BY <2>1, <3>1, Zenon DEF Due
  <2>5. CASE i # Root
    <3>1. i \in 2..Len(T.spans)
      BY <2>2, <2>5 DEF Root
    <3>2. ~ Due(T.spans[i]) /\ T.spans[i].type # "agent"
      BY <2>2, <2>3, <3>1 DEF TurnSound, Nested, Owed
    <3> QED
      BY <2>1, <3>2, Zenon DEF Due
  <2> QED
    BY <2>4, <2>5
<1> QED
  BY <1>1, TraceInvariant, PTL

\* A rating of an answer of the current thread is put on that answer's trace or on the
\* session, though anchors start again in every thread, turns share a thread and rows come
\* late or never; one of an earlier thread's, on that or on the answer with the same anchor
\* in the current thread (bind_turn_seq, _persist, lookup_lf_trace_id, the feedback route).
THEOREM ScoresFind == Spec => []ScoresHitTheirTurn
<1>1. TraceInv => ScoresHitTheirTurn
  BY DEF TraceInv
<1> QED
  BY <1>1, TraceInvariant, PTL

\* The variables keep their types.
THEOREM TraceTyped == Spec => []TypeOK
<1>1. TraceInv => TypeOK
  <2> SUFFICES ASSUME TraceInv
               PROVE  TypeOK
    OBVIOUS
  <2>1. ASSUME NEW t \in Turns, NEW i \in DOMAIN turn[t].spans
        PROVE  /\ turn[t].spans[i].mirror \in {"none", "open", "ended"}
               /\ turn[t].spans[i].parent \in 0..(i - 1)
    <3>1. PICK r \in Seq(SpanType) : r = turn[t].spans /\ Nested(r)
      BY SMTT(60) DEF TraceInv, TurnSound, TurnType
    <3>2. i \in 1..Len(r) /\ r[i] \in SpanType
      BY <3>1
    <3>3. r[i].parent \in 0..(i - 1)
      BY <3>2, <3>1, SMTT(60) DEF Nested, Root
    <3> QED
      BY <3>1, <3>2, <3>3 DEF SpanType
  <2>2. \A t \in Turns :
          turn[t].thread \in Threads \cup {NoThread} /\ turn[t].rounds \in 0..MaxRounds
    BY DEF TraceInv, TurnType
  <2>3. active \in Threads /\ seqs \in [Threads -> Nat] /\ pending \subseteq Turns
    BY DEF TraceInv
  <2> QED
    BY <2>1, <2>2, <2>3, Zenon DEF TypeOK
<1> QED
  BY <1>1, TraceInvariant, PTL
=============================================================================
