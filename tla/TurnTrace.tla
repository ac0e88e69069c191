----------------------------- MODULE TurnTrace -----------------------------
(***************************************************************************)
(* The trace of a chat turn (backend/app/agent/tracing.py) and its mirror  *)
(* in Langfuse (langfuse_mirror.py), as agent/loop.py drives them, and the *)
(* rating that looks a trace up (router.py).                               *)
(*                                                                         *)
(* A turn is an async generator.  It is suspended in an await (the store,  *)
(* the model, its tools) or in a yield while a chunk is sent.  A client    *)
(* that leaves cancels the first in its own task; a generator left in a    *)
(* yield is closed later by the event loop, in a task and a context of its *)
(* own, where the context variables cannot be reset: what the finally      *)
(* block still had to do is not done.                                      *)
(*                                                                         *)
(* A turn that is cancelled in its tools does not wait for all of them:    *)
(* gather() raises as soon as the first has been cancelled, and the others *)
(* end when they have let go of what they hold (a connection, a request),  *)
(* after the turn is over and its row is written, it may be.               *)
(*                                                                         *)
(* Tracing is on, with a pool; without one the wrappers pass everything    *)
(* through and keep nothing.                                               *)
(***************************************************************************)
EXTENDS Integers, Sequences, FiniteSets

CONSTANTS
  Turns,
  MayLeave,    \* whether a client may leave while a chunk is being sent
  LookBack,    \* the LIMIT of lookup_lf_trace_id
  Replies,     \* bound: turn -> the tool calls a reply may have, by kind
  MaxRounds,   \* agent_max_tool_rounds(), and the wrap-up round after them
  MaxThreads   \* bound: threads of the one session

ASSUME TraceAssumption ==
  /\ MayLeave \in BOOLEAN
  /\ LookBack \in Nat \ {0}
  /\ Replies \in [Turns -> SUBSET (Seq({"kb", "plain"}) \ {<<>>})]
  /\ MaxRounds \in Nat
  /\ MaxThreads \in Nat \ {0}

VARIABLES
  turn,        \* turn -> the generator: where it is, its _Trace and its tool tasks
  active,      \* the session's current thread
  seqs,        \* thread -> the seq of its last stored turn
  pending,     \* tracing._pending: turns with a persistence task
  rows,        \* agent_traces, in created_at order
  scores       \* history: the turn rated, what the score was put on, and whether the
               \* answer was one of the current thread

vars == <<turn, active, seqs, pending, rows, scores>>

Threads == 1..MaxThreads
NoThread == 0
NoSeq == 0

-----------------------------------------------------------------------------
(* Spans.  The root is span 1.                                             *)

Root == 1

\* by: the tool call that opened it (0: the turn itself).  ended: end_ms is set.  mirror:
\* its Langfuse handle.
Span(type, by, parent, mirror) ==
  [type |-> type, by |-> by, parent |-> parent, ended |-> FALSE, mirror |-> mirror]

\* A child of a span that has no handle has none.  (The mirror may fail to open a child
\* too: the properties would say nothing of such a span.)
Opened(T, type, by, parent) ==
  [T EXCEPT !.spans = Append(@, Span(type, by, parent,
       IF T.spans[parent].mirror = "none" THEN "none" ELSE "open"))]

MirrorEnd(s) == IF s.mirror = "open" THEN [s EXCEPT !.mirror = "ended"] ELSE s
Ended(T, i) == [T EXCEPT !.spans[i] = MirrorEnd([@ EXCEPT !.ended = TRUE])]

LeftOpen(T, i) == T                                                       \* mutant
\* A body that raised: the mirror's span is closed, the trace's keeps no end.
Raised(T, i) == [T EXCEPT !.spans[i] = MirrorEnd(@)]
\* observe_tool's finally sets the end in any case.
ToolRaised(T, i) == [Raised(T, i) EXCEPT !.spans[i].ended = TRUE]

\* A tool call is a task: it runs in a copy of the context gather() was called in.
Task(kind) == [kind |-> kind, at |-> "ready", span |-> 0, parent |-> Root, child |-> 0]

\* A call that has begun and not ended, and whether it is the one to close the span i.
Busy(c) == c.at \in {"running", "embedding", "embedded", "searching", "answering"}
Closes(c, i) ==
  Busy(c) /\ (i = c.span \/ (c.at \in {"embedding", "searching"} /\ i = c.child))

LastSetParent(T, k) == T.lastSet                                          \* mutant
\* _current_parent as that task sees it.
Parent(T, k) == T.tasks[k].parent

-----------------------------------------------------------------------------
NoTurn == [at |-> "new", spans |-> <<>>, tasks |-> <<>>, thread |-> NoThread, seq |-> NoSeq,
           rounds |-> 0, next |-> "none", lastSet |-> Root]

Init ==
  /\ turn = [t \in Turns |-> NoTurn]
  /\ active = 1 /\ seqs = [th \in Threads |-> 0]
  /\ pending = {} /\ rows = <<>> /\ scores = {}

Is(t, at) == turn[t].at = at
Become(t, T) == turn' = [turn EXCEPT ![t] = T]
At(T, at) == [T EXCEPT !.at = at]

\* observe_turn opens the root; the mirror may fail to.
Begin(t) ==
  /\ Is(t, "new")
  /\ \E m \in {"open", "none"} :
       Become(t, [NoTurn EXCEPT !.at = "opened", !.spans = <<Span("agent", 0, 0, m)>>])
  /\ UNCHANGED <<active, seqs, pending, rows, scores>>

\* The first round, and every next one, opens an llm span.
Thinking(T) == At(Opened(T, "llm", 0, Root), "thinking")

\* get_thread answers: the trace is bound to the thread, the question is stored.
Bind(t) ==
  /\ Is(t, "opened")
  /\ Become(t, Thinking([turn[t] EXCEPT !.thread = active]))
  /\ seqs' = [seqs EXCEPT ![active] = @ + 1]
  /\ UNCHANGED <<active, pending, rows, scores>>

\* A chunk is being sent; `next` is where the generator goes on.
Yield(T, next) == [T EXCEPT !.at = "yielding", !.next = next]

Delta(t) ==
  /\ Is(t, "thinking")
  /\ Become(t, Yield(turn[t], "thinking"))
  /\ UNCHANGED <<active, seqs, pending, rows, scores>>

RoundFails(t) ==
  /\ Is(t, "thinking")
  /\ Become(t, Yield(Raised(turn[t], Len(turn[t].spans)), "closing"))
  /\ UNCHANGED <<active, seqs, pending, rows, scores>>

Stored(T, n) == seqs' = [seqs EXCEPT ![T.thread] = @ + n]
\* bind_turn_seq, with no await since the n appends before it.
Stamped(T, n) == [T EXCEPT !.seq = seqs[T.thread] + n]

\* The reply ends the turn: it is stored, the anchor is bound, `done` is sent.
RoundAnswers(t) ==
  LET T == turn[t] IN
  /\ Is(t, "thinking")
  /\ Become(t, Yield(Stamped(Ended(T, Len(T.spans)), 1), "closing"))
  /\ Stored(T, 1)
  /\ UNCHANGED <<active, pending, rows, scores>>

RoundCalls(t) ==
  LET T == turn[t] IN
  /\ Is(t, "thinking") /\ T.rounds < MaxRounds
  /\ \E kinds \in Replies[t] :
       Become(t, [Yield(Ended(T, Len(T.spans)), "tools") EXCEPT
                    !.rounds = @ + 1, !.tasks = [k \in DOMAIN kinds |-> Task(kinds[k])]])
  /\ Stored(T, 1)
  /\ UNCHANGED <<active, pending, rows, scores>>

\* The chunk is gone and the next one is asked for.
Resume(t) ==
  /\ Is(t, "yielding")
  /\ Become(t, At(turn[t], turn[t].next))
  /\ UNCHANGED <<active, seqs, pending, rows, scores>>

-----------------------------------------------------------------------------
(* Tool calls, side by side.                                               *)

TaskOf(t, k, at) ==
  turn[t].at = "tools" /\ k \in DOMAIN turn[t].tasks /\ turn[t].tasks[k].at = at

\* observe_tool: the span, and itself as the parent of what it calls.
ToolStart(t, k) ==
  LET T == Opened(turn[t], "tool", k, Parent(turn[t], k))
      i == Len(T.spans)
  IN /\ TaskOf(t, k, "ready")
     /\ Become(t, [T EXCEPT !.tasks[k] = [@ EXCEPT !.at = "running", !.span = i, !.parent = i],
                            !.lastSet = i])
     /\ UNCHANGED <<active, seqs, pending, rows, scores>>

\* observe_embedding, then observe_retrieval.
RetrieverStart(t, k) ==
  LET T == Opened(turn[t], "retriever", k, Parent(turn[t], k))
      calls(at) == [T EXCEPT !.tasks[k] = [@ EXCEPT !.at = at, !.child = Len(T.spans)]]
  IN
  /\ turn[t].at = "tools" /\ k \in DOMAIN turn[t].tasks /\ turn[t].tasks[k].kind = "kb"
  /\ \/ TaskOf(t, k, "running") /\ Become(t, calls("embedding"))
     \/ TaskOf(t, k, "embedded") /\ Become(t, calls("searching"))
  /\ UNCHANGED <<active, seqs, pending, rows, scores>>

\* Either may raise (an embedding only over a body it cannot read); the tool then answers
\* with an error.
RetrieverEnds(t, k) ==
  LET T == turn[t]
      c == T.tasks[k]
      after == IF c.at = "embedding" THEN "embedded" ELSE "answering"
  IN /\ TaskOf(t, k, "embedding") \/ TaskOf(t, k, "searching")
     /\ \/ Become(t, [Ended(T, c.child) EXCEPT !.tasks[k].at = after])
        \/ Become(t, [Raised(T, c.child) EXCEPT !.tasks[k].at = "answering"])
     /\ UNCHANGED <<active, seqs, pending, rows, scores>>

\* The parent is reset, and the span ended.
TaskOver(T, k, at) ==
  [T EXCEPT !.tasks[k] = [@ EXCEPT !.at = at, !.parent = Root], !.lastSet = Root]

ToolEnds(t, k) ==
  LET T == turn[t] IN
  /\ \/ TaskOf(t, k, "running") /\ T.tasks[k].kind = "plain"
     \/ TaskOf(t, k, "answering")
  /\ Become(t, TaskOver(Ended(T, T.tasks[k].span), k, "ended"))
  /\ UNCHANGED <<active, seqs, pending, rows, scores>>

AllEnded(T) == \A k \in DOMAIN T.tasks : T.tasks[k].at = "ended"

\* All have answered: the results are reported and stored, one chunk or more.
Report(t) ==
  /\ Is(t, "tools") /\ AllEnded(turn[t])
  /\ Become(t, Yield(turn[t], "reported"))
  /\ UNCHANGED <<active, seqs, pending, rows, scores>>

\* Cards alone end the turn with an anchor, an expired session without one; otherwise the
\* model goes on.
AfterTools(t) ==
  LET T == [turn[t] EXCEPT !.tasks = <<>>]
      n == Len(turn[t].tasks)
  IN /\ Is(t, "reported")
     /\ Stored(T, n)
     /\ \/ Become(t, Yield(Stamped(T, n), "closing"))
        \/ Become(t, Yield(T, "closing"))
        \/ Become(t, Thinking(T))
     /\ UNCHANGED <<active, pending, rows, scores>>

-----------------------------------------------------------------------------
(* The end of a turn.                                                      *)

\* observe_turn's finally, in the turn's own context.
Closed(T) == At(Ended(T, Root), "over")
Close(t) ==
  /\ Is(t, "closing")
  /\ Become(t, Closed(turn[t]))
  /\ pending' = pending \cup {t}
  /\ UNCHANGED <<active, seqs, rows, scores>>

\* The client leaves while the turn is in an await: the await raises.  gather() cancels
\* every task that has not ended.
Cancel(t) ==
  /\ \/ Is(t, "opened") /\ Become(t, At(turn[t], "closing"))
     \/ Is(t, "thinking") /\ Become(t, At(Raised(turn[t], Len(turn[t].spans)), "closing"))
     \/ Is(t, "tools") /\ Become(t, At(turn[t], "cancelling"))
  /\ UNCHANGED <<active, seqs, pending, rows, scores>>

\* One task ends as cancelled where it was: before it began, in its call, or in a retriever.
\* It closes its spans whenever that is.
TaskCancelled(t, k) ==
  LET T == turn[t]
      c == T.tasks[k]
      inner == IF c.at \in {"embedding", "searching"} THEN Raised(T, c.child) ELSE T
  IN /\ turn[t].at \in {"cancelling", "closing", "over", "gone"} /\ k \in DOMAIN T.tasks
     /\ \/ c.at = "ready" /\ Become(t, TaskOver(T, k, "cancelled"))
        \/ Busy(c) /\ Become(t, TaskOver(ToolRaised(inner, c.span), k, "cancelled"))
     /\ UNCHANGED <<active, seqs, pending, rows, scores>>

\* The first that ends as cancelled ends gather() (as does having nothing left to cancel).
GatherOver(T) == AllEnded(T) \/ \E k \in DOMAIN T.tasks : T.tasks[k].at = "cancelled"
Cancelled(t) ==
  /\ Is(t, "cancelling") /\ GatherOver(turn[t])
  /\ Become(t, At(turn[t], "closing"))
  /\ UNCHANGED <<active, seqs, pending, rows, scores>>

\* The client leaves while a chunk is sent: the generators are closed one by one elsewhere.
\* The model's span is closed as one that raised; the turn's finally stops at its first
\* reset.
Abandon(t) ==
  LET T == turn[t]
      inner == IF T.next = "thinking" THEN Raised(T, Len(T.spans)) ELSE T
  IN /\ MayLeave /\ Is(t, "yielding")
     /\ Become(t, [At(inner, "lost") EXCEPT !.spans[Root].ended = TRUE])
     /\ UNCHANGED <<active, seqs, pending, rows, scores>>

\* The spans that end in any case, however their bodies end, have ended.
Whole(T) == \A i \in DOMAIN T.spans : T.spans[i].type \in {"agent", "tool"} => T.spans[i].ended

\* _persist, a task of its own, takes the spans as they are; what it raises is dropped, and
\* the row with it.
Persist(t) ==
  /\ t \in pending
  /\ pending' = pending \ {t}
  /\ \/ rows' = Append(rows, [turn |-> t, thread |-> turn[t].thread, seq |-> turn[t].seq,
                              lf |-> turn[t].spans[Root].mirror # "none",
                              whole |-> Whole(turn[t])])
     \/ UNCHANGED rows
  /\ Become(t, At(turn[t], "gone"))
  /\ UNCHANGED <<active, seqs, scores>>

-----------------------------------------------------------------------------
(* The routes beside the chat.                                             *)

Reset ==
  /\ active < MaxThreads
  /\ active' = active + 1
  /\ UNCHANGED <<turn, seqs, pending, rows, scores>>

Own(thread) == {i \in DOMAIN rows : rows[i].thread = thread}
Newest(R) == {i \in R : Cardinality({j \in R : i < j}) < LookBack}

LookupAnyThread(thread, seq) ==                                            \* mutant
  {rows[i].turn : i \in {j \in Newest(DOMAIN rows) : rows[j].seq = seq /\ rows[j].lf}}
\* lookup_lf_trace_id: the traces of the newest rows of the thread with this anchor.
Lookup(thread, seq) ==
  {rows[i].turn : i \in {j \in Newest(Own(thread)) : rows[j].seq = seq /\ rows[j].lf}}

Score(t, on) ==
  scores' = scores \cup {[rated |-> t, on |-> on, current |-> turn[t].thread = active]}

\* A rating of any answer the client has been shown: its anchor is looked up on the thread
\* that is the session's now, and the score goes to the trace that has it, or to the session
\* when there is none.
Rate(t) ==
  /\ turn[t].seq # NoSeq
  /\ LET found == Lookup(active, turn[t].seq) IN
       \/ found = {} /\ Score(t, "session")
       \/ \E x \in found : Score(t, x)
  /\ UNCHANGED <<turn, active, seqs, pending, rows>>

-----------------------------------------------------------------------------
Step(t) ==
  \/ Bind(t) \/ Delta(t) \/ RoundFails(t) \/ RoundAnswers(t) \/ RoundCalls(t) \/ Resume(t)
  \/ \E k \in DOMAIN turn[t].tasks :
       ToolStart(t, k) \/ RetrieverStart(t, k) \/ RetrieverEnds(t, k) \/ ToolEnds(t, k)
         \/ TaskCancelled(t, k)
  \/ Report(t) \/ AfterTools(t) \/ Close(t) \/ Cancelled(t)

Next ==
  \/ \E t \in Turns :
       Begin(t) \/ Step(t) \/ Cancel(t) \/ Abandon(t) \/ Persist(t) \/ Rate(t)
  \/ Reset

Spec == Init /\ [][Next]_vars

-----------------------------------------------------------------------------
TypeOK ==
  /\ active \in Threads /\ seqs \in [Threads -> Nat]
  /\ pending \subseteq Turns
  /\ \A t \in Turns :
       /\ turn[t].thread \in Threads \cup {NoThread} /\ turn[t].rounds \in 0..MaxRounds
       /\ \A i \in DOMAIN turn[t].spans :
            /\ turn[t].spans[i].mirror \in {"none", "open", "ended"}
            /\ turn[t].spans[i].parent \in 0..i - 1

\* However the tool calls of a reply interleave, what a call does hangs under that call's
\* own span, the calls and the rounds under the turn's (the context variables).
SpansNest ==
  \A t \in Turns : \A i \in DOMAIN turn[t].spans :
    LET s == turn[t].spans[i]
        p == turn[t].spans[s.parent]
    IN i # Root =>
         IF s.type = "retriever" THEN p.type = "tool" /\ p.by = s.by ELSE s.parent = Root

\* No span is forgotten: once a turn is over, every tool span has its end and the mirror has
\* closed each span it opened, whatever failed or was cancelled in between, but for those of
\* a call that was cancelled and is still on its way out, which closes them as it ends, when
\* the row may have been written.
KeptWhole ==
  \A t \in Turns :
    turn[t].at \in {"over", "gone"} =>
      \A i \in DOMAIN turn[t].spans :
        LET s == turn[t].spans[i] IN
        \/ s.mirror # "open" /\ (s.type \in {"agent", "tool"} => s.ended)
        \/ \E k \in DOMAIN turn[t].tasks : Closes(turn[t].tasks[k], i)

\* "Each `tool` span [SHALL record] the tool name, masked input, error flag and duration"
\* (observability-tracing/spec.md): no row is written with a tool span that has no end.
RowsAreWhole == \A i \in DOMAIN rows : rows[i].whole

\* A score is put on the trace of the answer that was rated or on the session, while its
\* thread is the current one: never on another turn's, though anchors start again in every
\* thread, rows come late or never, and two turns may write to one thread at a time.  The
\* score of an answer of an earlier thread goes astray no farther than the answer of the
\* current thread with the same anchor.
ScoresHitTheirTurn ==
  \A x \in scores :
    x.on # "session" =>
      /\ turn[x.on].seq = turn[x.rated].seq
      /\ x.on = x.rated \/ ~x.current

\* "Chips SHALL remain available on older answers (scrollback stays ratable)", "The stored
\* row references exactly that turn seq" (answer-feedback/spec.md): every score is the rated
\* answer's, whatever thread the answer is of.
RatingsArePrecise == \A x \in scores : x.on \in {x.rated, "session"}

\* "That divergence is the one thing the mirror must never produce" (tracing.py,
\* _mirror_end_failed): a turn of which the mirror has exported a span is kept in Postgres.
MirrorNeverAlone ==
  \A t \in Turns :
    turn[t].at = "lost" => \A i \in DOMAIN turn[t].spans : turn[t].spans[i].mirror # "ended"
=============================================================================
