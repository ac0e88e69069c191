------------------------------ MODULE ChatLoop ------------------------------
(***************************************************************************)
(* The tool-use loop behind POST /api/chat (backend/app/agent/loop.py),    *)
(* with what shares a conversation with it: the reset and ticket routes    *)
(* (router.py), flow events (events.py) and the tool dispatcher (tools.py, *)
(* tickets.py).                                                            *)
(*                                                                         *)
(* One session.  A request is an async generator: a step is the code       *)
(* between two of its suspension points, which are the awaits (the name    *)
(* lookup, the model's stream, the tools) and every yield to the client.   *)
(* At each of them the other requests run, and the server may cancel this  *)
(* one because its client went away.  The store is seen as callers see it: *)
(* thread i is the sequence of its turns, append_turn adds to the thread a *)
(* request holds, and reset makes a fresh thread current.                  *)
(***************************************************************************)
EXTENDS Transcript

CONSTANTS
  Requests,      \* the POST /api/chat and POST /api/ticket requests that will arrive
  Texts,         \* what users say: a subset of Sayings
  Replies,       \* what the model may answer: see Reply
  ToolOutcomes,  \* how a call of another tool than the ticket may end: a subset of OutcomeKinds
  MaxRounds,     \* config.agent_max_tool_rounds()
  Overlap,       \* may a request arrive while another one is being served?
  HelpCard,      \* may a request be the help card's POST /api/ticket?
  MaxThreads,    \* bound: threads ever created
  MaxFlowEvents, \* bound: flow events ever recorded
  Faults         \* what the environment may do: a subset of FaultKinds

\* expired: the tool reports AUTH_EXPIRED; raised: its handler raises or any other error.
OutcomeKinds == {"ok", "failed", "expired"}
\* model: the model call fails; abort: the client goes away; late: a ticket is created but
\* its answer comes after the ten-second limit; crash: the process restarts.
FaultKinds == {"model", "abort", "late", "crash"}
\* text: it has a text block; stop: stop_reason.
StopReasons == {"end_turn", "tool_use", "max_tokens"}
IsReply(r) ==
  /\ DOMAIN r = {"text", "tools", "says", "stop"}
  /\ r.text \in BOOLEAN /\ r.says \in Sayings /\ r.stop \in StopReasons
  /\ r.tools \in Seq(ToolKinds)

ASSUME ChatAssumption ==
  /\ Texts \subseteq Sayings
  /\ \A r \in Replies : IsReply(r)
  /\ ToolOutcomes \subseteq OutcomeKinds
  /\ MaxRounds \in Nat
  /\ MaxThreads \in Nat \ {0} /\ MaxFlowEvents \in Nat
  /\ Overlap \in BOOLEAN /\ HelpCard \in BOOLEAN
  /\ Faults \subseteq FaultKinds

VARIABLES
  log,       \* thread -> its turns; threads are numbered in the order they are created
  current,   \* the session's current thread
  named,     \* the threads whose first-name lookup is done (name_fetched)
  req,       \* request -> where it is and its locals
  filed,     \* history: thread -> tickets the ticketing service holds for it
  widget     \* flow events recorded so far

vars == <<log, current, named, req, filed, widget>>

-----------------------------------------------------------------------------
ThreadIds == 1..MaxThreads

\* new: not arrived.  naming / asking / gathering: suspended in the name lookup, the model
\* call, the tools.  starting / reporting: yielding "started" and "finished" events.
\* filing: the help card's ticket is on its way.  over: the response is complete.
\* gone: cancelled.
Pcs == {"new", "naming", "asking", "starting", "gathering", "reporting", "filing",
        "over", "gone"}
Endings == {"none", "done", "AUTH_EXPIRED", "AGENT_UNAVAILABLE", "ticket", "no_ticket"}
CallStates == {"running", "refused", "filed"} \cup OutcomeKinds

\* mine: seq of the request's user text; reminder: what the caps ask of all its model calls;
\* rounds: rounds so far; calls: model calls so far;
\* forced: tool_choice none; accepted: the API accepts the request in flight; sentLen: turns
\* in that request; seq: seq of the reply in hand; tools: its tool calls; out: their states;
\* told: how many were reported; ending and lastSeq: the terminal event.
Locals == [pc : Pcs, says : Sayings, thread : 0..MaxThreads, mine : Nat,
           reminder : {"none", "watch", "offer"}, rounds : Nat, calls : Nat,
           forced : BOOLEAN, accepted : BOOLEAN, sentLen : Nat, seq : Nat,
           tools : Seq(ToolKinds), out : Seq(CallStates), told : Nat,
           ending : Endings, lastSeq : Nat]

NotArrived ==
  [pc |-> "new", says |-> "plain", thread |-> 0, mine |-> 0, reminder |-> "none",
   rounds |-> 0, calls |-> 0, forced |-> FALSE, accepted |-> FALSE, sentLen |-> 0,
   seq |-> 0, tools |-> <<>>, out |-> <<>>, told |-> 0, ending |-> "none", lastSeq |-> 0]

Served(r) == req[r].pc \notin {"new", "over", "gone"}

Init ==
  /\ log = [i \in ThreadIds |-> <<>>]
  /\ current = 1
  /\ named = {}
  /\ req = [r \in Requests |-> NotArrived]
  /\ filed = [i \in ThreadIds |-> 0]
  /\ widget = 0

-----------------------------------------------------------------------------
(* The head of `while True`: build the request from the thread as it is now and open the *)
(* model's stream.                                                                       *)

Forced(rounds) == rounds >= MaxRounds

\* What curation and the merge make of the thread.
History(turns) == MessagesForModel(turns)

Asking(s, turns) ==
  [s EXCEPT !.pc = "asking", !.calls = @ + 1, !.forced = Forced(s.rounds),
            !.accepted = WireValid[History(turns)], !.sentLen = Len(turns),
            !.seq = 0, !.tools = <<>>, !.out = <<>>, !.told = 0]

\* The generator is finished and its locals are gone; its thread, the reply it ended on and
\* its terminal event remain.
Left(s, pc) == [NotArrived EXCEPT !.pc = pc, !.thread = s.thread, !.seq = s.seq]
Ended(s, how) == [Left(s, "over") EXCEPT !.ending = how]
DoneAtQuestion(s, turns) == [Ended(s, "done") EXCEPT !.lastSeq = s.mine]      \* mutant
Done(s, turns) == [Ended(s, "done") EXCEPT !.lastSeq = Last(turns).seq]

\* append_turn on the thread the request holds.
Appended(i, turns) == log' = [log EXCEPT ![i] = turns]

-----------------------------------------------------------------------------
\* The user's text goes to the thread, then the first model call starts, in one step.
Submit(r, s) ==
  LET i == s.thread
      q == NextSeq(log[i])
      turns == Append(log[i], UserText(q, s.says))
  IN /\ Appended(i, turns)
     /\ req' = [req EXCEPT ![r] = Asking([s EXCEPT !.mine = q, !.reminder = Reminder(turns)], turns)]

\* A chat request arrives: get_thread serves the current thread; a thread without its
\* client's name looks it up first.
Arrive(r) == \E says \in Texts :
  LET s == [NotArrived EXCEPT !.says = says, !.thread = current] IN
  /\ req[r].pc = "new"
  /\ Overlap \/ \A o \in Requests : ~Served(o)
  /\ \/ current \in named /\ Submit(r, s)
     \/ /\ current \notin named
        /\ req' = [req EXCEPT ![r] = [s EXCEPT !.pc = "naming"]]
        /\ UNCHANGED log
  /\ UNCHANGED <<current, named, filed, widget>>

\* fetch_first_name answered or gave up.
NameArrives(r) ==
  /\ req[r].pc = "naming"
  /\ named' = named \cup {req[r].thread}
  /\ Submit(r, req[r])
  /\ UNCHANGED <<current, filed, widget>>

\* The API rejects the request, or the call fails after the SDK's retries.
ModelFails(r) ==
  /\ req[r].pc = "asking"
  /\ ~req[r].accepted \/ "model" \in Faults
  /\ req' = [req EXCEPT ![r] = Ended(@, "AGENT_UNAVAILABLE")]
  /\ UNCHANGED <<log, current, named, filed, widget>>

\* The reply is appended whatever its stop_reason; only tool_use leads to the tools.
RunsTools(reply) == reply.stop = "tool_use" /\ reply.tools # <<>>

ModelReplies(r) == \E reply \in Replies :
  LET s == req[r]
      q == NextSeq(log[s.thread])
      turns == Append(log[s.thread], Assistant(q, reply.text, reply.tools, reply.says))
      replied == [s EXCEPT !.seq = q, !.tools = reply.tools]
  IN /\ s.pc = "asking" /\ s.accepted
     /\ s.forced => reply.tools = <<>>
     /\ Appended(s.thread, turns)
     /\ req' = [req EXCEPT ![r] =
          IF RunsTools(reply)
          THEN [replied EXCEPT !.pc = "starting", !.rounds = @ + 1]
          ELSE Done(replied, turns)]
     /\ UNCHANGED <<current, named, filed, widget>>

\* gather: every call starts; a ticket call the user did not initiate is refused.
AllowedAlways(tool, turns) == TRUE                             \* mutant
Allowed(tool, turns) == tool = "ticket" => UserInitiated(turns)

Dispatch(r) ==
  LET s == req[r] IN
  /\ s.pc = "starting"
  /\ req' = [req EXCEPT ![r].pc = "gathering",
       ![r].out = [n \in DOMAIN s.tools |->
          IF Allowed(s.tools[n], log[s.thread]) THEN "running" ELSE "refused"]]
  /\ UNCHANGED <<log, current, named, filed, widget>>

\* External: the ticketing service creates the ticket; its answer is still on the way.
Files(r, n) ==
  LET s == req[r] IN
  /\ s.pc = "gathering" /\ n \in DOMAIN s.out
  /\ s.tools[n] = "ticket" /\ s.out[n] = "running"
  /\ req' = [req EXCEPT ![r].out[n] = "filed"]
  /\ filed' = [filed EXCEPT ![s.thread] = @ + 1]
  /\ UNCHANGED <<log, current, named, widget>>

\* A tool call ends.  A ticket succeeds only with the service's answer, and is reported as
\* failed when there is none within ten seconds or, though created, its answer is late.
MayEnd(tool, state, how) ==
  \/ state = "refused" /\ how = "failed"
  \/ state = "running" /\ tool # "ticket" /\ how \in ToolOutcomes
  \/ state = "running" /\ tool = "ticket" /\ how = "failed"
  \/ state = "filed" /\ how = "ok"
  \/ state = "filed" /\ how = "failed" /\ "late" \in Faults

ToolEnds(r, n) == \E how \in OutcomeKinds :
  LET s == req[r]
      out == [s.out EXCEPT ![n] = how]
      all == \A k \in DOMAIN out : out[k] \in OutcomeKinds
  IN /\ s.pc = "gathering" /\ n \in DOMAIN s.out
     /\ MayEnd(s.tools[n], s.out[n], how)
     /\ req' = [req EXCEPT ![r].out = out, ![r].pc = IF all THEN "reporting" ELSE @]
     /\ UNCHANGED <<log, current, named, filed, widget>>

-----------------------------------------------------------------------------
(* One "finished" event per call; its result, and the memo of a ticket, are appended when *)
(* the generator resumes after it.                                                        *)

Failed(how) == how # "ok"

ResultTurn(s, n, turns) ==
  ToolResult(NextSeq(turns), <<s.seq, n>>, s.tools[n], Failed(s.out[n]))
RecordedWithoutMemo(s, n, turns) == Append(turns, ResultTurn(s, n, turns))    \* mutant
Recorded(s, n, turns) ==
  Append(turns, ResultTurn(s, n, turns))
  \o (IF s.tools[n] = "ticket" /\ ~Failed(s.out[n])
      THEN <<FlowEvent(NextSeq(turns) + 1, <<s.seq, n>>, "ticket")>> ELSE <<>>)

\* Every call succeeded and shows a card: nothing is left for the model to say.
CardsOnly(s) == \A n \in DOMAIN s.out : ~Failed(s.out[n]) /\ s.tools[n] \in {"card", "ticket"}
Expired(s) == "expired" \in ToSet(s.out)

AfterExpirySilent(s) == s                                      \* mutant
AfterExpiry(s) == Ended(s, "AUTH_EXPIRED")

\* mutant: expiry ends the turn only when no other call of the round has news to tell
AfterRoundTellingNews(s, turns) ==
  IF CardsOnly(s) THEN Done(s, turns)
  ELSE IF ToSet(s.out) = {"expired"} THEN AfterExpiry(s)
  ELSE Asking(s, turns)
AfterRound(s, turns) ==
  IF CardsOnly(s) THEN Done(s, turns)
  ELSE IF Expired(s) THEN AfterExpiry(s)
  ELSE Asking(s, turns)

Report(r) ==
  LET s == req[r]
      n == s.told + 1
      turns == Recorded(s, n, log[s.thread])
      reported == [s EXCEPT !.told = n]
  IN /\ s.pc = "reporting" /\ n \in DOMAIN s.out
     /\ Appended(s.thread, turns)
     /\ req' = [req EXCEPT ![r] =
          IF n < Len(s.out) THEN reported ELSE AfterRound(reported, turns)]
     /\ UNCHANGED <<current, named, filed, widget>>

-----------------------------------------------------------------------------
(* POST /api/ticket: the help card's ticket; no consent rule, the tap is the consent. *)

HelpArrives(r) ==
  /\ HelpCard /\ req[r].pc = "new"
  /\ req' = [req EXCEPT ![r] = [NotArrived EXCEPT
       !.pc = "filing", !.thread = current, !.tools = <<"ticket">>, !.out = <<"running">>]]
  /\ UNCHANGED <<log, current, named, filed, widget>>

\* External: the service creates the ticket.
HelpFiles(r) ==
  /\ req[r].pc = "filing" /\ req[r].out = <<"running">>
  /\ req' = [req EXCEPT ![r].out = <<"filed">>]
  /\ filed' = [filed EXCEPT ![req[r].thread] = @ + 1]
  /\ UNCHANGED <<log, current, named, widget>>

HelpEnds(r) == \E how \in {"ok", "failed"} :
  LET s == req[r]
      q == NextSeq(log[s.thread])
  IN /\ s.pc = "filing" /\ MayEnd("ticket", s.out[1], how)
     /\ IF how = "ok"
        THEN Appended(s.thread, Append(log[s.thread], FlowEvent(q, <<q, 1>>, "ticket")))
        ELSE UNCHANGED log
     /\ req' = [req EXCEPT ![r] = Ended(@, IF how = "ok" THEN "ticket" ELSE "no_ticket")]
     /\ UNCHANGED <<current, named, filed, widget>>

-----------------------------------------------------------------------------
\* A report or card delivered by the widget leaves a memo on the current thread.
RecordFlowEvent ==
  /\ widget < MaxFlowEvents
  /\ widget' = widget + 1
  /\ LET q == NextSeq(log[current])
     IN Appended(current, Append(log[current], FlowEvent(q, <<q, 0>>, "none")))
  /\ UNCHANGED <<current, named, req, filed>>

\* POST /api/chat/reset: requests in flight keep the thread they hold.
Reset ==
  /\ current < MaxThreads
  /\ current' = current + 1
  /\ UNCHANGED <<log, named, req, filed, widget>>

\* The client went away: the server cancels the generator where it is suspended.  (The
\* ticket route is no stream: it runs to its end.)
Abort(r) ==
  /\ "abort" \in Faults
  /\ Served(r) /\ req[r].pc # "filing"
  /\ req' = [req EXCEPT ![r] = Left(@, "gone")]
  /\ UNCHANGED <<log, current, named, filed, widget>>

\* The process restarts: requests die, and what the queue had not written is lost: the tail
\* of a thread, and with it every younger thread.
Crash ==
  /\ "crash" \in Faults
  /\ \E c \in 1..current : \E n \in 0..Len(log[c]) :
       /\ current' = c
       /\ log' = [t \in DOMAIN log |-> IF t < c THEN log[t]
                                       ELSE IF t = c THEN SubSeq(log[c], 1, n) ELSE <<>>]
  /\ req' = [r \in Requests |-> IF Served(r) THEN Left(req[r], "gone") ELSE req[r]]
  /\ named' = {}
  /\ UNCHANGED <<filed, widget>>

\* What one request does next, the arrival apart.
Advance(r) ==
  \/ NameArrives(r) \/ ModelFails(r) \/ ModelReplies(r) \/ Dispatch(r) \/ Report(r)
  \/ \E n \in 1..Len(req[r].out) : ToolEnds(r, n)
  \/ HelpEnds(r)

Next ==
  \/ \E r \in Requests :
       \/ Arrive(r) \/ HelpArrives(r) \/ Advance(r) \/ HelpFiles(r) \/ Abort(r)
       \/ \E n \in 1..Len(req[r].out) : Files(r, n)
  \/ RecordFlowEvent \/ Reset \/ Crash

Spec == Init /\ [][Next]_vars

\* A tool call ends by itself unless it is a search: the upstream and ticketing services are
\* called with a time limit, the database of search_knowledge_base without one.
EndsInTime(r) == \E n \in DOMAIN req[r].out : req[r].tools[n] # "search" /\ ToolEnds(r, n)
SearchEnds(r) == \E n \in DOMAIN req[r].out : req[r].tools[n] = "search" /\ ToolEnds(r, n)

\* What the server keeps running: the name lookup and the model call have time limits too,
\* and a client takes what it is sent or is gone (Abort).
Runs(r) ==
  \/ NameArrives(r) \/ ModelFails(r) \/ ModelReplies(r) \/ Dispatch(r) \/ Report(r)
  \/ EndsInTime(r) \/ HelpEnds(r)

FairSpec == Spec /\ \A r \in Requests : WF_vars(Runs(r))

\* The knowledge base answers every query, or refuses it.
SearchAnswers == \A r \in Requests : WF_vars(SearchEnds(r))

-----------------------------------------------------------------------------
(* What the loop promises. *)

\* Every variable stays in its range, and the turns of a thread are numbered 1, 2, ... in the
\* order they were appended, whoever appended them (store.py:181-182).
TypeOK ==
  /\ log \in [ThreadIds -> Seq(Turn)]
  /\ \A i \in ThreadIds : \A k \in DOMAIN log[i] : log[i][k].seq = k
  /\ current \in ThreadIds /\ named \subseteq ThreadIds
  /\ req \in [Requests -> Locals]
  /\ filed \in [ThreadIds -> Nat] /\ widget \in 0..MaxFlowEvents

\* The API accepts every model call: whatever widget memos, ticket memos and resets fell
\* between a reply and its results, each tool_use of the history is answered by the user
\* message after it and results lead that message (Thread.messages, store.py:184-217).
AlwaysAccepted == \A r \in Requests : req[r].pc = "asking" => req[r].accepted

Calls(r) == req'[r].calls > req[r].calls

\* At every model call the results of the request's own rounds go out verbatim: curation
\* stubs only what an earlier user text made old (curation.py:30-34).
OwnResultsVerbatim ==
  [][\A r \in Requests : Calls(r) =>
       \A t \in ToSet(Curated(log'[req'[r].thread])) :
         t.seq > req'[r].mine => \A k \in DOMAIN t.content : ~t.content[k].stub]_vars

\* Each further model call of a request repeats the bytes of its previous call and adds to
\* them: the rolling cache breakpoint of the previous round is read back (loop.py:354-360,
\* store.py:281-300).
Extends(bytes, before) == SubSeq(bytes, 1, Len(before)) = before
PromptGrows ==
  [][\A r \in Requests : Calls(r) /\ req[r].calls > 0 =>
       LET turns == log'[req'[r].thread] IN
       Extends(Bytes[History(turns)], Bytes[History(SubSeq(turns, 1, req[r].sentLen))])]_vars

\* A round in which a tool reported AUTH_EXPIRED is never followed by a model call of that
\* request, whatever its other calls returned (loop.py:562-570).
ExpiryNeverNarrated ==
  [][\A r \in Requests : Calls(r) => ~Expired(req[r])]_vars

\* The lastSeq of a `done` event names a turn of the answer it ends - its reply, a result of
\* its tools or a memo of its ticket - even when other requests and widget memos append to
\* the same thread: a rating anchored there rates this answer (loop.py:549-561, 576-588).
Answers(t, s) ==
  \/ t.seq = s.seq
  \/ t.kind \in {"tool_result", "flow_event"} /\ Head(t.content).id[1] = s.seq
DoneNamesTheAnswer ==
  [][\A r \in Requests : req'[r].ending = "done" /\ req[r].ending # "done" =>
       \E t \in ToSet(log'[req'[r].thread]) :
         t.seq = req'[r].lastSeq /\ Answers(t, req'[r])]_vars

\* Whenever nobody is in the middle of a ticket for thread i, the thread remembers each of
\* the tickets that exist for it (loop.py:508-537, router.py:221-231).
IsTicketMemo(t) == t.kind = "flow_event" /\ t.tool = "ticket"
TicketTurns(i) == Count(log[i], IsTicketMemo)
Ticketing(i) ==
  \E r \in Requests : req[r].thread = i /\ req[r].pc \in {"gathering", "reporting", "filing"}
TicketsRemembered == \A i \in ThreadIds : Ticketing(i) \/ filed[i] = TicketTurns(i)

\* A ticket the model raises was asked for, or agreed to, by the very message its request
\* answers, judged on the conversation up to that message (tickets.py:199-240; a seq is a
\* position, see TypeOK).
TicketsWanted ==
  [][\A r \in Requests : \A n \in DOMAIN req[r].out :
       Files(r, n) => UserInitiated(SubSeq(log[req[r].thread], 1, req[r].mine))]_vars

\* "The stream SHALL terminate": a client gets its terminal event, or is gone
\* (run_chat_stream, loop.py:198-256).
Answered == \A r \in Requests : Served(r) ~> req[r].pc \in {"over", "gone"}

\* It does, whatever the model, the tools and the other requests do, as long as the
\* knowledge base does not leave a search unanswered.
AnsweredIfSearched == SearchAnswers => Answered
=============================================================================
