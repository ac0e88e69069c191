# A verification project for the Choice Jini support assistant

TLA+ specifications, model-checking runs and machine-checked proofs for the
customer-support chatbot of this repository. Paths below are relative to the
repository's root; `agent/` is short for `backend/app/agent/`.

1. [The system](#1-the-system): its parts, their state, how they interact, what is hard
2. [The modules](#2-the-modules): how state and actions correspond to the code
3. [The runs](#3-the-runs): what each checks, its bounds, the fairness assumed
4. [Where the code departs from its documents](#4-where-the-code-departs-from-its-documents)
5. [The proofs](#5-the-proofs)
6. [What is not modelled](#6-what-is-not-modelled)
7. [The plan](#7-the-plan)

## 1. The system

A customer talks to a chat widget (React, `frontend/src`) that talks to a
FastAPI service (`backend/app`). Free text goes to an agent: a tool-use loop
around the Anthropic Messages API. Buttons go to guided flows that call FinX
(the broker's backend) for reports and data cards. Conversations are kept in
memory and persisted to Postgres in the background. The service is one process
with one event loop; whatever runs between two `await`s (or between two `yield`s
of a stream) is atomic, and everything else interleaves.

| Part | State it keeps | Operations | What makes it correct |
|---|---|---|---|
| Conversation store `agent/store.py` | cache session → thread, threads with their turns, bounded write queue, one writer task, prompt texts, `dropped_writes`; four tables | `get_thread`, `append_turn`, `reset_thread`, `record_feedback`, `register_prompt`, `start`, `close`; the writer's batches | one live object per session; turns reach the database in order and never collide with stored ones; the newest thread is served; a closed thread stays closed; drops are counted; shutdown drains |
| Wire transcript `agent/store.py` `Thread.messages`, `agent/curation.py`, `agent/caps.py`, consent in `agent/tickets.py` | none: derived from the turns | merge of user-role turns, marker index, stubbing of old tool results, caps, consent | the API accepts what is replayed; curation changes payloads only and never within a turn; counters and consent are those of the conversation so far |
| Chat loop `agent/loop.py`, routes `agent/router.py` | per request: thread, rounds, outcomes, anchors | stream the model, append its reply, run tools in parallel, append results and ticket memos, end with `done` or `error` | tool_use/tool_result pairing, bounded rounds, expiry ends the turn, `lastSeq` names the answer, every request ends |
| Tool dispatcher and ticket core `agent/tools.py`, `agent/tickets.py` | none here; tickets in Freshdesk | dispatch, consent guard, ticket with a ten-second limit | tickets are user-initiated, and remembered |
| Flow events `agent/events.py` | none | a task per delivered report that appends a memo | memos never break the wire form |
| Lifespan `backend/app/main.py` | pool, store, HTTP client | start, drain on shutdown | the drain comes before the pool is closed |
| Flows `backend/app/report.py`, `reports/`, `data/`, over the FinX client `finx/` | per request: its upstream calls, the attempt each is at; the file store and the contract-note store, entries with a time limit | P&L, ledger, tax, contract notes (list, download), holdings, brokerage, passbook, file link; call, retry connect failures, classify, fetch the artifact, hand out and redeem tokens | no call reaches FinX twice; mail is sent when chosen and only then, and remembered; "session expired" is said when it did; a partial passbook says so; a token lasts for its time to live |
| Greeting and clock `backend/app/greeting.py`, `clock.py` | the calendar cached under the file's mtime | `load_calendar`, market state, greeting key, profile call | an answer comes from what the file held; "open" in declared sessions only; the entry screen and the assistant agree |
| Knowledge base `backend/app/kb` | none | embed the query, rank by words and by vector, fuse, cut | agreement of both rankings wins; an embedding that fails costs one ranking and no more |
| Tracing `agent/tracing.py`, its mirror `agent/langfuse_mirror.py` | the span tree of a running turn, the task that persists it, rows | observe a turn, a model round, a tool, an embedding, a retrieval; persist; look up the trace of an answer | spans hang under what opened them; both sinks tell the same tree; a score meets the turn that was rated |
| Chat shell `frontend/src/chat`, flow engine `frontend/src/flow`, bridge `frontend/src/bridge.ts` | message list, running stream, form runs, expiry latch | submit (supersedes the running stream), render events, fill and edit slots, rate, restart | one terminal callback per exchange, no late writes, one expiry signal |
| Viewers, evaluations, scripts | none | | |

How they interact: a chat request, a reset, a rating, a help-card ticket and a
flow-event task all obtain the session's `Thread` object from the store and then
change it synchronously. Nothing serialises the requests of a session. A request
keeps the object it got, also after a reset made another thread current. The
writer sees row snapshots taken when a job is queued. The client's only influence
on a running stream is to go away, upon which the generator is cancelled where it
is suspended; the chat shell does so whenever the user submits again.

What is hard, and where each hazard is checked, is listed in `PROJECT.json`
under `hazards`. The main ones are: cache-miss races across the two queries of a
rehydration; a restart on a database that lacks the tail (or the middle) of a
thread; a full queue and failing statements, connections and snapshots; memos
and other requests' turns between a reply and its tool results; a client that
goes away in the middle of a round; consent, watermark and `lastSeq` read from a
live thread that others append to; shutdown against a full queue; answers of FinX
that are lost after it did the work; credentials that expire one by one; a
calendar edited between the look at its mtime and its reading; tool calls side by
side in one trace, a cancellation that does not wait for all of them, and a generator
closed in a context that is not its own; a database that takes a query and never
answers it.

## 2. The modules

| Module | Models | Used by |
|---|---|---|
| `ThreadStore` | the conversation store, its writer, its lifespan and the tables | `StoreRefinement` |
| `ConversationLog` | abstract: what the store promises its callers | `StoreRefinement` |
| `StoreRefinement` | the refinement mapping from the store to the log | `MCThreadStore`, the proofs |
| `ThreadStore_proofs` | proofs about the store: types and consistency, writes, refinement | |
| `Transcript` | pure operators on turns: messages, cache markers, curation, caps, consent, and what the API accepts | `TranscriptLog`, `ChatLoop` |
| `TranscriptLog` | a thread that grows by every kind of turn in any order, beside an incremental reference | |
| `ChatLoop` | the requests of one session and what shares the conversation with them | `MCChatLoop` |
| `FlowDesk` | the guided flows, the FinX client under them, the two token stores | `MCFlowDesk` |
| `MarketClock` | the calendar file, its cache, the market's state and the greeting | `MCMarketClock` |
| `TurnTrace` | the trace of a turn, its mirror, its persistence, and the rating that looks it up | `MCTurnTrace` |
| `KbRank` | reciprocal rank fusion | `KbSearch` |
| `KbSearch` | one search of the knowledge base | |
| `Transcript_proofs` | lemmas about the operators of `Transcript` | `TranscriptLog_proofs`, `ChatLoop_proofs` |
| `TranscriptLog_proofs`, `ChatLoop_proofs`, `FlowDesk_proofs`, `MarketClock_proofs`, `TurnTrace_proofs`, `KbSearch_proofs` | proofs about the module each is named after | |

Definitions marked `\* mutant` are single-definition variants of the code (an
off-by-one, a dropped check, a swapped order); properties are at the end of a
module. `PROJECT.json` pairs every
property with one of them: under the mutant the run that checks the property
must fail.

### ThreadStore

Callers are coroutines. `call[r]` is where caller `r` is: `row` and `turns` are
the two queries of `_rehydrate`, `install` the code after them, `hold` a caller
that has its thread. A thread id stands for (uuid, `created_at`): ids are handed
out in creation order, so "newest" is "largest". `mem[i]` is the `Thread` object
of id `i`, `cache` the `_threads` dictionary. A turn is its `seq` and a stamp
(`at`) that stands for its content.

| Code | Action |
|---|---|
| `get_thread`, hit / miss / after the queries | `GetCached` / `AwaitRow`, `RowArrives`, `TurnsArrive` / `InstallGet` |
| `reset_thread`, hit / after the queries | `ResetCached` / `InstallReset` |
| `append_turn`, `POST /api/feedback`, `register_prompt` | `AppendTurn`, `RecordFeedback`, `RegisterPrompt` |
| `_enqueue` | `Enqueue` |
| `_writer_loop`, `_write_batch`, `_apply` | `TakeBatch`, `SkipBatch`, `Acquire`, `AcquireFails`, `SkipSentinel`, `WriteJob`, `DropJob`, `Release`, `ReleaseFails` |
| `close`, the end of the process, its restart | `Close`, `SentinelAccepted`, `Drained`, `DrainTimesOut`, `Restart` |

A reset route of the product calls `get_thread` first, so that its
`reset_thread` finds the cache warm; the playground's does not. `DirectReset` is
the set of sessions reset in the second way. `owed`
is a history variable: writes offered by this process that no statement has
carried out.

A statement that raises is counted as a drop, whatever Postgres did with it. `DropJob`
has the three cases: the job was not carried out; it was in part (`ApplyInPart`: a
snapshot without the row that needed it, a thread row without its turn, since there is
no transaction); it was carried out as a whole and only the answer was lost. What is
carried out is so before the writer's next statement: a statement whose connection broke
and that Postgres finishes later, behind another one, is not in the model.

A wedged connection is the absence of a step. `WriterStep` is split into what the writer
does by itself (`WriterAlone`) and what ends with an answer of the database
(`WriterAnswered`); nothing makes the second kind, or the queries of a rehydration, ever
happen. At the drain's time limit (`DrainTimesOut`) the writer's task is cancelled and is
taken to end.

One detail of the abstraction: ids of threads are never reused, which is what
uuid4 gives, and the tables survive every step but are touched by the writer only.

### ConversationLog and StoreRefinement

`ConversationLog` has no queue, writer or suspended query. Its steps are: a new
thread of a session (`Make`), a turn whose number is beyond all that are known
(`Say`), the durable log taking a thread or a turn beyond what it has
(`KeepThread`, `KeepTurn`), a session taken up again at its newest durable thread
with every durable turn (`TakeUp`), and a new process (`Forget`). The mapping is
short: a thread is served when this process has an object of it, its known turns
are that object's, and the log is the tables. `KeepsTheLog` says that every step
of the store is one of these or none.

### Transcript and TranscriptLog

A content block is a type, an identity that stands for its bytes and a flag that
says whether its payload is a stub. What the code reads in a text by regular
expressions and markers is one of five values (`Sayings`): a user escalates or
agrees; a reply offers a ticket or asks a question; the rest is plain. An offer
counts as a question for the caps because the invites the prompt prescribes end
in a question mark. Every operator is a translation of the code's function of
nearly the same name; `WireValid` is external, what the Messages API demands of a
history, as far as the code relies on it (`agent/curation.py:17-18`,
`agent/store.py:187-195`). Recursion and the operators applied along it are
written as functions: they are evaluated lazily and can be used below theorems.

`Marks` is `with_history_breakpoint`: the messages that carry a cache marker, given
the anchor that `run_turn` kept. `Lookback` is `CACHE_LOOKBACK_BLOCKS`.

`TranscriptLog` appends any turn a writer may append, in any order that the
store's `append_turn` allows, and keeps running counters next to the turns; its
invariants compare the derived values with them.

### ChatLoop

One session, a set of requests (each a `POST /api/chat` or, with `HelpCard`, a
`POST /api/ticket`). `req[r].pc` is where a request is suspended: `naming` (the
first-name lookup), `asking` (the model's stream), `starting` and `reporting`
(yields of `started` and `finished` events), `gathering` (the tools), `filing`
(the help card's ticket). `log[i]` is the turns of thread `i`; `current` is the
session's thread.

| Code (`agent/loop.py` unless said) | Action |
|---|---|
| get_thread, name lookup, user text, caps, first call | `Arrive`, `NameArrives`, `Submit` |
| head of `while True` | `Asking` |
| model call fails or is rejected | `ModelFails` |
| reply appended; tools or `done` | `ModelReplies` |
| `asyncio.gather`, consent guard of `agent/tools.py` | `Dispatch`, `ToolEnds`, external `Files` |
| `finished` events, results, ticket memos, end of the round | `Report`, `AfterRound` |
| `agent/router.py` ticket, reset; `agent/events.py` | `HelpArrives`, `HelpFiles`, `HelpEnds`; `Reset`; `RecordFlowEvent` |
| cancellation; a restart | `Abort`, `Crash` |

Two yields in a row of the same request with nothing between them but local
computation are one suspension point, and the text deltas of a stream belong to
`asking`. Curation is on, as it is by default. The cold `get_thread` is a step of
`ThreadStore`, not of this module: here the thread is in the cache, and `Crash`
brings back the newest thread that was written with some tail missing, which is what the proofs leave
possible when no write was dropped. A request that ended keeps its thread, the
seq of its last reply and its terminal event; its other locals are cleared.

`Runs` are the steps the server keeps going: the lookup, the model call and the tools
end within time limits of their own, all but one. `search_knowledge_base` waits for
`pool.fetch`, which has none (nor has the pool: `main.py:55` sets no command timeout), so
that the end of a search (`SearchEnds`) is not among them.

### FlowDesk

A request is one of ten flows, from the widget or (but for links and the greeting)
from the agent's tools, which call the same cores. `req[r].legs` are its upstream
calls: one, or the passbook's two side by side. FinX is external: it authenticates
the header it is sent, may do the work and lose the answer, and mails a report when
the request's `RequestFor` code says so, which means different things to different
reports.

| Code | Action |
|---|---|
| the routes' header and body checks, token lookup, first call | `Arrive` (`Refuse`, `Call`, `NoteUnknown`, `FetchFile`) |
| `httpx.ConnectError` and its retry | `ConnectFails` |
| any other transport error | `CallBreaks` |
| `map_response` and what the core does with the result | `Replies`, `Settle` and one `...Answered` per core |
| `fetch_artifact`, `FileTokenStore.put` | `FetchFails`, `Fetched` |
| what no except clause expects: a status that is not hashable, an address that cannot be parsed | `StatusRaises`, `FetchRaises`: the outcome `raised` |
| time; credentials FinX stops accepting (external) | `Tick`, `Expire` |

An entry lives for its store's time to live, by the monotonic clock. A report's answer also
names a time: `delivery.py:63-87` computes it from the wall clock, apart from the entry, and
calls it a hint; the notes' answer names none. It is left out. `got` and `until` are history:
the token a request was answered with and when that token's time to live is over.

A note's token is bound to the session that listed it (`refs`). A file's entry has a
session too, but the route that serves it (`report.py:247-258`) looks the token up without
one: any holder is served. Section 4 has the texts that say otherwise.

### MarketClock

`Ask` is `load_calendar` up to its look at the mtime (the answer is given at once
when the cache is good or the file missing), `Read` the rest of it; `Edit` is
another process and may fall between. Each edit gives the file an mtime of its own: two
edits within the resolution of the file system's clock look the same to the cache, which
would keep the first, and that is not in the model. Both consumers, the assistant's status line
and the greeting, answer from what `load_calendar` gave. A day is cut into the slots
its windows begin and end at, so that every moment of a slot has the same answer. A special
day has a key, which is the calendar's (`MUHURAT` in the present file) and counts as open.

`Greeting` is `select_greeting` with its error paths. `Copies` are the sets of keys the copy
(`greetings.json`, read for each greeting) may have templates for: a key without one, like
a calendar that does not cover the day, is greeted with the default text. The empty set
is a file that cannot be read, and stands for an exception on the way as well.
`FallbackSessions` is the code's own list for when there is no calendar.

A walk over the windows of a day ("the first that holds the moment") is a set of
positions in the file's order and its least element. `IsCalendar` is what the loader
checks, with the keys of the instance; neither asks that a window ends
after it begins. `OwnKeys`, `KeptApart` and `InOrder` say what the file has beyond that.

### TurnTrace

`turn[t].at` is where the generator of turn `t` is: in an await (`opened`,
`thinking`, `tools`) or in a yield (`yielding`, with `next` where it goes on). The
difference matters when the client leaves: `Cancel` raises in the await, in the
turn's own context, and all the `finally` blocks run; `Abandon` leaves the generator
in its yield, to be closed by the event loop in another context, where
`ContextVar.reset` raises and ends `observe_turn`'s `finally`. A tool call is a task
with a copy of the context, so each has its own current parent.

`asyncio.gather` does not wait for its children when it is cancelled: it raises when the
first of them has been. `GatherOver` says so, and `TaskCancelled` may happen at any later
time, when the turn is closed, over or gone. `Persist` is the task that writes the row,
with the spans as they are then; `whole` is whether all that must have ended has.
`Rate` is the feedback route: it looks the anchor up on the thread that is the session's
now, whichever thread the rated answer was in, since the chips of older answers stay on the
screen (`frontend/src/chat`). `scores` remembers what was rated and what the score was put
on. The sticker's ratings, which have no anchor, are not in the model.

| Code | Action |
|---|---|
| `observe_turn`, `bind_thread`, model rounds | `Begin`, `Bind`, `RoundAnswers`, `RoundCalls`, `RoundFails` |
| `observe_tool`, `observe_embedding`, `observe_retrieval` | `ToolStart`, `RetrieverStart`, `RetrieverEnds`, `ToolEnds`, `TaskCancelled` |
| yields of the loop | `Delta`, `Report`, `Resume`, `AfterTools` |
| `observe_turn`'s `finally`, `_persist` | `Close`, `Persist` |

The loop is modelled here by its suspension points and its spans only; what it says
and stores is `ChatLoop`'s.

### KbSearch and KbRank

One search: `Refuse` and `Begin`, `embed_query` with its second attempt
(`EmbeddingArrives`, `EmbeddingRefused`, `EmbeddingFails`; `EmbeddingUnreadable` is the
body that raises through it, while a JSON null for a vector is no vector and degrades),
the legs in either order (`LegAnswers`, `LegFails`), and the fusion when the last has
answered. What Postgres ranks is any choice. Scores are fractions in `KbRank`, so a
tie is a tie; the code's floats may order two equal sums by their rounding. `sorted` is
given by what it does: the i-th chunk of `Fuse` is the one with i - 1 chunks before it.

## 3. The runs

Every run has `CHECK_DEADLOCK FALSE`: requests, threads and operations are
bounded, so each model stops when its bounds are used up, as does a server nobody
sends anything to.

| Run | Properties | Bounds |
|---|---|---|
| `StoreCore` | `StoreInv`, `WireOrder`, `MemoryIsAuthoritative`, `ServesLatest`, `DropsCounted`, `KeepsTheLog`, `HandsOutCached`, `ClosedStaysClosed`, `LastTapWins` | 1 session, 2 callers, 2 threads, 2 turns or ratings, queue and batch of 2; failing queries, jobs and acquires, crashes |
| `StoreClose` | `KeysHealable`, `StopsDrained`, `WritesSettle`, `CloseReturnsIfAnswered` | 1 caller, 1 thread, 2 builds, queue of 2; failing jobs, acquires and releases, shutdown, drain timeout, a direct reset |
| `TranscriptCheck` | `MergeSound`, `HistoryIsRead`, `CapsCountAlong`, `ConsentIsFresh` | all threads of up to 6 turns; look-back of 4 blocks |
| `ChatCore` | `AlwaysAccepted`, `TicketsRemembered`, `OwnResultsVerbatim`, `PromptGrows`, `TicketsWanted` | 2 requests, 2 tool rounds each, 2 threads, 1 widget memo, help card; failing model calls |
| `ChatLive` | `DoneNamesTheAnswer`, `ExpiryNeverNarrated`, `AnsweredIfSearched` | 2 overlapping requests, 1 round of two tools, of a ticket or a search and a card, help card; expiry, late answers, failing calls, aborts, crashes |
| `FlowDesk` | `AskedOnce`, `MailedAsChosen`, `ExpiryIsReal`, `PassbookIsHonest`, `TokensLast` | 2 requests: any flow, and one beside it that uses its tokens; 2 sessions; a file is good for 1 tick, a note for 2 |
| `ClockCheck` | `AnswersFromTheFile`, `OpenAsDeclared`, `OpeningsAnnounced`, `GreetingAgrees` | 5 days of 8 slots, two editions of the calendar, 2 edits, three copies of the greetings |
| `TurnTrace` | `SpansNest`, `KeptWhole`, `ScoresHitTheirTurn` | 2 turns, 2 threads, one round of two tools side by side, a look-back of 1 row |
| `KbCheck` | `AgreementWins`, `DegradesHonestly` | all pairs of rankings of 5 chunks; `k` of 3, legs of up to 4 |
| `ChatAborted`, `RatingAstray`, `KbRaises` | `AlwaysAccepted`, `RatingsArePrecise`, `EmbeddingFailureDegrades`, each violated | see section 4 |

What each shows beyond its sentence in `PROJECT.json` is in the comment before the
property. `TypeOK` of `ChatLoop`, `FlowDesk`, `MarketClock` and `TurnTrace` holds in
these instances and is in no configuration; add `INVARIANT TypeOK` to look at it.
`StoreInv` has `ThreadStore`'s `TypeOK` as a conjunct.

Why the bounds are enough. The store's hazards are between two callers, or a
caller and the writer, on one session: sessions share nothing but the queue, and a
queue of 2 is full as soon as anything interesting is in it. Two threads are
one reset; with a crash in between, a third adds no new relation between cache,
rows and queue. `StoreInv`, three of the others and the refinement are proved for
all values anyway. In `ChatCore` two tool
rounds are the first number at which a request's own results of an earlier round
meet a later call, and two requests the first at which history is curated. Six
turns in `TranscriptCheck` hold two exchanges with a tool round and something
between its tool_use and its result; with a look-back of 4 blocks they are deep
enough for the second marker. The caps are 2, 2 and 3 so that they trip.

In `FlowDesk` requests share nothing but the stores, so the pairs that matter are one
that puts a token and one that redeems it, puts another or is a plain tool call
beside it; the second session is there to present a token that is not its own. A
clock of 2 ticks is before, at and after a file's limit. The calendar of `ClockCheck`
has a Friday holiday, a Saturday with two special windows of one key, a Sunday that is a holiday
and has an evening session of another, a Monday, and a day out of coverage, with the slots of
the real file; two edits let a good edition, a broken file and another edition follow
each other during one load. The repository's copy has no template for one of the two keys.
In `TurnTrace` two turns are the fewest whose anchors can
be confused, in one thread (overlapping) or two (after a reset), and a look-back of 1
makes the row of one fall out of reach. `KbCheck` has legs of up to k + 1: with a
`RrfK` of 2 and the same legs, `AgreementWins` fails, so the depth the theorem of
section 5 allows is the exact bound; the code has k = 60 and depths of up to 40.

What `ChatCore` does not allow, and why: requests that overlap, clients that go
away, restarts and truncated replies break `AlwaysAccepted`, `OwnResultsVerbatim`
or `TicketsWanted` in the code as it is; section 4 has each. What
holds in spite of them is in `ChatLive`. The help card's ticket and the widget's
memo do overlap with chat requests in `ChatCore`.

Likewise `StoreCore` has no direct resets, because `ClosedStaysClosed` does not survive
them. So the reset of a session that is not in memory is taken in `StoreClose` only; for
`StoreInv` and `KeepsTheLog` it is covered by their theorems, which allow it.

Symmetry (callers of the store, requests of the loop, sessions of the flows) is used
in runs of invariants and action properties only; the two runs with liveness are
without. `KeepsTheLog` is a safety property, and its abstract state names no caller.

Fairness. What the code guarantees is in the specifications, what it only hopes for is a
hypothesis of the property, so that the text of the property says what it rests on.
`FairSpec` of `ThreadStore` is weak fairness of what the writer does by itself and of the two
continuations of `close()`: the event loop runs a task that can run. (`TimedSpec` adds the end
of the drain's time limit.) It does not make the database answer: the pool has no command
timeout, and `acquire`, the statements and the queries of a rehydration none either. So
`WritesSettle` and `CloseReturnsIfAnswered` have `DatabaseAnswers` as a hypothesis: every
call of the writer ends, with a result or an exception. Nothing makes a caller act, a fault
happen or a process restart, and neither property needs the drain's limit: the writer gets there.
`FairSpec` of `ChatLoop` is weak fairness of `Runs`, the steps of a request that end in time
by the server's own limits. `AnsweredIfSearched` has `SearchAnswers` as a hypothesis, the
knowledge base's answers; `Answered` is the same without it. Arrivals, the ticket service,
aborts, resets and crashes are not fair. The other
modules state safety only and assume no fairness: nothing in them waits for anything
but an external answer.

## 4. Where the code departs from its documents

Each of these is a run that TLC refutes; the finding in `PROJECT.json` quotes the
text.

* `ChatAborted` (bug): the assistant turn is stored before its tools run, and each
  result only after its `finished` event was taken. A client that goes away
  between them, which the chat shell does when the user submits again, leaves a
  tool_use without a result. Nothing repairs it on replay: every later request is
  rejected, and the user sees the agent as unavailable until the conversation is
  reset.
* `RatingAstray` (bug): the feedback route takes the session's current thread and looks
  the rated answer's anchor up on it. Anchors start again in every thread, and the chips of
  older answers stay on the screen, so a rating of an answer from before a reset is scored
  on, and stored against, an answer of the new thread, while the spec promises "exactly
  that turn seq".
* `KbRaises`: a 200 of OpenAI whose body is not JSON, or holds no embedding, raises through
  `embed_query` and `run_kb_search`. The spec asks for the lexical results, and the
  docstring says "never raises". The agent's dispatcher catches it; the REST route
  answers 500.

Others were met and have no run of their own. Where a change of a configuration shows one,
it is named.

* A client that goes away while a chunk is being sent leaves the
  generator in a yield. The event loop closes it in another context, in which
  `_current_parent.reset` raises, and the rest of `observe_turn`'s `finally` is
  skipped (`agent/tracing.py:549`): the mirror has the spans of a turn that Postgres never
  gets, "the one thing the mirror must never produce" (`agent/tracing.py:233-234`). With
  `INVARIANT MirrorNeverAlone`, `TurnTrace` fails.
* A client that goes away while two tools run: `gather` (`agent/loop.py:460`) raises when the
  first has been cancelled, and the row may be written while the span of another has no
  end, though each tool span is to have its duration
  (`openspec/specs/observability-tracing/spec.md:27-28`). With `INVARIANT RowsAreWhole`,
  `TurnTrace` fails.
* Consent is read from the newest user text of the thread (`agent/tools.py:511`), which may be
  another request's, while `openspec/specs/agent-loop/spec.md:238` speaks of the triggering
  user turn. With `Overlap = TRUE` and `Texts = {"plain", "escalate"}`, `TicketsWanted` fails
  in `ChatCore`.
* "A wedged tunnel degrades persistence, not chat" (`agent/store.py:51`): a session that is
  not in memory waits for two queries that nothing limits. With `PROPERTY ChatGoesOn`,
  `StoreClose` fails. And `close()` waits for a slot of a full queue without a limit
  (`agent/store.py:371`), before the limit of the drain begins: with `TimedSpec` and
  `PROPERTY CloseReturns`, `StoreClose` fails.
* A search that the database never answers leaves the client without the terminal event
  that `openspec/specs/agent-loop/spec.md:113` promises. With `PROPERTY Answered`, `ChatLive`
  fails.
* The cores of the flows say that they never raise (`report.py:106-107`,
  `data/money.py:235`). A status that is a JSON list or object cannot be looked up in a
  frozenset (`finx/client.py:64`), and `httpx.InvalidURL` is no `httpx.HTTPError`
  (`finx/delivery.py:103`). With `INVARIANT NeverRaises`, `FlowDesk` fails.
* `main.py:95-96`, `finx/delivery.py:6-8` and `:141-146` call the tokens of files bound to a
  session. `GET /api/report/file/{token}` is "token-only" by its docstring and serves any
  holder.
* A reply that ends on `max_tokens` inside a tool call, or before any text or call, is
  stored with a tool_use that is never run, or empty (`agent/loop.py:447`). With such
  a reply in `Replies`, `AlwaysAccepted` fails in `ChatCore`.
* A second message of the session moves the watermark between two rounds of the
  first, which `curation.py` says cannot happen. With `Overlap = TRUE`,
  `OwnResultsVerbatim` fails in `ChatCore`.
* After its await `reset_thread` does not look at the cache again
  (`agent/store.py:465`): a concurrent request's object stays active, and its next
  turn writes "active" over "resolved". Only the playground's reset can be cold. With
  `DirectReset = {s1}`, `ClosedStaysClosed` fails in `StoreCore`.
* A restart loses everything queued, not one step as
  `openspec/specs/conversation-store/spec.md:44` has it.
* `dropped_writes` may count what was written: a statement whose answer was lost, and, if
  giving the connection back to the pool raises, the whole batch. `DropsCounted` is therefore
  an inequality. The effect is a wrong metric.
* A ticket whose request is cancelled after the service answered leaves no memo. With
  `"abort"` in `Faults`, `TicketsRemembered` fails in `ChatCore`.
* The docstring of `last_user_message_index` says that it can only over-estimate the
  gap. A memo that lands while the first call of a turn runs is merged behind the
  point the API remembered, and the gap is under-estimated by it; `HistoryIsRead`
  excludes that case by its hypothesis.
* Between two windows of one special day the assistant says "closed for the day" and
  names a close that is still to come (`clock.py:409`). With
  `INVARIANT ClosedForTheDay`, `ClockCheck` fails; no special day of the present file
  has two windows.
* The comment at `finx/client.py:104` says a connect failure is retried once, as in the
  greeting's proxy; the client makes three attempts, the proxy two.
* `agent/events.py:3-7` says that a report without data leaves a memo; contract notes
  without data leave none.
* The tasks that persist traces are not awaited at shutdown (`main.py:68-80`), so the
  last ones may be lost; `Persist` may lose any.

## 5. The proofs

Every theorem is about a whole specification and all values of its constants: any
number of sessions, callers, requests, turns or days, any sizes and limits, any set
of faults. What is assumed of the constants is the named assumption of the module
(`StoreAssumption`, `ChatAssumption`, `LogAssumption`, `DeskAssumption`, `ClockAssumption`,
`TraceAssumption`, `SearchAssumption`, `DepthAssumption`), which TLC
evaluates in every run, and the hypotheses that the table names.

| Theorem | Module | Says |
|---|---|---|
| `TypeCorrect` | `ThreadStore_proofs` | `Spec => []TypeOK`, the queue's capacity included |
| `StoreInvariant` | `ThreadStore_proofs` | `Spec => []StoreInv` |
| `WireOrderHolds` | `ThreadStore_proofs` | `Spec => []WireOrder` |
| `MemoryAuthority` | `ThreadStore_proofs` | `Spec => []MemoryIsAuthoritative` |
| `LatestServed` | `ThreadStore_proofs` | `Spec => []ServesLatest` |
| `KeysHeal` | `ThreadStore_proofs` | `Spec => []KeysHealable` |
| `EveryDropCounted` | `ThreadStore_proofs` | `Spec => []DropsCounted` |
| `StopDrains` | `ThreadStore_proofs` | `Spec => []StopsDrained` |
| `LastTap` | `ThreadStore_proofs` | `Spec => LastTapWins` |
| `StaysClosed` | `ThreadStore_proofs` | without direct resets, `Spec => ClosedStaysClosed` |
| `HandedOut` | `ThreadStore_proofs` | `Spec => HandsOutCached` |
| `StoreImplementsLog` | `ThreadStore_proofs` | `Spec => KeepsTheLog`: the store implements `ConversationLog` |
| `EveryCallAccepted` | `ChatLoop_proofs` | one request at a time, none broken off: `Spec => []AlwaysAccepted` |
| `ResultsGoOutVerbatim`, `TicketsAreWanted`, `PromptCacheGrows` | `ChatLoop_proofs` | one request at a time: `Spec => OwnResultsVerbatim`, `Spec => TicketsWanted`, `Spec => PromptGrows` |
| `EveryTicketRemembered` | `ChatLoop_proofs` | nobody goes away, no late answer: `Spec => []TicketsRemembered` |
| `ExpiryEnds`, `DoneIsItsAnswer` | `ChatLoop_proofs` | `Spec => ExpiryNeverNarrated`, `Spec => DoneNamesTheAnswer` |
| `Once`, `Mailed`, `SignInIsMeant`, `Passbook`, `TokensGood` | `FlowDesk_proofs` | `[]AskedOnce`, `[]MailedAsChosen`, `[]ExpiryIsReal`, `[]PassbookIsHonest`, `[]TokensLast` |
| `FromTheFileAlways` | `MarketClock_proofs` | `Spec => []AnswersFromTheFile` |
| `OpenWhenDeclared`, `OpeningsTold`, `GreetingsAgree` | `MarketClock_proofs` | for calendars like the repository's, `[]OpenAsDeclared`, `[]OpeningsAnnounced`, `[]GreetingAgrees` |
| `Nests`, `KeepsWhole`, `ScoresFind` | `TurnTrace_proofs` | `[]SpansNest`, `[]KeptWhole`, `[]ScoresHitTheirTurn` |
| `ChatTyped`, `DeskTyped`, `ClockTyped`, `TraceTyped` | the proofs of each | `Spec => []TypeOK` |
| `MergeKeeps`, `CapsAgree`, `ConsentAgrees`, `HistoryRead` | `TranscriptLog_proofs` | `[]MergeSound`, `[]CapsCountAlong`, `[]ConsentIsFresh`, `[]HistoryIsRead` |
| `AgreementOutranks` | `KbSearch_proofs` | for every k and legs no deeper than k + 1, a chunk in both legs scores above a chunk in one |
| `AgreementAlwaysWins`, `DegradedIsFlagged` | `KbSearch_proofs` | `[]AgreementWins`, `[]DegradesHonestly` |

The invariant proofs have one lemma per action, and under it one step per conjunct
the action can disturb. Every inductive invariant was checked by TLC before it was
proved: a module that extends an MC module and the proofs has the invariant in scope, and
the run's own configuration takes it as a further `INVARIANT`. (`StoreInv` is in `StoreCore`
as it stands.) The record types of an invariant may have `Nat` in them: TLC decides
membership without enumerating.

A leaf does one thing: numbers are named (`PICK a \in Nat : a = Len(queue)`) before they are
reasoned about, so that arithmetic is over constants and not over primed variables, and a
lemma whose conclusion is only passed on is stated with a predicate of its own (`Covered`,
`AgreeOn`, `Associate`). Leaves that are near a prover's default time limit name the prover and
a longer one (`SMTT(60)`, `ZenonT(60)`), so that what is proved does not depend on how busy the
machine is.

### The store: what is consistent

`WireOrder` alone is not inductive. That the next turn of a thread has a number
no stored turn has depends on memory knowing every stored turn (`LastIsLast`);
after a restart memory knows what the rehydration read, which must still be true
when it is installed (`ReadsCurrent`); it is, because while a session's cache is
cold no pending job touches its rows (`JobsSound`: a pending thread or turn job's
session is warm and serves that thread or a younger one), and once the cache is
warm a late reader's copy is thrown away. The same facts show that the cached
thread is the session's newest (`CacheServes`, `ServesLatest`). `TurnsOrdered`
carries the order of a thread's turns through queue and batch. `UnbornBlank` says
that a thread not yet made has no rows, which a fresh thread starts from.
`StoreInv` is the conjunction, and holds with direct resets and every fault: a
reset that overwrites the cache installs a younger thread, which no conjunct
minds.

`StoreImplementsLog` maps the initial state to the log's and every step to a log step
or a stutter. Its invariant `LogInv` adds two facts to `StoreInv`: a thread that is
not served knows nothing, and every pending write of a thread row writes a status.
Two steps carry the weight. `WriteJob` of a turn maps to `KeepTurn`: that the turn is
known and beyond the stored ones is `JobsSound`. `InstallGet` of what was read maps to
`TakeUp`: that it is the newest stored thread, and all that is stored of it, is
`ReadsCurrent`; that no thread of the session is served meanwhile is `CacheServes`. A
reset, cold or warm, maps to `Make`; a restart to `Forget`.

### The store: what becomes of the writes

Four invariants stand on top of `StoreInv`. The lemmas at the start of
that part of `ThreadStore_proofs` say once what a step of a caller does (it looks, copies, makes a
thread, hands one out), so that the proofs below them share one case split.

* `Keys` (for `KeysHealable`). A pending row is about to be written with the hash its
  thread was made with. What makes that storable outlives a restart in two different
  ways: a stored thread's hash is stored, a served thread's is known to this process, and a
  suspended reader has read a thread whose hash is stored. The reader's conjunct is the one
  that is easily missed: without it a thread rehydrated across a restart would be served
  with a hash nobody can write.
* `Taps` (for `LastTapWins`). Stored ratings are no younger than any pending one, and pending
  ones wait in the order they were tapped.
* `Closing` (for `ClosedStaysClosed`). Once "resolved" is pending or stored for a thread,
  every row behind it says "resolved", and no object of the thread says "active". A copy
  read before an await may be stale, but not while its session is cold. The hypothesis
  `DirectReset = {}` says that nothing is reset without being fetched first. The product's
  routes satisfy it; the playground's does not, and there the property fails (section 4).
* `Accounts` and `OneSentinel` (for `DropsCounted` and `StopsDrained`). What is owed is at most
  what was dropped and what is pending; a write that was carried out may be counted as well,
  so that each step has to keep the difference from shrinking (`StaysCovered`). One sentinel at most is pending, and none is
  queued once the writer has seen it. The sums over queue and batch (`Writes`) are
  cardinalities, and their behaviour under append, concatenation and taking a prefix is the
  first part of that section.

### The chat loop

`ChatInv` says that every thread's log is a sequence of turns numbered by their positions,
and that a request's thread, message and counters are in range and agree with where it
is. `ChatTyped` follows, and so do `ExpiryEnds` and `DoneIsItsAnswer`, which hold for any number
of overlapping requests and every fault: each step of `Next` makes no model call and ends
nothing, or makes one, or names one answer (`OneOf`). A reply and its results
are appended to the log of the request's thread, so that `lastSeq` is the position of a turn
with the request's name on it.

The other five need more.

* `EveryCallAccepted`. `Paired` relates the merged messages of the whole log to what the request has in
  hand: every tool_use of a message is answered at the head of the next, except those of the last
  assistant turn, which are the ones whose results the request still owes. What the proof turns on is
  the merge of `Thread.messages()`: a memo or a ticket turn that lands between reply and
  results becomes a block of the same user message, and `ResultsFirst` moves the results in front of
  it whenever they come. A request asks only
  when it owes nothing, and then everything is answered. Curation changes payloads
  and not the shape (`CuratedSame`), so the curated messages are accepted if the
  log's are. The hypotheses are those of the instance in `ChatCore`. That nobody is broken off
  cannot be dropped: `ChatAborted` shows the thread that then refuses every later call. The product's
  shell sends a second message over a running one by going away first, which is that
  very case.
* `ResultsGoOutVerbatim` and `TicketsAreWanted`. `Own` says that the message a request answers is the
  newest user text of its thread from the moment it is appended until the request ends. So
  the watermark is that message's seq and the consent rule reads that message, although
  both are computed later, from a live thread with memos and tickets behind it
  (`ConsentIsPrefix`). With two requests neither is true (section 4).
* `PromptCacheGrows`. `Since` says of a request that has asked before what the log holds
  behind the turns its last call saw: the call saw the request's own text, and a result among the later turns
  answers a reply that is later too (`Calm`). The later turns then only add messages, or blocks
  at the end of the last message: `ResultsFirst` would move a result of an earlier reply in front of
  blocks that were already sent, and there is none (`HistoryGrows`). The watermark of curation
  is the request's text in both calls, so what was sent verbatim stays verbatim (`CuratedPrefix`).
  The bytes sent are then a prefix of the bytes of the next call (`BytesGrow`). With two requests
  the second one's text would move the watermark between two calls of the first.
* `EveryTicketRemembered`. `Balanced` counts: tickets filed for a thread are its ticket memos and the
  tickets created by a request that has not yet written its memo down. Requests may overlap
  freely.

The recursive functions of `Transcript` are reasoned about with one lemma, `Climb`: a set of numbers
that has 0, and k whenever it has k - 1, has them all. The set of lengths
for which something holds of a function is such a set, which makes induction a matter of
sets, without an operator as a parameter. `Climb` itself is proved from the
well-foundedness of finite sets.

### The flows

`DeskInv` relates a request to what FinX received (`asked`), what it mailed
(`mailed`) and what the stores hold. `CallsOf` says that a call whose answer is outstanding
has not been received: every retry of the client follows a connection that was never
made, which is what `AskedOnce` rests on. `MailOf` ties the mail to the one call of a report
that asked for it. `ResultOf` is what an answer says of the calls that were made, for
the passbook of both. `ExpiredLegs` remembers that a refused credential is not
accepted later, and `Promised` that an entry with a token that was handed out is there
for its time to live. For the last, `Entries` is needed: tokens are unique, and what
a put prunes has expired, the clock at the last put being part of the state. The mail a
customer is told of is in the thread's memo too, which is part of `MailedAsChosen`.

### The calendar

`ClockInv` says that a cache whose mtime is the file's has the file's content, that
a load knows every content the file has had since its look at the mtime, and
that an answer is one calendar's, of one moment. Everything else is about operators:
what the walk over a day's windows finds (`LeastExists` is by well-foundedness of finite
sets, as the prover has no induction with operators) and that it is what
the calendar declares. A calendar whose evening session overlaps the market's, or that
gives the market's key, or a special day's, to a session of every day, would make the assistant
say "open" at other moments than it declares, or "closed" at these. So `GreetingsAgree` asks for `OwnKeys`,
`OpenWhenDeclared` for `KeptApart` too, and `OpeningsTold`, which is about the first opening
of a day, for `InOrder` besides, each of the code's own sessions too. `market_calendar.json` satisfies all three: `MCMarketClock`
has its sessions and assumes them (`OrderlyEditions`), which TLC evaluates in `ClockCheck`.

### The trace

`TraceInv` says of a turn what spans its tree has (`Nested`), which span a tool
call at work believes to be its parent (`TasksSound`), and who has still to close what is open
(`Owed`: the round, a tool call or the call inside it). A call goes on after a cancelled turn
is over and even after its row is written, so these are kept for as long as the turn's
record is. `KeptWhole` follows: when the round is over, what is open is some call's that is still
on its way out. `Anchors` says that a thread's turns have different anchors, of those given so
far, and `RowsSound` that a row has the anchor its turn had. The rows found for an answer of the
current thread are then its own, wherever the look-back ends. A score stays where it was put
while turns are bound and rows written: what was rated and what was found keep their
anchors (`ScoresSound`, and `ScoresHitTheirTurn` itself, are parts of the invariant).

### The transcript

`Log` says that turns are numbered by their positions, that no payload is stubbed in the
log itself, and that what is unanswered was asked before. On top of it:

* `Told` (for `MergeSound`). Every block of the turns is in exactly one message, the messages hold
  only blocks that were said and no answer that is still due, and there are as many blocks in the
  messages as in the turns. That a new turn's block is in no message yet follows because its
  identity is beyond all turns, or that of a question still open; that a merge into the last
  message keeps the others' blocks apart is `Holders`, and that putting results first keeps
  the number of blocks is `ResultsFirstLen`. Content that is merged twice or dropped would break
  one or the other.
* `CapsCountAlong` is inductive with `Log`: a turn either starts the task window over, when it is
  a successful result, or counts in the window that was there (`WindowGrows`), wherever the
  last success is found by walking back.
* `Consent` (for `ConsentIsFresh`). What a reader who sees one turn after the other knows of the newest
  user text and of the offers before and behind it is what the walk back from the end finds.
* `HistoryIsRead` follows from `Log` alone. The pass over the roles that finds the anchor counts
  what the merge opens (`MessagesCounted`), so the anchor is the last message that was sent
  (`AnchorIs`). If it has as many blocks as it had, nothing was merged into it, and it is
  the message it was (`OntoCalmly`). That the watermark is further along stubs nothing of what was
  sent, which ended with a user text and was curated up to it already (`CuratedPrefix`). Of the
  messages behind the anchor the very last is marked, and if that is too far, the
  last one within reach (`MarkIsNear`), whatever `Lookback` is.

### The knowledge base

`AgreementOutranks` needs only that k is a natural number and legs no deeper than k + 1. Two shares
of at least 1/(2k + 1) exceed one of at most 1/(k + 1): the sum of the first is at
least 2/(2k + 1). The order of the chunks by score and id is strict and total
(`BeforeIsAnOrder`, from the arithmetic of fractions), so the number of chunks before a chunk is
different for each of them, and by the pigeonhole principle every place is taken (`FuseIs`):
nothing is lost or doubled by the fusion. A single leg is its own fusion (`FuseOne`), which is what
"the lexical ranking as it was" means. `Searching` says what the legs have answered at every
point of a search. `DepthAssumption` is that of `AgreementOutranks` for the depths that the code asks for
(at most 40, with k = 60).

### Only model-checked

All liveness (`WritesSettle`, `CloseReturnsIfAnswered`, `AnsweredIfSearched`): fairness and
ENABLED are outside the prover's reach. Every safety property of the passing runs is stated by a theorem.

## 6. What is not modelled

* The frontend (TypeScript): the SSE reader, the chat shell, the flow engine, the host
  bridge. What it does to the server is in the models: it goes away in the middle of a
  stream, sends a second message over a running one, resets, rates, and redeems tokens.
* The memory-only mode of the store (no pool: nothing is queued and nothing read), and
  the disabled mode of tracing, which passes everything through.
* `set_status` called by itself: only `reset_thread` calls it.
* Data without a decision in it: prompts, stubs, memos, transcripts, card texts, dates,
  the normalisation of upstream rows, file names and masking, tool schemas, form seeds,
  redaction and hashing in traces, usage and costs, the what's-new list.
* The amount of each knowledge-base result that is serialized, and the SQL of its legs.
* The trace viewer's queries, evaluations, scripts and deployment: development tooling.
* Gaps: a turn dropped from the middle of a thread leaves a gap in its rows, which
  `ThreadStore` reaches; what replaying a thread with a gap does to the API's
  verdict is not checked, since `ChatLoop` restarts with a tail cut off only.

## 7. The plan

Done: the modules of section 2. What comes next, in order:

1. `AgentClient` and `ChatShell`: the SSE reader and its one terminal callback; the
   shell's superseded streams, anchors, indicators, tickets and the expiry latch; with
   `ChatLoop`, an abstract exchange (question, events, one end) both sides implement.
2. `FlowEngine`: slots, edits, selection lists with answers that arrive late.
3. The replay of a thread with a gap: `ChatLoop` restarted from what `ThreadStore`
   may have lost.

The number of runs is kept small: a new module's properties join the run of the
module they compose with wherever one instance can show both.
