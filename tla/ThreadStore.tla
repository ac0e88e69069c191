----------------------------- MODULE ThreadStore -----------------------------
(***************************************************************************)
(* The conversation store (backend/app/agent/store.py): an in-memory cache *)
(* of threads keyed by session, and one background writer that carries     *)
(* every change to Postgres through a bounded FIFO queue.                  *)
(*                                                                         *)
(* Callers are coroutines: a step here is the code between two awaits.     *)
(* A cache miss suspends get_thread twice (the thread row, then its turn   *)
(* rows), so other callers and the writer run in between.  The process may *)
(* crash between any two steps and restart on what the database holds.     *)
(*                                                                         *)
(* Thread ids stand for (uuid, created_at): they are handed out in creation*)
(* order, so a larger id is a younger thread.  A turn is its sequence      *)
(* number and a stamp that stands for its content; a thread's turn list,   *)
(* which the code keeps in seq order, is the set of its turns and `last`,  *)
(* the seq of turns[-1] (0 when there is none).                            *)
(***************************************************************************)
EXTENDS Integers, Sequences, FiniteSets

CONSTANTS
  Sessions,     \* store keys: FinX session ids, and "pg:" keys of the playground
  DirectReset,  \* the sessions whose reset route calls reset_thread with no get_thread before it
  Callers,      \* coroutines that use the store (chat streams, routes, flow-event tasks)
  Hashes,       \* prompt hashes a deployed build may have
  NoHash,       \* prompt_hash of a thread made before any prompt was registered
  Anchors,      \* anchorSeq values a rating request may carry
  QueueMax,     \* capacity of the write queue (QUEUE_MAX)
  BatchMax,     \* jobs the writer takes per wake-up (_BATCH_MAX)
  MaxThreads,   \* bound: threads ever created
  MaxOps,       \* bound: turns and ratings ever submitted
  Faults        \* what the environment may do: see FaultKinds

\* read: a rehydration query raises; job: one statement of a job raises;
\* acquire / release: taking a connection from the pool, giving it back, raises;
\* shutdown: the server is told to stop; timeout: its drain takes more than ten seconds;
\* crash: the process dies.
FaultKinds == {"read", "job", "acquire", "release", "shutdown", "timeout", "crash"}

ASSUME StoreAssumption ==
  /\ QueueMax \in Nat \ {0}
  /\ BatchMax \in Nat \ {0}
  /\ MaxThreads \in Nat
  /\ MaxOps \in Nat
  /\ NoHash \notin Hashes
  /\ Hashes # {}
  /\ Anchors \subseteq Nat \ {0}
  /\ Faults \subseteq FaultKinds
  /\ Sessions # {} /\ DirectReset \subseteq Sessions

VARIABLES
  born,        \* identity of every thread ever created: id i is born[i] (session, prompt hash)
  mem,         \* the Thread object of each thread id that this process serves
  cache,       \* session -> id of its cached thread, 0 when the session is cold
  call,        \* per caller: where it is in get_thread / reset_thread, and its locals
  build,       \* the prompt hash of the running build
  prompts,     \* hashes whose text this process holds (_prompts)
  current,     \* _current_prompt_hash
  queue,       \* the bounded write queue
  writer,      \* where the writer task is
  batch,       \* jobs the writer has taken and not settled
  taken,       \* len(jobs) of the batch in hand
  stopSeen,    \* the batch in hand contains the shutdown sentinel
  server,      \* lifespan: up, closing (close() waits for a queue slot), draining, down
  dropped,     \* dropped_writes
  owed,        \* history: writes offered by this process that no statement has carried out
  clock,       \* stamps handed out to turns and ratings
  dbStatus, dbTurns, dbFeedback, dbPrompts      \* the four tables

procVars == <<mem, cache, call, build, prompts, current>>
pipeVars == <<queue, writer, batch, taken, stopSeen, dropped, owed>>
dbVars   == <<dbStatus, dbTurns, dbFeedback, dbPrompts>>
vars == <<born, procVars, pipeVars, server, clock, dbVars>>

-----------------------------------------------------------------------------
ThreadIds == 1..MaxThreads
Statuses  == {"absent", "active", "resolved"}
Stamped   == [seq : Nat, at : Nat]     \* a turn, or a rating of anchor `seq`
Thread    == [status : Statuses, turns : SUBSET Stamped, last : Nat]
Prompt    == Hashes \cup {NoHash}
JobKinds  == {"snapshot", "thread", "turn", "feedback", "shutdown"}
Job       == [kind : JobKinds, thread : 0..MaxThreads, status : Statuses,
              seq : Nat, at : Nat, prompt : Prompt]
Call      == [pc : {"idle", "row", "turns", "install", "hold"}, op : {"get", "reset"},
              session : Sessions, thread : 0..MaxThreads, found : Thread]

NoThread  == [status |-> "absent", turns |-> {}, last |-> 0]
NewThread == [status |-> "active", turns |-> {}, last |-> 0]

\* `last` is the seq of the final row of a result set ordered by seq.
IsLast(n, turns) ==
  /\ \A t \in turns : t.seq <= n
  /\ IF turns = {} THEN n = 0 ELSE \E t \in turns : t.seq = n

\* Row snapshots, taken when the job is queued: later changes of the object do not reach them.
ThreadJob(i, status, prompt) ==
  [kind |-> "thread", thread |-> i, status |-> status, seq |-> 0, at |-> 0, prompt |-> prompt]
TurnJob(i, status, prompt, turn) ==
  [kind |-> "turn", thread |-> i, status |-> status, seq |-> turn.seq, at |-> turn.at,
   prompt |-> prompt]
FeedbackJob(i, anchor, at) ==
  [kind |-> "feedback", thread |-> i, status |-> "absent", seq |-> anchor, at |-> at,
   prompt |-> NoHash]
SnapshotJob(h) ==
  [kind |-> "snapshot", thread |-> 0, status |-> "absent", seq |-> 0, at |-> 0, prompt |-> h]
Shutdown ==
  [kind |-> "shutdown", thread |-> 0, status |-> "absent", seq |-> 0, at |-> 0,
   prompt |-> NoHash]

\* What the writer still has to settle, in the order it will settle it.
Pending == batch \o queue
Writes(jobs) == Cardinality({n \in DOMAIN jobs : jobs[n].kind # "shutdown"})
OwnerOf(i) == born[i].session

-----------------------------------------------------------------------------
\* A caller waiting for its first query, and one that holds thread i of session s.
Waiting(op, s) == [pc |-> "row", op |-> op, session |-> s, thread |-> 0, found |-> NoThread]
Holding(s, i) ==
  [pc |-> "hold", op |-> "get", session |-> s, thread |-> i, found |-> NoThread]
IdleCall ==
  [pc |-> "idle", op |-> "get", session |-> CHOOSE s \in Sessions : TRUE,
   thread |-> 0, found |-> NoThread]

\* A fresh process: nothing cached, nothing queued, the writer waiting for work.
Init ==
  /\ mem = [i \in ThreadIds |-> NoThread]
  /\ cache = [s \in Sessions |-> 0]
  /\ call = [r \in Callers |-> IdleCall]
  /\ build \in Hashes
  /\ prompts = {}
  /\ current = NoHash
  /\ queue = <<>>
  /\ writer = "idle"
  /\ batch = <<>>
  /\ taken = 0
  /\ stopSeen = FALSE
  /\ server = "up"
  /\ dropped = 0
  /\ owed = 0
  /\ born = <<>>
  /\ clock = 0
  /\ dbStatus = [i \in ThreadIds |-> "absent"]
  /\ dbTurns = [i \in ThreadIds |-> {}]
  /\ dbFeedback = [i \in ThreadIds |-> {}]
  /\ dbPrompts = {}

-----------------------------------------------------------------------------
(* _enqueue: put_nowait each job; what a full queue refuses is dropped and counted. *)

Room == QueueMax - Len(queue)

CountNothing(n) == UNCHANGED dropped                   \* mutant
CountDropped(n) == dropped' = dropped + n

Enqueue(jobs) ==
  LET n == IF Len(jobs) <= Room THEN Len(jobs) ELSE Room
  IN  /\ queue' = queue \o SubSeq(jobs, 1, n)
      /\ CountDropped(Len(jobs) - n)
      /\ owed' = owed + Len(jobs)

NoEnqueue == UNCHANGED <<queue, dropped, owed>>
WriterIdles == UNCHANGED <<writer, batch, taken, stopSeen>>

RememberHashOnly(h) == current' = h /\ UNCHANGED prompts      \* mutant
Remember(h) == current' = h /\ prompts' = prompts \cup {h}

\* register_prompt: remember the text of this build's prompt, queue its snapshot once.
RegisterPrompt ==
  /\ server = "up"
  /\ current # build
  /\ Remember(build)
  /\ Enqueue(<<SnapshotJob(build)>>)
  /\ WriterIdles
  /\ UNCHANGED <<born, mem, cache, call, build, server, clock, dbVars>>

-----------------------------------------------------------------------------
(* get_thread and reset_thread.  Both end in a step with no await inside.  *)

Resume(r, s, i) == call' = [call EXCEPT ![r] = Holding(s, i)]

\* Suspend on the first query of _rehydrate.
AwaitRow(r, op, s) ==
  /\ cache[s] = 0
  /\ call' = [call EXCEPT ![r] = Waiting(op, s)]
  /\ NoEnqueue
  /\ UNCHANGED <<born, mem, cache>>

\* Make a thread for session s, with `jobs` queued ahead of its row.
Create(s, jobs) ==
  /\ Len(born) < MaxThreads
  /\ born' = Append(born, [session |-> s, prompt |-> current])
  /\ cache' = [cache EXCEPT ![s] = Len(born) + 1]
  /\ Enqueue(jobs \o <<ThreadJob(Len(born) + 1, "active", current)>>)

\* get_thread, cache hit.
GetCached(r, s) ==
  /\ cache[s] # 0
  /\ Resume(r, s, cache[s])
  /\ NoEnqueue
  /\ UNCHANGED <<born, mem, cache>>

ResolvedRowOnly(i) == mem                              \* mutant
Resolved(i) == [mem EXCEPT ![i].status = "resolved"]

\* reset_thread, cache hit: the cached object itself is resolved.
ResetCached(r, s) ==
  LET old == cache[s] IN
  /\ old # 0
  /\ Create(s, IF mem[old].status = "active"
               THEN <<ThreadJob(old, "resolved", born[old].prompt)>> ELSE <<>>)
  /\ mem' = [Resolved(old) EXCEPT ![Len(born) + 1] = NewThread]
  /\ Resume(r, s, Len(born) + 1)

\* A caller enters the store.  The reset route of a session outside DirectReset
\* holds the thread get_thread returned, and calls reset_thread from there.
Enter(r, s) ==
  /\ server = "up"
  /\ \/ /\ call[r].pc = "idle"
        /\ GetCached(r, s) \/ AwaitRow(r, "get", s)
     \/ /\ call[r].pc = "idle" /\ s \in DirectReset
        /\ ResetCached(r, s) \/ AwaitRow(r, "reset", s)
     \/ /\ call[r].pc = "hold" /\ call[r].session = s /\ s \notin DirectReset
        /\ ResetCached(r, s)
  /\ WriterIdles
  /\ UNCHANGED <<build, prompts, current, server, clock, dbVars>>

IsOldestRow(s, i) ==                                   \* mutant
  /\ i \in 1..Len(born) /\ OwnerOf(i) = s /\ dbStatus[i] # "absent"
  /\ \A j \in 1..(i - 1) : OwnerOf(j) = s => dbStatus[j] = "absent"

\* The newest thread row of a session, whatever its status.
IsNewestRow(s, i) ==
  /\ i \in 1..Len(born) /\ OwnerOf(i) = s /\ dbStatus[i] # "absent"
  /\ \A j \in (i + 1)..Len(born) : OwnerOf(j) = s => dbStatus[j] = "absent"

FailedKeepingRow(r) ==                                 \* mutant
  "read" \in Faults /\ call' = [call EXCEPT ![r].pc = "install"]

\* A query that raises reads as no thread at all.
FailedRead(r) ==
  /\ "read" \in Faults
  /\ call' = [call EXCEPT ![r].pc = "install", ![r].thread = 0, ![r].found = NoThread]

\* The thread query answers: no row, a row, or an exception (which reads as no row).
RowArrives(r) ==
  /\ call[r].pc = "row"
  /\ \/ /\ \A i \in 1..Len(born) : OwnerOf(i) = call[r].session => dbStatus[i] = "absent"
        /\ call' = [call EXCEPT ![r].pc = "install"]
     \/ \E i \in ThreadIds :
          /\ IsNewestRow(call[r].session, i)
          /\ call' = [call EXCEPT ![r].pc = "turns", ![r].thread = i,
                                  ![r].found.status = dbStatus[i]]
     \/ FailedRead(r)
  /\ UNCHANGED <<born, mem, cache, build, prompts, current, pipeVars, server, clock, dbVars>>

\* The turns query answers, ordered by seq.
TurnsArrive(r) ==
  /\ call[r].pc = "turns"
  /\ \/ \E n \in 0..MaxOps :
          /\ IsLast(n, dbTurns[call[r].thread])
          /\ call' = [call EXCEPT ![r].pc = "install", ![r].found.last = n,
                                  ![r].found.turns = dbTurns[call[r].thread]]
     \/ FailedRead(r)
  /\ UNCHANGED <<born, mem, cache, build, prompts, current, pipeVars, server, clock, dbVars>>

ExistingIgnored(s) == 0                                \* mutant
Existing(s) == cache[s]

OwnCopy(r, s) == IF call[r].thread # 0 THEN call[r].thread ELSE Existing(s)   \* mutant
Winner(r, s) == Existing(s)

\* get_thread resumes: someone else may have filled the cache during the await.
InstallGet(r) ==
  LET s == call[r].session IN
  /\ call[r].op = "get"
  /\ \/ /\ Existing(s) # 0
        /\ Resume(r, s, Winner(r, s))
        /\ NoEnqueue
        /\ UNCHANGED <<born, mem, cache>>
     \/ /\ Existing(s) = 0 /\ call[r].thread # 0
        /\ mem' = [mem EXCEPT ![call[r].thread] = call[r].found]
        /\ cache' = [cache EXCEPT ![s] = call[r].thread]
        /\ Resume(r, s, call[r].thread)
        /\ NoEnqueue
        /\ UNCHANGED born
     \/ /\ Existing(s) = 0 /\ call[r].thread = 0
        /\ Create(s, <<>>)
        /\ mem' = [mem EXCEPT ![Len(born) + 1] = NewThread]
        /\ Resume(r, s, Len(born) + 1)

\* reset_thread resumes: it resolves its own rehydrated copy and installs a fresh
\* thread, without looking at the cache again.
InstallReset(r) ==
  LET i == call[r].thread IN
  /\ call[r].op = "reset"
  /\ Create(call[r].session, IF call[r].found.status = "active"
                             THEN <<ThreadJob(i, "resolved", born[i].prompt)>> ELSE <<>>)
  /\ mem' = [mem EXCEPT ![Len(born) + 1] = NewThread]
  /\ Resume(r, call[r].session, Len(born) + 1)

Install(r) ==
  /\ call[r].pc = "install"
  /\ InstallGet(r) \/ InstallReset(r)
  /\ WriterIdles
  /\ UNCHANGED <<build, prompts, current, server, clock, dbVars>>

\* The caller drops its reference: the request or task is over.
Leave(r) ==
  /\ call[r].pc = "hold"
  /\ call' = [call EXCEPT ![r] = IdleCall]
  /\ UNCHANGED <<born, mem, cache, build, prompts, current, pipeVars, server, clock, dbVars>>

-----------------------------------------------------------------------------
(* The synchronous operations on a thread a caller holds.                  *)

NextSeqFromRows(i) == Cardinality(dbTurns[i]) + 1      \* mutant
NextSeq(i) == mem[i].last + 1

\* append_turn: next seq, append, queue the thread row with the turn row.
AppendTurn(r) ==
  LET i    == call[r].thread
      turn == [seq |-> NextSeq(i), at |-> clock + 1]
  IN  /\ call[r].pc = "hold" /\ clock < MaxOps
      /\ clock' = clock + 1
      /\ mem' = [mem EXCEPT ![i].turns = @ \cup {turn}, ![i].last = turn.seq]
      /\ Enqueue(<<TurnJob(i, mem[i].status, born[i].prompt, turn)>>)
      /\ WriterIdles
      /\ UNCHANGED <<born, cache, call, build, prompts, current, server, dbVars>>

\* The feedback route: rate the anchor it was given, or the newest turn; an empty
\* thread with no given anchor takes no rating.
RecordFeedback(r) ==
  LET i == call[r].thread IN
  /\ call[r].pc = "hold" /\ clock < MaxOps
  /\ \E anchor \in Anchors \cup ({mem[i].last} \ {0}) :
       Enqueue(<<FeedbackJob(i, anchor, clock + 1)>>)
  /\ clock' = clock + 1
  /\ call' = [call EXCEPT ![r] = IdleCall]
  /\ WriterIdles
  /\ UNCHANGED <<born, mem, cache, build, prompts, current, server, dbVars>>

-----------------------------------------------------------------------------
(* The writer task.                                                        *)

WriterOnly == UNCHANGED <<born, procVars, server, clock>>

TakenReversed(n) == [m \in 1..n |-> queue[n + 1 - m]]   \* mutant
Taken(n) == SubSeq(queue, 1, n)

\* Wake on the first job and take what else is there, up to a batch.  A batch that
\* holds nothing but the sentinel asks for no connection.
TakeBatch ==
  LET n == IF Len(queue) <= BatchMax THEN Len(queue) ELSE BatchMax IN
  /\ writer = "idle" /\ queue # <<>>
  /\ batch' = Taken(n)
  /\ queue' = SubSeq(queue, n + 1, Len(queue))
  /\ stopSeen' = (\E m \in 1..n : queue[m].kind = "shutdown")
  /\ taken' = Writes(SubSeq(queue, 1, n))
  /\ writer' = "acquiring"
  /\ UNCHANGED <<dropped, owed, dbVars>>
  /\ WriterOnly

WriterDies == "stopped"                                \* mutant
WriterGoesOn == "idle"                                 \* mutant
WriterAfterBatch == IF stopSeen THEN "stopped" ELSE "idle"

EndBatch ==
  /\ writer' = WriterAfterBatch
  /\ batch' = <<>> /\ taken' = 0 /\ stopSeen' = FALSE
  /\ UNCHANGED <<queue, owed, dbVars>>
  /\ WriterOnly

SkipBatchOnStop ==                                     \* mutant
  writer = "acquiring" /\ (taken = 0 \/ stopSeen) /\ UNCHANGED dropped /\ EndBatch
SkipBatch == writer = "acquiring" /\ taken = 0 /\ UNCHANGED dropped /\ EndBatch

Acquire ==
  /\ writer = "acquiring" /\ taken > 0
  /\ writer' = "writing"
  /\ UNCHANGED <<queue, batch, taken, stopSeen, dropped, owed, dbVars>>
  /\ WriterOnly

AcquireFails ==
  /\ "acquire" \in Faults
  /\ writer = "acquiring" /\ taken > 0
  /\ dropped' = dropped + taken
  /\ EndBatch

\* _upsert_thread can satisfy the foreign key: the hash is stored, or its text is in memory.
KeyHolds(j) == j.prompt \in dbPrompts \cup prompts \cup {NoHash}

UpsertThread(j) ==
  /\ dbStatus' = [dbStatus EXCEPT ![j.thread] = j.status]
  /\ dbPrompts' = dbPrompts \cup ({j.prompt} \ {NoHash})

\* ON CONFLICT (thread_id, seq) DO NOTHING.
InsertTurn(j) ==
  dbTurns' = IF \E t \in dbTurns[j.thread] : t.seq = j.seq THEN dbTurns
             ELSE [dbTurns EXCEPT ![j.thread] = @ \cup {[seq |-> j.seq, at |-> j.at]}]

\* ON CONFLICT (thread_id, anchor_seq) DO UPDATE.
UpsertFeedback(j) ==
  dbFeedback' = [dbFeedback EXCEPT ![j.thread] =
                  {x \in @ : x.seq # j.seq} \cup {[seq |-> j.seq, at |-> j.at]}]

\* _apply: the statements of one job, all carried out.
Apply(j) ==
  \/ /\ j.kind = "snapshot"
     /\ dbPrompts' = dbPrompts \cup {j.prompt}
     /\ UNCHANGED <<dbStatus, dbTurns, dbFeedback>>
  \/ /\ j.kind = "thread" /\ KeyHolds(j)
     /\ UpsertThread(j)
     /\ UNCHANGED <<dbTurns, dbFeedback>>
  \/ /\ j.kind = "turn" /\ KeyHolds(j)
     /\ UpsertThread(j)
     /\ InsertTurn(j)
     /\ UNCHANGED dbFeedback
  \/ /\ j.kind = "feedback" /\ dbStatus[j.thread] # "absent"
     /\ UpsertFeedback(j)
     /\ UNCHANGED <<dbStatus, dbTurns, dbPrompts>>

\* The job cannot be carried out: a foreign key that nothing can satisfy.
Refused(j) ==
  \/ j.kind \in {"thread", "turn"} /\ ~ KeyHolds(j)
  \/ j.kind = "feedback" /\ dbStatus[j.thread] = "absent"

NextJob ==
  /\ writer = "writing" /\ batch # <<>>
  /\ batch' = Tail(batch)
  /\ UNCHANGED <<queue, writer, taken, stopSeen>>
  /\ WriterOnly

\* The sentinel is filtered out of the batch.
SkipSentinel ==
  /\ NextJob
  /\ Head(batch).kind = "shutdown"
  /\ UNCHANGED <<dropped, owed, dbVars>>

WriteJob ==
  /\ NextJob
  /\ Apply(Head(batch))
  /\ owed' = owed - 1
  /\ UNCHANGED dropped

\* There is no transaction: the snapshot that repairs a key may be stored and the second
\* upsert raise, the thread row may be written and the turn's insert raise.
ApplyInPart(j) ==
  /\ j.kind \in {"thread", "turn"} /\ KeyHolds(j)
  /\ \/ dbPrompts' = dbPrompts \cup ({j.prompt} \ {NoHash}) /\ UNCHANGED dbStatus
     \/ j.kind = "turn" /\ UpsertThread(j)
  /\ UNCHANGED <<dbTurns, dbFeedback>>

\* A statement of the job raised: the job is dropped and counted.  What Postgres did of
\* it is another matter: nothing, a part, or all of it when only the answer was lost.
DropJob ==
  /\ NextJob
  /\ Head(batch).kind # "shutdown"
  /\ dropped' = dropped + 1
  /\ \/ /\ "job" \in Faults \/ Refused(Head(batch))
        /\ UNCHANGED <<owed, dbVars>>
     \/ "job" \in Faults /\ ApplyInPart(Head(batch)) /\ UNCHANGED owed
     \/ "job" \in Faults /\ Apply(Head(batch)) /\ owed' = owed - 1

Release ==
  /\ writer = "writing" /\ batch = <<>>
  /\ UNCHANGED dropped
  /\ EndBatch

\* Giving the connection back raises: the handler written for a failed acquire()
\* counts the whole batch as dropped.
ReleaseFails ==
  /\ "release" \in Faults
  /\ writer = "writing" /\ batch = <<>>
  /\ dropped' = dropped + taken
  /\ EndBatch

\* The writer's steps that wait for no answer, and those that end with one.
WriterAlone == TakeBatch \/ SkipBatch \/ SkipSentinel
WriterAnswered ==
  \/ Acquire \/ AcquireFails
  \/ WriteJob \/ DropJob
  \/ Release \/ ReleaseFails

WriterStep == WriterAlone \/ WriterAnswered

-----------------------------------------------------------------------------
(* Lifespan: close() on shutdown, and the end of the process.              *)

LifeOnly == UNCHANGED <<born, procVars, clock, dbVars, batch, taken, stopSeen, dropped, owed>>

\* close(): the sentinel goes in at once if there is room, else put() waits for a slot.
Close ==
  /\ "shutdown" \in Faults
  /\ server = "up"
  /\ IF Len(queue) < QueueMax
     THEN queue' = Append(queue, Shutdown) /\ server' = "draining"
     ELSE server' = "closing" /\ UNCHANGED queue
  /\ UNCHANGED writer
  /\ LifeOnly

SentinelAccepted ==
  /\ server = "closing" /\ Len(queue) < QueueMax
  /\ queue' = Append(queue, Shutdown) /\ server' = "draining"
  /\ UNCHANGED writer
  /\ LifeOnly

Drained ==
  /\ server = "draining" /\ writer = "stopped"
  /\ server' = "down"
  /\ UNCHANGED <<queue, writer>>
  /\ LifeOnly

\* wait_for gives up after _DRAIN_TIMEOUT_SECONDS and cancels the writer.
DrainTimesOut ==
  /\ "timeout" \in Faults
  /\ server = "draining" /\ writer # "stopped"
  /\ server' = "down" /\ writer' = "cancelled"
  /\ UNCHANGED queue
  /\ LifeOnly

\* A new process on the same database, possibly of a newer build.
Restart ==
  /\ server = "down" \/ "crash" \in Faults
  /\ mem' = [i \in ThreadIds |-> NoThread]
  /\ cache' = [s \in Sessions |-> 0]
  /\ call' = [r \in Callers |-> IdleCall]
  /\ build' \in Hashes
  /\ prompts' = {} /\ current' = NoHash
  /\ queue' = <<>> /\ batch' = <<>>
  /\ writer' = "idle" /\ taken' = 0 /\ stopSeen' = FALSE
  /\ server' = "up"
  /\ dropped' = 0 /\ owed' = 0
  /\ UNCHANGED <<born, clock, dbVars>>

CallerStep(r) ==
  \/ \E s \in Sessions : Enter(r, s)
  \/ RowArrives(r) \/ TurnsArrive(r) \/ Install(r) \/ Leave(r)
  \/ AppendTurn(r) \/ RecordFeedback(r)

Next ==
  \/ RegisterPrompt
  \/ \E r \in Callers : CallerStep(r)
  \/ WriterStep
  \/ Close \/ SentinelAccepted \/ Drained \/ DrainTimesOut
  \/ Restart

Spec == Init /\ [][Next]_vars

\* The event loop runs what can run: the writer while it waits for nobody, and close()
\* once it has started.  It does not make the database answer: acquire(), the statements
\* and the queries have no time limit.
Fairness == WF_vars(WriterAlone) /\ WF_vars(SentinelAccepted) /\ WF_vars(Drained)

FairSpec == Spec /\ Fairness

\* wait_for also ends the drain in time.
TimedSpec == FairSpec /\ WF_vars(DrainTimesOut)

\* The database answers every call of the writer, with a result or an exception.
DatabaseAnswers == WF_vars(WriterAnswered)

-----------------------------------------------------------------------------
(* Properties.                                                             *)

ProcessType ==
  /\ born \in Seq([session : Sessions, prompt : Prompt]) /\ Len(born) <= MaxThreads
  /\ mem \in [ThreadIds -> Thread]
  /\ cache \in [Sessions -> 0..MaxThreads]
  /\ call \in [Callers -> Call]
  /\ build \in Hashes /\ prompts \subseteq Hashes /\ current \in Prompt
  /\ server \in {"up", "closing", "draining", "down"}
  /\ clock \in Nat

\* Every id in use is the id of a thread that was made.
IdsBorn ==
  /\ \A s \in Sessions : cache[s] <= Len(born)
  /\ \A r \in Callers :
       /\ call[r].thread <= Len(born)
       /\ call[r].pc \in {"turns", "hold"} \/ call[r].found.status # "absent"
            => call[r].thread # 0

PipelineType ==
  /\ queue \in Seq(Job) /\ Len(queue) <= QueueMax
  /\ batch \in Seq(Job) /\ taken \in Nat /\ stopSeen \in BOOLEAN
  /\ writer \in {"idle", "acquiring", "writing", "stopped", "cancelled"}
  /\ dropped \in Nat /\ owed \in Int

DatabaseType ==
  /\ dbStatus \in [ThreadIds -> Statuses]
  /\ dbTurns \in [ThreadIds -> SUBSET Stamped]
  /\ dbFeedback \in [ThreadIds -> SUBSET Stamped]
  /\ dbPrompts \subseteq Prompt

\* The type of the state; the queue never holds more than its capacity.
TypeOK == ProcessType /\ IdsBorn /\ PipelineType /\ DatabaseType

IsTurn(n) == Pending[n].kind = "turn"

\* "Wire order IS persistence order" (append_turn): the turns of a thread reach the
\* database in seq order, and none of them ever meets a row of its own seq or a later
\* one, where ON CONFLICT DO NOTHING would silently discard it.
WireOrder ==
  \A n \in 1..Len(Pending) : IsTurn(n) =>
    /\ \A m \in 1..(n - 1) :
         IsTurn(m) /\ Pending[m].thread = Pending[n].thread => Pending[m].seq < Pending[n].seq
    /\ \A t \in dbTurns[Pending[n].thread] : t.seq < Pending[n].seq

\* The process that serves a thread knows every turn of it that is stored or on its way
\* to the database: memory is authoritative, whatever the interleaving of cache misses.
MemoryIsAuthoritative ==
  /\ \A i \in ThreadIds : mem[i].status # "absent" => dbTurns[i] \subseteq mem[i].turns
  /\ \A n \in 1..Len(Pending) : IsTurn(n) =>
       [seq |-> Pending[n].seq, at |-> Pending[n].at] \in mem[Pending[n].thread].turns

\* "A session id maps to its LATEST thread": no stored thread of a session is younger
\* than the one the cache serves.
ServesLatest ==
  \A s \in Sessions : cache[s] # 0 =>
    \A i \in (cache[s] + 1)..Len(born) : OwnerOf(i) = s => dbStatus[i] = "absent"

\* Whoever comes out of get_thread or reset_thread holds the thread the cache serves at
\* that moment, never the copy of it that a lost miss race built.
HandsOutCached ==
  [][\A r \in Callers : call'[r].pc = "hold" /\ call[r] # call'[r] =>
       call'[r].thread = cache'[call'[r].session]]_vars

\* A closed thread stays closed in the database: no turn queued for it, by a stream that
\* outlived the reset, writes "active" over "resolved".
ClosedStaysClosed ==
  [][\A i \in ThreadIds : dbStatus[i] = "resolved" => dbStatus'[i] = "resolved"]_vars

\* The last tap wins: a rating is never replaced by one submitted before it.
LastTapWins ==
  [][\A i \in ThreadIds : \A x \in dbFeedback[i], y \in dbFeedback'[i] :
       x.seq = y.seq => x.at <= y.at]_vars

\* No write is lost without being counted: what was offered and not carried out is still
\* pending or in dropped_writes.  (The count may be larger: a statement whose answer was
\* lost is counted, though it was carried out.)
DropsCounted == owed <= dropped + Writes(Pending)

\* A thread or turn write never fails on its prompt's foreign key: the snapshot is
\* stored, or this process can store it again.
KeysHealable ==
  \A n \in 1..Len(Pending) : Pending[n].kind \in {"thread", "turn"} => KeyHolds(Pending[n])

\* A graceful stop leaves nothing behind that was queued ahead of the sentinel: when the
\* writer has stopped, all it ever took is written or counted.
StopsDrained ==
  writer = "stopped" =>
    /\ owed <= dropped + Writes(queue)
    /\ \A n \in 1..Len(queue) : queue[n].kind # "shutdown"

\* Every turn and rating taken into the queue is settled, as long as the database answers
\* and nobody shuts down.
WritesSettle ==
  DatabaseAnswers =>
    \A k \in 1..MaxOps :
      (\E n \in 1..Len(Pending) : Pending[n].at = k)
        ~> ((\A n \in 1..Len(Pending) : Pending[n].at # k) \/ server # "up")

\* close() returns, also when it finds the queue full and has to wait for a slot: no
\* time limit is on that wait (the one of the drain begins after it).
CloseReturns == (server \in {"closing", "draining"}) ~> (server \in {"down", "up"})

\* It does as long as the database answers.
CloseReturnsIfAnswered == DatabaseAnswers => CloseReturns

\* "A wedged tunnel degrades persistence, not chat" (QUEUE_MAX): a caller that missed the
\* cache comes out of its queries.
ChatGoesOn ==
  \A r \in Callers : (call[r].pc \in {"row", "turns"}) ~> (call[r].pc \notin {"row", "turns"})

-----------------------------------------------------------------------------
(* Why the first three invariants hold: an inductive invariant, for any number of
   sessions, callers and threads, any sizes and any faults.                     *)

Served(i) == mem[i].status # "absent"
Blank(i)  == mem[i].status = "absent" /\ dbStatus[i] = "absent" /\ dbTurns[i] = {}

\* A thread that was not made has no object and no rows.
UnbornBlank == \A i \in ThreadIds : i > Len(born) => Blank(i)

\* The cache serves a live thread of its session, the youngest this process serves.
CacheServes ==
  /\ \A s \in Sessions : cache[s] # 0 => OwnerOf(cache[s]) = s /\ Served(cache[s])
  /\ \A i \in 1..Len(born) :
       Served(i) => cache[OwnerOf(i)] # 0 /\ i <= cache[OwnerOf(i)]

\* No turn of a served thread, in memory or stored, is beyond its last one.
LastIsLast ==
  \A i \in ThreadIds :
    /\ \A t \in mem[i].turns : t.seq <= mem[i].last
    /\ Served(i) => dbTurns[i] \subseteq mem[i].turns

\* A pending job is of a thread that was made.  If it touches the thread row, the
\* session's cache is warm and serves that thread or a younger one: the rows of a cold
\* session stand still.  If it is a turn, memory has it and the database has not come
\* so far.
JobSound(j) ==
  /\ j.thread <= Len(born)
  /\ j.kind \in {"thread", "turn"} =>
       /\ j.thread # 0
       /\ cache[OwnerOf(j.thread)] # 0 /\ j.thread <= cache[OwnerOf(j.thread)]
  /\ j.kind = "turn" =>
       /\ [seq |-> j.seq, at |-> j.at] \in mem[j.thread].turns
       /\ \A t \in dbTurns[j.thread] : t.seq < j.seq

JobsSound == \A n \in 1..Len(Pending) : JobSound(Pending[n])

TurnsOrdered ==
  \A m, n \in 1..Len(Pending) :
    m < n /\ IsTurn(m) /\ IsTurn(n) /\ Pending[m].thread = Pending[n].thread
      => Pending[m].seq < Pending[n].seq

\* What a suspended caller has read is still true, or somebody filled the cache meanwhile.
ReadCurrent(r) ==
  LET i == call[r].thread
      s == call[r].session
  IN  i # 0 =>
        /\ call[r].pc \in {"turns", "install", "hold"} /\ OwnerOf(i) = s
        /\ call[r].pc = "hold" => Served(i)
        /\ call[r].pc \in {"turns", "install"} =>
             call[r].found.status # "absent" /\ (cache[s] = 0 => IsNewestRow(s, i))
        /\ call[r].pc = "install" /\ cache[s] = 0 =>
             call[r].found.turns = dbTurns[i] /\ IsLast(call[r].found.last, dbTurns[i])

ReadsCurrent == \A r \in Callers : ReadCurrent(r)

\* The inductive invariant: it says why no miss race, no lost write and no restart lets
\* a turn meet a stored turn of its own seq.
StoreInv ==
  /\ TypeOK
  /\ UnbornBlank /\ CacheServes /\ LastIsLast
  /\ JobsSound /\ TurnsOrdered
  /\ ReadsCurrent /\ ServesLatest

=============================================================================
