------------------------- MODULE ThreadStore_proofs -------------------------
(* What the conversation store promises, for every value of the constants.  First its *)
(* types and the inductive invariant of what is consistent; then what becomes of the   *)
(* writes: their accounting, their foreign keys, the order of ratings, and that a      *)
(* closed thread stays closed; last that the store implements ConversationLog.         *)
EXTENDS StoreRefinement, SequenceTheorems, FiniteSetTheorems, FunctionTheorems, TLAPS

USE DEF Thread, Stamped, Statuses

-----------------------------------------------------------------------------
(* What the helpers build.                                                 *)

LEMMA JobTypes ==
  ASSUME NEW i \in 0..MaxThreads, NEW status \in Statuses, NEW prompt \in Prompt,
         NEW n \in Nat, NEW m \in Nat
  PROVE  /\ ThreadJob(i, status, prompt) \in Job
         /\ TurnJob(i, status, prompt, [seq |-> n, at |-> m]) \in Job
         /\ FeedbackJob(i, n, m) \in Job
BY StoreAssumption DEF ThreadJob, TurnJob, FeedbackJob, Job, JobKinds, Prompt

LEMMA FixedJobTypes ==
  /\ Shutdown \in Job
  /\ \A h \in Hashes : SnapshotJob(h) \in Job
BY StoreAssumption DEF Shutdown, SnapshotJob, Job, JobKinds, Prompt

LEMMA ThreadTypes == NoThread \in Thread /\ NewThread \in Thread
BY DEF NoThread, NewThread

LEMMA IdleType == IdleCall \in Call
BY StoreAssumption, ThreadTypes DEF IdleCall, Call

\* Two facts of the library, at the types they are used at here.
Associate(a, b, c) == (a \o b) \o c = a \o (b \o c)

LEMMA JobsAssociate ==
  ASSUME NEW a \in Seq(Job), NEW b \in Seq(Job), NEW c \in Seq(Job)
  PROVE  Associate(a, b, c)
BY ConcatAssociative, SMTT(60) DEF Associate

LEMMA UpTo ==
  ASSUME NEW n \in Nat
  PROVE  Cardinality(1..n) = n
BY FS_Interval

LEMMA SumType == \A a, b \in Int : a + b \in Int
OBVIOUS

\* _enqueue keeps the queue within its capacity.
LEMMA EnqueueType ==
  ASSUME TypeOK, NEW jobs \in Seq(Job), Enqueue(jobs)
  PROVE  /\ queue' \in Seq(Job) /\ Len(queue') <= QueueMax
         /\ dropped' \in Nat /\ owed' \in Int
<1> DEFINE n == IF Len(jobs) <= Room THEN Len(jobs) ELSE Room
<1>1. n \in 0..Len(jobs) /\ n <= QueueMax - Len(queue)
  BY StoreAssumption, LenProperties DEF TypeOK, PipelineType, Room
<1>2. SubSeq(jobs, 1, n) \in Seq(Job) /\ Len(SubSeq(jobs, 1, n)) = n
  BY <1>1, SubSeqProperties, LenProperties
<1>3. /\ queue' = queue \o SubSeq(jobs, 1, n)
      /\ dropped' = dropped + (Len(jobs) - n)
      /\ owed' = owed + Len(jobs)
  BY DEF Enqueue, CountDropped
<1>4. queue' \in Seq(Job) /\ Len(queue') = Len(queue) + n
  BY <1>2, <1>3, ConcatProperties, SMTT(60), ZenonT(60) DEF TypeOK, PipelineType
<1>5. PICK a \in Nat, b \in Nat, d \in Nat, o \in Int :
        a = Len(queue) /\ b = Len(jobs) /\ d = dropped /\ o = owed
  BY LenProperties DEF TypeOK, PipelineType
<1> HIDE DEF n
<1>6. n \in 0..b /\ n <= QueueMax - a /\ QueueMax \in Nat
  BY <1>1, <1>5, StoreAssumption
<1>7. a + n <= QueueMax /\ d + (b - n) \in Nat /\ o + b \in Int
  BY <1>6
<1> QED
  BY <1>3, <1>4, <1>5, <1>7, Zenon

-----------------------------------------------------------------------------
(* Type correctness.                                                       *)

LEMMA InitType == Init => TypeOK
<1> SUFFICES ASSUME Init PROVE TypeOK
  OBVIOUS
<1>1. IdleCall \in Call /\ NoThread \in Thread
  BY IdleType, ThreadTypes
<1>2. <<>> \in Seq(Job) /\ <<>> \in Seq([session : Sessions, prompt : Prompt]) /\ Len(<<>>) = 0
  BY EmptySeq
<1>3. ProcessType
  BY <1>1, <1>2, StoreAssumption DEF Init, ProcessType, Prompt
<1>4. PipelineType
  <2>1. queue \in Seq(Job) /\ batch \in Seq(Job) /\ Len(queue) <= QueueMax
    <3>1. queue = <<>> /\ batch = <<>>
      BY DEF Init
    <3>2. 0 <= QueueMax
      BY StoreAssumption
    <3> QED
      BY <1>2, <3>1, <3>2
  <2>2. writer = "idle" /\ taken = 0 /\ stopSeen = FALSE /\ dropped = 0 /\ owed = 0
    BY DEF Init
  <2>3. stopSeen \in BOOLEAN
    BY <2>2
  <2> QED
    BY <2>1, <2>2, <2>3 DEF PipelineType
<1>5. DatabaseType
  BY DEF Init, DatabaseType
<1>6. IdsBorn
  BY <1>2 DEF Init, IdsBorn, IdleCall, NoThread
<1> QED
  BY <1>3, <1>4, <1>5, <1>6 DEF TypeOK

\* Create makes an identity for the new thread and points the cache at it.
LEMMA CreateType ==
  ASSUME TypeOK, NEW s \in Sessions, NEW jobs \in Seq(Job), Create(s, jobs)
  PROVE  /\ born' \in Seq([session : Sessions, prompt : Prompt]) /\ Len(born') <= MaxThreads
         /\ cache' \in [Sessions -> 0..MaxThreads]
         /\ queue' \in Seq(Job) /\ Len(queue') <= QueueMax
         /\ dropped' \in Nat /\ owed' \in Int
         /\ Len(born) + 1 \in ThreadIds /\ Len(born') = Len(born) + 1
<1>1. Len(born) \in Nat /\ Len(born) + 1 \in ThreadIds /\ Len(born) + 1 \in 0..MaxThreads
  BY LenProperties, StoreAssumption, SMTT(60) DEF Create, TypeOK, ProcessType, ThreadIds
<1>2. /\ born' = Append(born, [session |-> s, prompt |-> current])
      /\ cache' = [cache EXCEPT ![s] = Len(born) + 1]
      /\ Enqueue(jobs \o <<ThreadJob(Len(born) + 1, "active", current)>>)
  BY DEF Create
<1>3. born' \in Seq([session : Sessions, prompt : Prompt]) /\ Len(born') = Len(born) + 1
  BY <1>2, AppendProperties DEF TypeOK, ProcessType
<1>4. jobs \o <<ThreadJob(Len(born) + 1, "active", current)>> \in Seq(Job)
  <2>1. ThreadJob(Len(born) + 1, "active", current) \in Job
    BY <1>1, JobTypes, "active" \in Statuses DEF TypeOK, ProcessType
  <2> QED
    BY <2>1, ConcatProperties
<1>5. /\ queue' \in Seq(Job) /\ Len(queue') <= QueueMax
      /\ dropped' \in Nat /\ owed' \in Int
  BY <1>2, <1>4, EnqueueType
<1> QED
  BY <1>1, <1>2, <1>3, <1>5 DEF TypeOK, ProcessType, ThreadIds

\* The three parts of the state that a step of a caller leaves to others.
LEMMA KeepPipeline ==
  ASSUME PipelineType, UNCHANGED pipeVars
  PROVE  PipelineType'
BY DEF PipelineType, pipeVars

LEMMA KeepDatabase ==
  ASSUME DatabaseType, UNCHANGED dbVars
  PROVE  DatabaseType'
BY DEF DatabaseType, dbVars

LEMMA KeepProcess ==
  ASSUME ProcessType, UNCHANGED <<born, procVars, server, clock>>
  PROVE  ProcessType'
BY DEF ProcessType, procVars

\* A caller that enqueues, or does not, leaves the writer alone.
LEMMA CallerPipeline ==
  ASSUME TypeOK, WriterIdles,
         NoEnqueue \/ \E jobs \in Seq(Job) : Enqueue(jobs)
  PROVE  PipelineType'
<1>1. queue' \in Seq(Job) /\ Len(queue') <= QueueMax /\ dropped' \in Nat /\ owed' \in Int
  <2>1. CASE NoEnqueue
    BY <2>1 DEF TypeOK, PipelineType, NoEnqueue
  <2>2. CASE \E jobs \in Seq(Job) : Enqueue(jobs)
    BY <2>2, EnqueueType
  <2> QED
    BY <2>1, <2>2
<1>2. stopSeen' \in BOOLEAN
  BY DEF TypeOK, PipelineType, WriterIdles
<1> QED
  BY <1>1, <1>2 DEF TypeOK, PipelineType, WriterIdles

LEMMA RegisterType == TypeOK /\ RegisterPrompt => TypeOK'
<1> SUFFICES ASSUME TypeOK, RegisterPrompt PROVE TypeOK'
  OBVIOUS
<1>1. build \in Hashes /\ SnapshotJob(build) \in Job
  BY FixedJobTypes DEF TypeOK, ProcessType
<1>2. ProcessType' /\ IdsBorn'
  BY <1>1 DEF TypeOK, ProcessType, IdsBorn, RegisterPrompt, Remember, Prompt
<1>3. PipelineType'
  <2>1. <<SnapshotJob(build)>> \in Seq(Job)
    BY <1>1
  <2> QED
    BY <2>1, CallerPipeline DEF RegisterPrompt
<1>4. DatabaseType'
  BY KeepDatabase DEF RegisterPrompt, TypeOK
<1> QED
  BY <1>2, <1>3, <1>4 DEF TypeOK

\* A caller comes out of the store holding thread i, or goes on waiting.
LEMMA CallType ==
  ASSUME TypeOK, NEW r \in Callers, NEW c \in Call, call' = [call EXCEPT ![r] = c],
         Len(born') \in Nat, Len(born') >= Len(born), c.thread <= Len(born'),
         c.pc \in {"turns", "hold"} \/ c.found.status # "absent" => c.thread # 0,
         \A s \in Sessions : cache'[s] <= Len(born')
  PROVE  call' \in [Callers -> Call] /\ IdsBorn'
<1>1. call' \in [Callers -> Call]
  BY DEF TypeOK, ProcessType
<1>2. ASSUME NEW q \in Callers
      PROVE  /\ call'[q].thread <= Len(born')
             /\ call'[q].pc \in {"turns", "hold"} \/ call'[q].found.status # "absent"
                  => call'[q].thread # 0
  <2>1. CASE q = r
    BY <2>1 DEF TypeOK, ProcessType
  <2>2. CASE q # r
    <3>1. call'[q] = call[q] /\ call[q].thread \in Nat /\ Len(born) \in Nat
      BY <2>2, LenProperties DEF TypeOK, ProcessType, Call
    <3> QED
      BY <3>1 DEF TypeOK, IdsBorn
  <2> QED
    BY <2>1, <2>2
<1> QED
  BY <1>1, <1>2 DEF IdsBorn

LEMMA CallShapes ==
  ASSUME NEW s \in Sessions
  PROVE  /\ \A i \in 0..MaxThreads : Holding(s, i) \in Call /\ Holding(s, i).thread = i
         /\ \A op \in {"get", "reset"} :
              /\ Waiting(op, s) \in Call /\ Waiting(op, s).thread = 0
              /\ Waiting(op, s).pc = "row" /\ Waiting(op, s).found.status = "absent"
BY StoreAssumption DEF Holding, Waiting, Call, NoThread

\* A step of caller r that moves only its own call, to a call c of threads already made.
LEMMA CallOnlyType ==
  ASSUME TypeOK, NEW r \in Callers, NEW c \in Call, call' = [call EXCEPT ![r] = c],
         c.thread <= Len(born), 
         c.pc \in {"turns", "hold"} \/ c.found.status # "absent" => c.thread # 0,
         UNCHANGED <<born, mem, cache, build, prompts, current, server, clock>>
  PROVE  ProcessType' /\ IdsBorn'
<1>1. Len(born') \in Nat /\ Len(born') = Len(born)
  BY LenProperties DEF TypeOK, ProcessType
<1>2. \A s \in Sessions : cache'[s] <= Len(born')
  BY DEF TypeOK, IdsBorn
<1>3. call' \in [Callers -> Call] /\ IdsBorn'
  <2>1. Len(born') >= Len(born) /\ c.thread <= Len(born')
    BY <1>1
  <2> QED
    BY <1>1, <1>2, <2>1, CallType
<1> QED
  BY <1>3 DEF TypeOK, ProcessType

\* A step of caller r that makes a thread for session s and leaves r holding it.
LEMMA CreateStep ==
  ASSUME TypeOK, NEW r \in Callers, NEW s \in Sessions, NEW jobs \in Seq(Job),
         Create(s, jobs), Resume(r, s, Len(born) + 1), mem' \in [ThreadIds -> Thread],
         WriterIdles, UNCHANGED <<build, prompts, current, server, clock, dbVars>>
  PROVE  TypeOK'
<1> DEFINE new == Len(born) + 1
<1>1. /\ born' \in Seq([session : Sessions, prompt : Prompt]) /\ Len(born') <= MaxThreads
      /\ cache' \in [Sessions -> 0..MaxThreads]
      /\ cache' = [cache EXCEPT ![s] = new]
      /\ queue' \in Seq(Job) /\ Len(queue') <= QueueMax
      /\ dropped' \in Nat /\ owed' \in Int
      /\ new \in ThreadIds /\ Len(born') = new
  <2>1. cache' = [cache EXCEPT ![s] = new]
    BY DEF Create
  <2> QED
    BY <2>1, CreateType
<1>2. Len(born) \in Nat
  BY LenProperties DEF TypeOK, ProcessType
<1>3. Holding(s, new) \in Call /\ Holding(s, new).thread = new /\ call' = [call EXCEPT ![r] = Holding(s, new)]
  BY <1>1, CallShapes DEF ThreadIds, Resume
<1>4. call' \in [Callers -> Call] /\ IdsBorn'
  <2>1. \A x \in Sessions : cache'[x] <= Len(born')
    BY <1>1, <1>2, SMTT(60) DEF TypeOK, ProcessType, IdsBorn
  <2>2. Len(born') \in Nat /\ Len(born') >= Len(born) /\ Holding(s, new).thread <= Len(born')
    BY <1>1, <1>2, <1>3
  <2>3. Holding(s, new).thread # 0
    BY <1>2, <1>3
  <2> HIDE DEF new
  <2> QED
    BY <1>3, <2>1, <2>2, <2>3, CallType
<1>5. ProcessType'
  BY <1>1, <1>4 DEF TypeOK, ProcessType
<1>6. PipelineType'
  <2>1. stopSeen' \in BOOLEAN
    BY DEF TypeOK, PipelineType, WriterIdles
  <2> QED
    BY <1>1, <2>1 DEF TypeOK, PipelineType, WriterIdles
<1> QED
  BY <1>4, <1>5, <1>6, KeepDatabase DEF TypeOK

\* The jobs that close thread i when it is active.
LEMMA CloseJobs ==
  ASSUME TypeOK, NEW i \in 0..MaxThreads, NEW b \in BOOLEAN, b => i \in 1..Len(born)
  PROVE  (IF b THEN <<ThreadJob(i, "resolved", born[i].prompt)>> ELSE <<>>) \in Seq(Job)
<1>1. CASE b
  <2>1. i \in 1..Len(born) /\ born \in Seq([session : Sessions, prompt : Prompt])
    BY <1>1 DEF TypeOK, ProcessType
  <2>2. born[i] \in [session : Sessions, prompt : Prompt]
    BY <2>1, ElementOfSeq
  <2>3. ThreadJob(i, "resolved", born[i].prompt) \in Job
    BY <2>2, JobTypes
  <2> QED
    BY <1>1, <2>3
<1>2. CASE ~b
  BY <1>2
<1> QED
  BY <1>1, <1>2

LEMMA EnterType ==
  ASSUME TypeOK, NEW r \in Callers, NEW s \in Sessions, Enter(r, s)
  PROVE  TypeOK'
<1>1. /\ cache[s] \in 0..MaxThreads /\ call[r] \in Call /\ Len(born) \in Nat
      /\ mem \in [ThreadIds -> Thread] /\ born \in Seq([session : Sessions, prompt : Prompt])
      /\ \A x \in Sessions : cache[x] <= Len(born)
  BY LenProperties DEF TypeOK, ProcessType, IdsBorn
<1>2. CASE GetCached(r, s)
  <2> DEFINE c == Holding(s, cache[s])
  <2>1. /\ cache[s] # 0 /\ call' = [call EXCEPT ![r] = c]
        /\ UNCHANGED <<born, mem, cache, build, prompts, current, server, clock, dbVars>>
    BY <1>2 DEF GetCached, Resume, Enter
  <2>2. c \in Call /\ c.thread = cache[s]
    BY <1>1, <2>1, CallShapes
  <2>3. c.pc \in {"turns", "hold"} \/ c.found.status # "absent" => c.thread # 0
    BY <2>1, <2>2
  <2>4. ProcessType' /\ IdsBorn'
    <3>1. c.thread <= Len(born)
      BY <1>1, <2>2
    <3> HIDE DEF c
    <3> QED
      BY <2>1, <2>2, <2>3, <3>1, CallOnlyType
  <2>5. PipelineType'
    BY <1>2, CallerPipeline DEF GetCached, Enter
  <2> QED
    BY <2>1, <2>4, <2>5, KeepDatabase DEF TypeOK
<1>3. ASSUME NEW op \in {"get", "reset"}, AwaitRow(r, op, s)
      PROVE  TypeOK'
  <2> DEFINE c == Waiting(op, s)
  <2>1. /\ call' = [call EXCEPT ![r] = c]
        /\ UNCHANGED <<born, mem, cache, build, prompts, current, server, clock, dbVars>>
    BY <1>3 DEF AwaitRow, Enter
  <2>2. c \in Call /\ c.thread = 0 /\ c.pc = "row" /\ c.found.status = "absent"
    BY CallShapes
  <2>3. c.pc \in {"turns", "hold"} \/ c.found.status # "absent" => c.thread # 0
    BY <2>1, <2>2
  <2>4. ProcessType' /\ IdsBorn'
    <3>1. c.thread <= Len(born)
      BY <1>1, <2>2
    <3> HIDE DEF c
    <3> QED
      BY <2>1, <2>2, <2>3, <3>1, CallOnlyType
  <2>5. PipelineType'
    BY <1>3, CallerPipeline DEF AwaitRow, Enter
  <2> QED
    BY <2>1, <2>4, <2>5, KeepDatabase DEF TypeOK
<1>4. CASE ResetCached(r, s)
  <2> DEFINE old == cache[s]
             b == mem[old].status = "active"
             jobs == IF b THEN <<ThreadJob(old, "resolved", born[old].prompt)>> ELSE <<>>
  <2>1. old \in 1..Len(born) /\ old \in 0..MaxThreads
    BY <1>1, <1>4 DEF ResetCached
  <2>2. jobs \in Seq(Job)
    <3> HIDE DEF old
    <3> QED
      BY <2>1, CloseJobs
  <2>3. /\ Create(s, jobs)
        /\ mem' = [Resolved(old) EXCEPT ![Len(born) + 1] = NewThread]
        /\ Resume(r, s, Len(born) + 1)
        /\ WriterIdles /\ UNCHANGED <<build, prompts, current, server, clock, dbVars>>
    BY <1>4 DEF ResetCached, Enter
  <2>4. mem' \in [ThreadIds -> Thread]
    BY <1>1, <2>3, ThreadTypes, ZenonT(60) DEF Resolved
  <2> HIDE DEF jobs
  <2> QED
    BY <2>2, <2>3, <2>4, CreateStep
<1> QED
  BY <1>2, <1>3, <1>4 DEF Enter

LEMMA QueryType ==
  ASSUME TypeOK, NEW r \in Callers, RowArrives(r) \/ TurnsArrive(r)
  PROVE  TypeOK'
<1>1. call[r] \in Call /\ call \in [Callers -> Call] /\ NoThread \in Thread /\ Len(born) \in Nat
      /\ call[r].thread <= Len(born)
  BY ThreadTypes, LenProperties DEF TypeOK, ProcessType, IdsBorn
<1>2. SUFFICES ASSUME NEW c \in Call, call' = [call EXCEPT ![r] = c], c.thread <= Len(born),
                      c.pc \in {"turns", "hold"} \/ c.found.status # "absent" => c.thread # 0
               PROVE  TypeOK'
  <2>1. \E c \in Call : /\ call' = [call EXCEPT ![r] = c]
                        /\ c.thread <= Len(born)
                        /\ c.pc \in {"turns", "hold"} \/ c.found.status # "absent" => c.thread # 0
    <3>1. CASE FailedRead(r)
      <4> DEFINE c == [call[r] EXCEPT !.pc = "install", !.thread = 0, !.found = NoThread]
      <4>1. c \in Call
        <5>1. 0 \in 0..MaxThreads
          BY StoreAssumption
        <5>2. call[r] \in [pc : {"idle", "row", "turns", "install", "hold"}, op : {"get", "reset"},
                            session : Sessions, thread : 0..MaxThreads, found : Thread]
          BY <1>1 DEF Call
        <5> HIDE DEF Thread
        <5> QED
          BY <1>1, <5>1, <5>2 DEF Call
      <4>2. c.thread = 0 /\ c.pc = "install" /\ c.found = NoThread
        BY <1>1 DEF Call
      <4>3. c.thread <= Len(born) /\ c.found.status = "absent"
        BY <1>1, <4>2 DEF NoThread
      <4>4. call' = [call EXCEPT ![r] = c]
        BY <1>1, <3>1 DEF FailedRead
      <4> HIDE DEF c
      <4> QED
        BY <4>1, <4>2, <4>3, <4>4
    <3>2. CASE call[r].pc = "row" /\ call' = [call EXCEPT ![r].pc = "install"]
      <4> DEFINE c == [call[r] EXCEPT !.pc = "install"]
      <4>1. c \in Call /\ c.thread = call[r].thread /\ c.pc = "install" /\ c.found = call[r].found
        BY <1>1 DEF Call
      <4>2. call' = [call EXCEPT ![r] = c]
        BY <1>1, <3>2
      <4> QED
        BY <1>1, <4>1, <4>2 DEF TypeOK, IdsBorn
    <3>3. ASSUME NEW i \in ThreadIds, IsNewestRow(call[r].session, i),
                 call' = [call EXCEPT ![r].pc = "turns", ![r].thread = i,
                                      ![r].found.status = dbStatus[i]]
          PROVE  \E c \in Call :
                   /\ call' = [call EXCEPT ![r] = c]
                   /\ c.thread <= Len(born)
                   /\ c.pc \in {"turns", "hold"} \/ c.found.status # "absent" => c.thread # 0
      <4> DEFINE c == [call[r] EXCEPT !.pc = "turns", !.thread = i, !.found.status = dbStatus[i]]
      <4>1. i \in 1..Len(born) /\ i \in 0..MaxThreads /\ dbStatus[i] \in Statuses
        BY <3>3 DEF IsNewestRow, TypeOK, DatabaseType, ThreadIds
      <4>2. c \in Call /\ c.thread = i
        BY <1>1, <4>1 DEF Call
      <4>3. call' = [call EXCEPT ![r] = c]
        BY <1>1, <3>3, ZenonT(60)
      <4>4. c.thread <= Len(born) /\ c.thread # 0
        BY <1>1, <4>1, <4>2
      <4> HIDE DEF c
      <4> QED
        BY <4>2, <4>3, <4>4
    <3>4. ASSUME NEW n \in 0..MaxOps, call[r].pc = "turns",
                 call' = [call EXCEPT ![r].pc = "install", ![r].found.last = n,
                                      ![r].found.turns = dbTurns[call[r].thread]]
          PROVE  \E c \in Call :
                   /\ call' = [call EXCEPT ![r] = c]
                   /\ c.thread <= Len(born)
                   /\ c.pc \in {"turns", "hold"} \/ c.found.status # "absent" => c.thread # 0
      <4> DEFINE c == [call[r] EXCEPT !.pc = "install", !.found.last = n,
                                      !.found.turns = dbTurns[call[r].thread]]
      <4>1. call[r].thread \in ThreadIds /\ call[r].thread # 0
        BY <1>1, <3>4 DEF TypeOK, IdsBorn, Call, ThreadIds
      <4>2. dbTurns[call[r].thread] \in SUBSET Stamped /\ n \in Nat
        BY <4>1 DEF TypeOK, DatabaseType
      <4>3. c \in Call /\ c.thread = call[r].thread
        BY <1>1, <4>2 DEF Call
      <4>4. call' = [call EXCEPT ![r] = c]
        BY <1>1, <3>4, ZenonT(60)
      <4> QED
        BY <1>1, <4>1, <4>3, <4>4
    <3> QED
      BY <3>1, <3>2, <3>3, <3>4, ZenonT(60) DEF RowArrives, TurnsArrive
  <2> QED
    BY <2>1
<1>3. UNCHANGED <<born, mem, cache, build, prompts, current, pipeVars, server, clock, dbVars>>
  BY ZenonT(60) DEF RowArrives, TurnsArrive
<1>4. ProcessType' /\ IdsBorn'
  BY <1>2, <1>3, CallOnlyType
<1> QED
  BY <1>3, <1>4, KeepPipeline, KeepDatabase DEF TypeOK

LEMMA LeaveType ==
  ASSUME TypeOK, NEW r \in Callers, Leave(r)
  PROVE  TypeOK'
<1>1. IdleCall \in Call /\ IdleCall.thread = 0 /\ IdleCall.pc = "idle" /\ IdleCall.found.status = "absent"
  BY IdleType DEF IdleCall, NoThread
<1>2. /\ call' = [call EXCEPT ![r] = IdleCall]
      /\ UNCHANGED <<born, mem, cache, build, prompts, current, pipeVars, server, clock, dbVars>>
  BY DEF Leave
<1>3. ProcessType' /\ IdsBorn'
  <2>1. IdleCall.thread <= Len(born)
    BY <1>1, LenProperties DEF TypeOK, ProcessType
  <2> QED
    BY <1>1, <1>2, <2>1, CallOnlyType
<1> QED
  BY <1>2, <1>3, KeepPipeline, KeepDatabase DEF TypeOK

LEMMA InstallType ==
  ASSUME TypeOK, NEW r \in Callers, Install(r)
  PROVE  TypeOK'
<1> DEFINE s == call[r].session
           i == call[r].thread
<1>1. /\ s \in Sessions /\ i \in 0..MaxThreads /\ call[r] \in Call /\ Len(born) \in Nat
      /\ call[r].found \in Thread /\ i <= Len(born)
      /\ cache[s] \in 0..MaxThreads /\ cache[s] <= Len(born)
      /\ mem \in [ThreadIds -> Thread] /\ cache \in [Sessions -> 0..MaxThreads]
  BY LenProperties DEF TypeOK, ProcessType, IdsBorn, Call
<1>2. /\ call[r].pc = "install" /\ WriterIdles
      /\ UNCHANGED <<build, prompts, current, server, clock, dbVars>>
  BY DEF Install
<1>3. CASE /\ Existing(s) # 0 /\ Resume(r, s, Winner(r, s)) /\ NoEnqueue
           /\ UNCHANGED <<born, mem, cache>>
  <2>1. /\ cache[s] # 0 /\ Holding(s, cache[s]) \in Call /\ Holding(s, cache[s]).thread = cache[s]
        /\ call' = [call EXCEPT ![r] = Holding(s, cache[s])]
    BY <1>1, <1>3, CallShapes DEF Resume, Winner, Existing
  <2>2. ProcessType' /\ IdsBorn'
    <3>1. Holding(s, cache[s]).thread <= Len(born) /\ Holding(s, cache[s]).thread # 0
      BY <1>1, <2>1
    <3> QED
      BY <1>2, <1>3, <2>1, <3>1, CallOnlyType
  <2> QED
    BY <1>2, <1>3, <2>2, CallerPipeline, KeepDatabase DEF TypeOK
<1>4. CASE /\ Existing(s) = 0 /\ i # 0
           /\ mem' = [mem EXCEPT ![i] = call[r].found]
           /\ cache' = [cache EXCEPT ![s] = i]
           /\ Resume(r, s, i) /\ NoEnqueue /\ UNCHANGED born
  <2>1. /\ Holding(s, i) \in Call /\ Holding(s, i).thread = i
        /\ call' = [call EXCEPT ![r] = Holding(s, i)]
    BY <1>1, <1>4, CallShapes DEF Resume
  <2>2. /\ mem' \in [ThreadIds -> Thread] /\ cache' \in [Sessions -> 0..MaxThreads]
        /\ \A x \in Sessions : cache'[x] <= Len(born')
    <3>1. \A x \in Sessions : cache[x] <= Len(born)
      BY DEF TypeOK, IdsBorn
    <3> HIDE DEF Thread
    <3> QED
      BY <1>1, <1>4, <3>1
  <2>3. call' \in [Callers -> Call] /\ IdsBorn'
    <3>1. /\ Len(born') \in Nat /\ Len(born') >= Len(born) /\ Holding(s, i).thread <= Len(born')
          /\ Holding(s, i).thread # 0
      BY <1>1, <1>4, <2>1
    <3> QED
      BY <2>1, <2>2, <3>1, CallType
  <2>4. ProcessType'
    BY <1>2, <1>4, <2>2, <2>3 DEF TypeOK, ProcessType
  <2> QED
    BY <1>2, <1>4, <2>3, <2>4, CallerPipeline, KeepDatabase DEF TypeOK
<1>5. ASSUME NEW jobs \in Seq(Job), Create(s, jobs),
             mem' = [mem EXCEPT ![Len(born) + 1] = NewThread], Resume(r, s, Len(born) + 1)
      PROVE  TypeOK'
  <2>1. mem' \in [ThreadIds -> Thread]
    <3> HIDE DEF Thread
    <3> QED
      BY <1>1, <1>5, ThreadTypes
  <2> QED
    BY <1>1, <1>2, <1>5, <2>1, CreateStep
<1>6. CASE Existing(s) = 0 /\ i = 0 /\ InstallGet(r)
  <2>1. Create(s, <<>>) /\ mem' = [mem EXCEPT ![Len(born) + 1] = NewThread] /\ Resume(r, s, Len(born) + 1)
    BY <1>6 DEF InstallGet
  <2>2. <<>> \in Seq(Job)
    OBVIOUS
  <2> QED
    BY <1>5, <2>1, <2>2
<1>7. CASE InstallReset(r)
  <2> DEFINE b == call[r].found.status = "active"
             jobs == IF b THEN <<ThreadJob(i, "resolved", born[i].prompt)>> ELSE <<>>
  <2>1. Create(s, jobs) /\ mem' = [mem EXCEPT ![Len(born) + 1] = NewThread] /\ Resume(r, s, Len(born) + 1)
    BY <1>7 DEF InstallReset
  <2>2. jobs \in Seq(Job)
    <3>1. b => i \in 1..Len(born)
      BY <1>1 DEF TypeOK, IdsBorn
    <3> HIDE DEF b, i
    <3> QED
      BY <1>1, <3>1, CloseJobs
  <2> HIDE DEF jobs
  <2> QED
    BY <1>5, <2>1, <2>2
<1> QED
  BY <1>3, <1>4, <1>6, <1>7 DEF Install, InstallGet

LEMMA AppendType ==
  ASSUME TypeOK, NEW r \in Callers, AppendTurn(r)
  PROVE  TypeOK'
<1> DEFINE i    == call[r].thread
           turn == [seq |-> NextSeq(i), at |-> clock + 1]
<1>1. /\ i \in 1..Len(born) /\ i \in ThreadIds /\ i \in 0..MaxThreads
      /\ mem[i] \in Thread /\ clock \in Nat /\ mem \in [ThreadIds -> Thread]
  BY LenProperties, SMTT(60) DEF TypeOK, ProcessType, IdsBorn, Call, AppendTurn, ThreadIds
<1>2. /\ clock' = clock + 1
      /\ mem' = [mem EXCEPT ![i].turns = @ \cup {turn}, ![i].last = turn.seq]
      /\ Enqueue(<<TurnJob(i, mem[i].status, born[i].prompt, turn)>>)
      /\ WriterIdles
      /\ UNCHANGED <<born, cache, call, build, prompts, current, server, dbVars>>
  BY DEF AppendTurn
<1>3. NextSeq(i) \in Nat \ {0} /\ clock + 1 \in Nat \ {0} /\ turn \in Stamped
  BY <1>1, SMTT(60) DEF NextSeq
<1>4. mem' \in [ThreadIds -> Thread]
  <2>1. turn.seq \in Nat
    BY <1>3
  <2> HIDE DEF turn, i
  <2> QED
    BY <1>1, <1>2, <1>3, <2>1, ZenonT(60)
<1>5. <<TurnJob(i, mem[i].status, born[i].prompt, turn)>> \in Seq(Job)
  <2>1. born[i] \in [session : Sessions, prompt : Prompt]
    <3> HIDE DEF i
    <3> QED
      BY <1>1, ElementOfSeq DEF TypeOK, ProcessType
  <2>2. TurnJob(i, mem[i].status, born[i].prompt, turn) \in Job
    <3>1. PICK b \in Statuses, p \in Prompt, n \in Nat, m \in Nat :
            b = mem[i].status /\ p = born[i].prompt /\ turn = [seq |-> n, at |-> m]
      <4>1. mem[i].status \in Statuses /\ born[i].prompt \in Prompt
        <5> HIDE DEF turn, i
        <5> QED
          BY <1>1, <2>1 DEF Thread
      <4>2. NextSeq(i) \in Nat /\ clock + 1 \in Nat
        BY <1>3, SMTT(60)
      <4> QED
        BY <4>1, <4>2, Zenon
    <3> HIDE DEF turn, i
    <3> QED
      BY <1>1, <3>1, JobTypes, Zenon
  <2> HIDE DEF turn, i
  <2> QED
    BY <2>2
<1>6. PipelineType'
  BY <1>2, <1>5, CallerPipeline
<1>7. ProcessType' /\ IdsBorn'
  BY <1>1, <1>2, <1>4 DEF TypeOK, ProcessType, IdsBorn
<1> QED
  BY <1>2, <1>6, <1>7, KeepDatabase DEF TypeOK

LEMMA FeedbackType ==
  ASSUME TypeOK, NEW r \in Callers, RecordFeedback(r)
  PROVE  TypeOK'
<1> DEFINE i == call[r].thread
<1>1. /\ i \in 1..Len(born) /\ i \in ThreadIds /\ i \in 0..MaxThreads
      /\ mem[i] \in Thread /\ clock \in Nat
  BY LenProperties DEF TypeOK, ProcessType, IdsBorn, Call, RecordFeedback, ThreadIds
<1>2. PICK anchor \in Anchors \cup ({mem[i].last} \ {0}) :
        Enqueue(<<FeedbackJob(i, anchor, clock + 1)>>)
  BY DEF RecordFeedback
<1>3. <<FeedbackJob(i, anchor, clock + 1)>> \in Seq(Job)
  <2>1. anchor \in Nat /\ clock + 1 \in Nat
    <3>1. mem[i].last \in Nat /\ Anchors \subseteq Nat
      BY <1>1, StoreAssumption
    <3> HIDE DEF i
    <3> QED
      BY <1>1, <1>2, <3>1
  <2>2. FeedbackJob(i, anchor, clock + 1) \in Job
    BY <1>1, <2>1, JobTypes, "absent" \in Statuses, StoreAssumption DEF Prompt
  <2> HIDE DEF i
  <2> QED
    BY <2>2
<1>4. /\ call' = [call EXCEPT ![r] = IdleCall] /\ clock' = clock + 1 /\ WriterIdles
      /\ UNCHANGED <<born, mem, cache, build, prompts, current, server, dbVars>>
  BY DEF RecordFeedback
<1>5. PipelineType'
  BY <1>2, <1>3, <1>4, CallerPipeline
<1>6. call' \in [Callers -> Call] /\ IdsBorn'
  <2>1. /\ Len(born') \in Nat /\ Len(born') >= Len(born) /\ IdleCall.thread <= Len(born')
        /\ IdleCall \in Call
    BY <1>4, IdleType, LenProperties DEF TypeOK, ProcessType, IdleCall
  <2>2. IdleCall.pc = "idle" /\ IdleCall.found.status = "absent"
    BY DEF IdleCall, NoThread
  <2>3. \A x \in Sessions : cache'[x] <= Len(born')
    BY <1>4 DEF TypeOK, IdsBorn
  <2> QED
    BY <1>4, <2>1, <2>2, <2>3, CallType
<1>7. ProcessType'
  BY <1>1, <1>4, <1>6 DEF TypeOK, ProcessType
<1> QED
  BY <1>4, <1>5, <1>6, <1>7, KeepDatabase DEF TypeOK

\* What the statements of one job leave in the tables.
LEMMA ApplyType ==
  ASSUME DatabaseType, NEW j \in Job, Apply(j)
  PROVE  DatabaseType'
<1>1. /\ j.status \in Statuses /\ j.prompt \in Prompt
      /\ [seq |-> j.seq, at |-> j.at] \in Stamped
  BY DEF Job
<1>2. UpsertThread(j) => dbStatus' \in [ThreadIds -> Statuses] /\ dbPrompts' \subseteq Prompt
  BY <1>1 DEF UpsertThread, DatabaseType
<1>3. InsertTurn(j) => dbTurns' \in [ThreadIds -> SUBSET Stamped]
  <2> DEFINE row == [seq |-> j.seq, at |-> j.at]
  <2>1. row \in Stamped
    BY <1>1
  <2>2. InsertTurn(j) => dbTurns' = dbTurns \/ dbTurns' = [dbTurns EXCEPT ![j.thread] = @ \cup {row}]
    BY DEF InsertTurn
  <2> HIDE DEF row, Stamped
  <2> QED
    BY <2>1, <2>2 DEF DatabaseType
<1>4. UpsertFeedback(j) => dbFeedback' \in [ThreadIds -> SUBSET Stamped]
  <2> DEFINE row == [seq |-> j.seq, at |-> j.at]
  <2>1. row \in Stamped
    BY <1>1
  <2>2. UpsertFeedback(j) =>
          dbFeedback' = [dbFeedback EXCEPT ![j.thread] = {x \in @ : x.seq # j.seq} \cup {row}]
    BY DEF UpsertFeedback
  <2> HIDE DEF row, Stamped
  <2> QED
    BY <2>1, <2>2 DEF DatabaseType
<1> QED
  BY <1>1, <1>2, <1>3, <1>4 DEF Apply, DatabaseType

LEMMA WriterType == TypeOK /\ WriterStep => TypeOK'
<1> SUFFICES ASSUME TypeOK, WriterStep PROVE TypeOK'
  OBVIOUS
<1>1. /\ queue \in Seq(Job) /\ Len(queue) <= QueueMax /\ batch \in Seq(Job) /\ Len(queue) \in Nat
      /\ taken \in Nat /\ stopSeen \in BOOLEAN /\ dropped \in Nat /\ owed \in Int
      /\ writer \in {"idle", "acquiring", "writing", "stopped", "cancelled"}
  BY LenProperties DEF TypeOK, PipelineType
<1>2. WriterOnly
  BY DEF WriterStep, WriterAlone, WriterAnswered, TakeBatch, SkipBatch, EndBatch, Acquire, AcquireFails, SkipSentinel, WriteJob,
         DropJob, Release, ReleaseFails, NextJob
<1>3. ProcessType' /\ IdsBorn'
  BY <1>2 DEF TypeOK, ProcessType, IdsBorn, WriterOnly, procVars
<1>4. EndBatch /\ dropped' \in Nat => PipelineType' /\ DatabaseType'
  <2> SUFFICES ASSUME EndBatch, dropped' \in Nat PROVE PipelineType' /\ DatabaseType'
    OBVIOUS
  <2>1. /\ writer' \in {"idle", "stopped"} /\ batch' = <<>> /\ taken' = 0 /\ stopSeen' = FALSE
        /\ UNCHANGED <<queue, owed, dbVars>>
    BY DEF EndBatch, WriterAfterBatch
  <2>2. batch' \in Seq(Job)
    BY <2>1
  <2>3. stopSeen' \in BOOLEAN
    BY <2>1
  <2> QED
    BY <1>1, <2>1, <2>2, <2>3, KeepDatabase DEF PipelineType, TypeOK
<1>5. CASE TakeBatch
  <2> DEFINE n == IF Len(queue) <= BatchMax THEN Len(queue) ELSE BatchMax
  <2>1. n \in 0..Len(queue)
    BY <1>1, StoreAssumption
  <2>2. /\ batch' = SubSeq(queue, 1, n) /\ queue' = SubSeq(queue, n + 1, Len(queue))
        /\ taken' = Writes(SubSeq(queue, 1, n)) /\ writer' = "acquiring"
        /\ stopSeen' = (\E m \in 1..n : queue[m].kind = "shutdown")
        /\ UNCHANGED <<dropped, owed, dbVars>>
    BY <1>5 DEF TakeBatch, Taken
  <2>3. SubSeq(queue, 1, n) \in Seq(Job) /\ Len(SubSeq(queue, 1, n)) = n
    BY <1>1, <2>1, SubSeqProperties
  <2>4. queue' \in Seq(Job) /\ Len(queue') <= QueueMax
    <3>1. CASE n = Len(queue)
      <4>1. queue' = <<>>
        BY <1>1, <2>2, <3>1, SubSeqProperties
      <4>2. <<>> \in Seq(Job) /\ Len(<<>>) = 0 /\ 0 <= QueueMax
        BY StoreAssumption
      <4> QED
        BY <4>1, <4>2
    <3>2. CASE n < Len(queue)
      <4>1. n + 1 \in 1..Len(queue) + 1
        BY <1>1, <2>1
      <4>2. queue' \in Seq(Job) /\ Len(queue') = Len(queue) - n
        BY <1>1, <2>1, <2>2, <3>2, <4>1, SubSeqProperties, SMTT(60)
      <4> QED
        BY <1>1, <2>1, <4>2, StoreAssumption
    <3> QED
      BY <1>1, <2>1, <3>1, <3>2
  <2>5. Writes(SubSeq(queue, 1, n)) \in Nat
    <3> DEFINE js == SubSeq(queue, 1, n)
    <3>1. DOMAIN js = 1..n /\ IsFiniteSet(1..n)
      BY <2>1, <2>3, LenProperties, FS_Interval
    <3>2. {m \in DOMAIN js : js[m].kind # "shutdown"} \subseteq 1..n
      BY <3>1
    <3> HIDE DEF n, js
    <3> QED
      BY <3>1, <3>2, FS_Subset, FS_CardinalityType DEF Writes, js
  <2>6. stopSeen' \in BOOLEAN
    BY <2>2
  <2>7. PipelineType'
    BY <1>1, <2>2, <2>3, <2>4, <2>5, <2>6 DEF PipelineType
  <2> QED
    BY <1>3, <2>2, <2>7, KeepDatabase DEF TypeOK
<1>6. CASE SkipBatch \/ AcquireFails \/ Release \/ ReleaseFails
  <2>1. EndBatch /\ dropped' \in Nat
    BY <1>1, <1>6 DEF SkipBatch, AcquireFails, Release, ReleaseFails
  <2> QED
    BY <1>3, <1>4, <2>1 DEF TypeOK
<1>7. CASE Acquire
  <2>1. writer' = "writing" /\ UNCHANGED <<queue, batch, taken, stopSeen, dropped, owed, dbVars>>
    BY <1>7 DEF Acquire
  <2>2. stopSeen' \in BOOLEAN
    BY <1>1, <2>1
  <2> QED
    BY <1>1, <1>3, <2>1, <2>2, KeepDatabase DEF TypeOK, PipelineType
<1>8. ASSUME NextJob, dropped' \in Nat, owed' \in Int, DatabaseType' PROVE TypeOK'
  <2>1. batch # <<>> /\ batch' = Tail(batch) /\ UNCHANGED <<queue, writer, taken, stopSeen>>
    BY <1>8 DEF NextJob
  <2>2. Tail(batch) \in Seq(Job)
    BY <1>1, <2>1, HeadTailProperties
  <2>3. stopSeen' \in BOOLEAN
    BY <1>1, <2>1
  <2> QED
    BY <1>1, <1>3, <1>8, <2>1, <2>2, <2>3 DEF TypeOK, PipelineType
<1>9. NextJob => Head(batch) \in Job
  BY <1>1, HeadTailProperties DEF NextJob
<1>10. CASE SkipSentinel
  <2>1. NextJob /\ UNCHANGED <<dropped, owed, dbVars>>
    BY <1>10 DEF SkipSentinel
  <2> QED
    BY <1>1, <1>8, <2>1, KeepDatabase DEF TypeOK
<1>11. CASE WriteJob
  <2>1. NextJob /\ Apply(Head(batch)) /\ owed' = owed - 1 /\ UNCHANGED dropped
    BY <1>11 DEF WriteJob
  <2>2. DatabaseType'
    BY <1>9, <2>1, ApplyType DEF TypeOK
  <2> QED
    BY <1>1, <1>8, <2>1, <2>2
<1>12. CASE DropJob
  <2>1. NextJob /\ dropped' = dropped + 1
    BY <1>12 DEF DropJob
  <2>2. owed' \in Int
    BY <1>1, <1>12 DEF DropJob
  <2>3. DatabaseType'
    <3>1. CASE UNCHANGED dbVars
      BY <3>1, KeepDatabase DEF TypeOK
    <3>2. CASE ApplyInPart(Head(batch))
      BY <1>9, <2>1, <3>2 DEF ApplyInPart, UpsertThread, Job, TypeOK, DatabaseType
    <3>3. CASE Apply(Head(batch))
      BY <1>9, <2>1, <3>3, ApplyType DEF TypeOK
    <3> QED
      BY <1>12, <3>1, <3>2, <3>3 DEF DropJob
  <2> QED
    BY <1>1, <1>8, <2>1, <2>2, <2>3
<1> QED
  BY <1>5, <1>6, <1>7, <1>10, <1>11, <1>12 DEF WriterStep, WriterAlone, WriterAnswered

\* close(), its end, and a new process.
LEMMA LifespanType ==
  ASSUME TypeOK, Close \/ SentinelAccepted \/ Drained \/ DrainTimesOut \/ Restart
  PROVE  TypeOK'
<1>1. CASE Close \/ SentinelAccepted \/ Drained \/ DrainTimesOut
  <2>1. /\ LifeOnly /\ server' \in {"up", "closing", "draining", "down"}
        /\ writer' \in {"idle", "acquiring", "writing", "stopped", "cancelled"}
    BY <1>1 DEF Close, SentinelAccepted, Drained, DrainTimesOut, TypeOK, PipelineType
  <2>2. queue' = queue \/ (Len(queue) < QueueMax /\ queue' = Append(queue, Shutdown))
    BY <1>1 DEF Close, SentinelAccepted, Drained, DrainTimesOut
  <2>3. queue' \in Seq(Job) /\ Len(queue') <= QueueMax
    BY <2>2, FixedJobTypes, AppendProperties, LenProperties, StoreAssumption, SMTT(60) DEF TypeOK, PipelineType
  <2>4. stopSeen' \in BOOLEAN
    BY <2>1 DEF LifeOnly, TypeOK, PipelineType
  <2>5. PipelineType'
    BY <2>1, <2>3, <2>4 DEF LifeOnly, TypeOK, PipelineType
  <2>6. ProcessType' /\ IdsBorn'
    BY <2>1 DEF LifeOnly, procVars, TypeOK, ProcessType, IdsBorn
  <2> QED
    BY <2>1, <2>5, <2>6, KeepDatabase DEF LifeOnly, TypeOK
<1>2. CASE Restart
  <2>1. PipelineType'
    <3>1. queue' = <<>> /\ batch' = <<>> /\ stopSeen' = FALSE
      BY <1>2 DEF Restart
    <3>2. <<>> \in Seq(Job) /\ Len(<<>>) <= QueueMax
      BY StoreAssumption
    <3>3. stopSeen' \in BOOLEAN
      BY <3>1
    <3>4. writer' = "idle" /\ taken' = 0 /\ dropped' = 0 /\ owed' = 0
      BY <1>2 DEF Restart
    <3> QED
      BY <3>1, <3>2, <3>3, <3>4 DEF PipelineType
  <2>2. ProcessType'
    BY <1>2, IdleType, ThreadTypes, StoreAssumption DEF Restart, TypeOK, ProcessType, Prompt
  <2>3. IdsBorn'
    BY <1>2, LenProperties DEF Restart, TypeOK, ProcessType, IdsBorn, IdleCall, NoThread
  <2> QED
    BY <1>2, <2>1, <2>2, <2>3, KeepDatabase DEF Restart, TypeOK
<1> QED
  BY <1>1, <1>2

\* Type correctness of every reachable state; in particular the write queue never
\* grows past its capacity and every id a caller or the cache holds was made.
THEOREM TypeCorrect == Spec => []TypeOK
<1>1. TypeOK /\ [Next]_vars => TypeOK'
  <2> SUFFICES ASSUME TypeOK, [Next]_vars PROVE TypeOK'
    OBVIOUS
  <2>1. CASE UNCHANGED vars
    <3>1. ProcessType' /\ IdsBorn'
      BY <2>1 DEF vars, procVars, TypeOK, ProcessType, IdsBorn
    <3> QED
      BY <2>1, <3>1, KeepPipeline, KeepDatabase DEF vars, TypeOK
  <2>2. ASSUME NEW r \in Callers, CallerStep(r) PROVE TypeOK'
    BY <2>2, EnterType, QueryType, InstallType, LeaveType, AppendType, FeedbackType DEF CallerStep
  <2> QED
    BY <2>1, <2>2, RegisterType, WriterType, LifespanType DEF Next
<1> QED
  BY <1>1, InitType, PTL DEF Spec

-----------------------------------------------------------------------------
(* How a step changes what is pending: it adds at the end, or takes from the front. *)

Grows(jobs) ==
  /\ Len(Pending') \in Len(Pending)..(Len(Pending) + Len(jobs))
  /\ \A n \in 1..Len(Pending) : Pending'[n] = Pending[n]
  /\ \A n \in (Len(Pending) + 1)..Len(Pending') : Pending'[n] = jobs[n - Len(Pending)]

Shrinks(k) ==
  /\ k \in Nat /\ Len(Pending') = Len(Pending) - k
  /\ \A n \in 1..Len(Pending') : Pending'[n] = Pending[n + k]

LEMMA PendingShape ==
  ASSUME NEW b \in Seq(Job), NEW q \in Seq(Job)
  PROVE  /\ b \o q \in Seq(Job)
         /\ Len(b) \in Nat /\ Len(q) \in Nat /\ Len(b \o q) = Len(b) + Len(q)
         /\ \A n \in 1..Len(b) : (b \o q)[n] = b[n]
         /\ \A n \in (Len(b) + 1)..(Len(b) + Len(q)) : (b \o q)[n] = q[n - Len(b)]
BY ConcatProperties, LenProperties

LEMMA PendingType ==
  ASSUME TypeOK
  PROVE  Pending \in Seq(Job) /\ Len(Pending) \in Nat /\ \A n \in 1..Len(Pending) : Pending[n] \in Job
<1>1. Pending \in Seq(Job)
  BY ConcatProperties DEF TypeOK, PipelineType, Pending
<1> QED
  BY <1>1, LenProperties, ElementOfSeq

LEMMA EnqueueGrows ==
  ASSUME TypeOK, NEW jobs \in Seq(Job), Enqueue(jobs), UNCHANGED batch
  PROVE  Grows(jobs)
<1> DEFINE n == IF Len(jobs) <= Room THEN Len(jobs) ELSE Room
           add == SubSeq(jobs, 1, n)
<1>1. n \in 0..Len(jobs) /\ Len(jobs) \in Nat
  BY StoreAssumption, LenProperties DEF TypeOK, PipelineType, Room
<1>2. add \in Seq(Job) /\ Len(add) = n /\ \A m \in 1..n : add[m] = jobs[m]
  <2>1. \A m \in 1..n : jobs[m] \in Job
    BY <1>1, ElementOfSeq
  <2> HIDE DEF n
  <2> QED
    BY <1>1, <2>1, SubSeqProperties
<1>3. queue' = queue \o add /\ batch' = batch
  BY DEF Enqueue
<1> HIDE DEF add, n
<1>4. batch \in Seq(Job) /\ queue \in Seq(Job) /\ queue \o add \in Seq(Job)
  BY <1>2, ConcatProperties DEF TypeOK, PipelineType
<1>5. Pending' = Pending \o add
  <2>1. (batch \o queue) \o add = batch \o (queue \o add)
    <3>1. Associate(batch, queue, add)
      BY <1>2, <1>4, JobsAssociate, Zenon
    <3> QED
      BY ONLY <3>1 DEF Associate
  <2>2. Pending' = batch' \o queue'
    BY DEF Pending
  <2>3. Pending' = batch \o (queue \o add)
    BY <1>3, <2>2
  <2> QED
    BY <2>1, <2>3 DEF Pending
<1>6. Pending \in Seq(Job) /\ Len(Pending) \in Nat
  BY PendingType
<1> QED
  BY <1>1, <1>2, <1>5, <1>6, ConcatProperties, SMTT(60) DEF Grows

LEMMA SameShrinks ==
  ASSUME TypeOK, UNCHANGED Pending
  PROVE  Shrinks(0)
BY PendingType DEF Shrinks

\* The writer only takes from the front; the head of its batch is the head of what is pending.
LEMMA NextJobShrinks ==
  ASSUME TypeOK, NextJob
  PROVE  Shrinks(1) /\ Head(batch) = Pending[1] /\ Len(Pending) > 0
<1>1. batch \in Seq(Job) /\ queue \in Seq(Job) /\ batch # <<>> /\ batch' = Tail(batch) /\ queue' = queue
  BY DEF NextJob, TypeOK, PipelineType
<1>2. /\ Tail(batch) \in Seq(Job) /\ Len(Tail(batch)) = Len(batch) - 1
      /\ \A n \in 1..Len(Tail(batch)) : Tail(batch)[n] = batch[n + 1]
      /\ Head(batch) = batch[1]
  BY <1>1, HeadTailProperties
<1>3. Len(batch) \in Nat \ {0}
  BY <1>1, EmptySeq, LenProperties
<1>4. /\ Len(Pending) = Len(batch) + Len(queue) /\ Len(queue) \in Nat
      /\ \A n \in 1..Len(batch) : Pending[n] = batch[n]
      /\ \A n \in (Len(batch) + 1)..(Len(batch) + Len(queue)) : Pending[n] = queue[n - Len(batch)]
  BY <1>1, PendingShape DEF Pending
<1>5. /\ Len(Pending') = Len(batch) - 1 + Len(queue)
      /\ \A n \in 1..(Len(batch) - 1) : Pending'[n] = batch[n + 1]
      /\ \A n \in Len(batch)..(Len(batch) - 1 + Len(queue)) : Pending'[n] = queue[n - (Len(batch) - 1)]
  <2>1. Pending' = Tail(batch) \o queue
    BY <1>1 DEF Pending
  <2> QED
    BY <1>1, <1>2, <1>3, <2>1, PendingShape
<1>6. Len(Pending') = Len(Pending) - 1 /\ \A n \in 1..Len(Pending') : Pending'[n] = Pending[n + 1]
  <2> SUFFICES ASSUME NEW n \in 1..(Len(batch) - 1 + Len(queue)) PROVE Pending'[n] = Pending[n + 1]
    BY <1>3, <1>4, <1>5
  <2>1. CASE n <= Len(batch) - 1
    BY <2>1, <1>3, <1>4, <1>5
  <2>2. CASE n >= Len(batch)
    <3>1. Pending'[n] = queue[n - (Len(batch) - 1)] /\ Pending[n + 1] = queue[(n + 1) - Len(batch)]
      BY <2>2, <1>3, <1>4, <1>5
    <3>2. n - (Len(batch) - 1) = (n + 1) - Len(batch)
      BY <1>3
    <3> QED
      BY <3>1, <3>2
  <2> QED
    BY <2>1, <2>2, <1>3
<1> QED
  BY <1>2, <1>3, <1>4, <1>6 DEF Shrinks

\* Dropping a whole batch, or making a batch of the front of the queue.
LEMMA EndBatchShrinks ==
  ASSUME TypeOK, EndBatch
  PROVE  Shrinks(Len(batch))
<1>1. batch \in Seq(Job) /\ queue \in Seq(Job) /\ batch' = <<>> /\ queue' = queue
  BY DEF EndBatch, TypeOK, PipelineType
<1>2. Pending' = queue
  BY <1>1, ConcatEmptySeq DEF Pending
<1>3. /\ Len(batch) \in Nat /\ Len(queue) \in Nat /\ Len(Pending) = Len(batch) + Len(queue)
      /\ \A n \in (Len(batch) + 1)..(Len(batch) + Len(queue)) : Pending[n] = queue[n - Len(batch)]
  BY <1>1, PendingShape DEF Pending
<1>4. \A n \in 1..Len(queue) : queue[n] = Pending[n + Len(batch)]
  <2> TAKE n \in 1..Len(queue)
  <2>1. n + Len(batch) \in (Len(batch) + 1)..(Len(batch) + Len(queue)) /\ (n + Len(batch)) - Len(batch) = n
    BY <1>3
  <2> QED
    BY <1>3, <2>1
<1> QED
  BY <1>2, <1>3, <1>4 DEF Shrinks

LEMMA TakeBatchShrinks ==
  ASSUME TypeOK, TakeBatch
  PROVE  Shrinks(Len(batch))
<1> DEFINE n == IF Len(queue) <= BatchMax THEN Len(queue) ELSE BatchMax
<1>1. batch \in Seq(Job) /\ queue \in Seq(Job) /\ Len(queue) \in Nat /\ n \in 0..Len(queue)
  BY StoreAssumption, LenProperties DEF TypeOK, PipelineType
<1>2. batch' = SubSeq(queue, 1, n) /\ queue' = SubSeq(queue, n + 1, Len(queue))
  BY SMTT(60) DEF TakeBatch, Taken
<1> HIDE DEF n
<1>3. batch' \o queue' = queue
  <2>1. SubSeq(queue, 1, Len(queue)) = queue
    BY <1>1, SubSeqFull
  <2>2. 1 \in 1..Len(queue) + 1 /\ n \in (1 - 1)..Len(queue) /\ Len(queue) \in n..Len(queue)
    BY <1>1
  <2> QED
    BY <1>1, <1>2, <2>1, <2>2, ConcatAdjacentSubSeq, ZenonT(60)
<1>4. /\ Len(batch) \in Nat /\ Len(queue) \in Nat /\ Len(Pending) = Len(batch) + Len(queue)
      /\ \A m \in (Len(batch) + 1)..(Len(batch) + Len(queue)) : Pending[m] = queue[m - Len(batch)]
  BY <1>1, PendingShape DEF Pending
<1>5. \A m \in 1..Len(queue) : queue[m] = Pending[m + Len(batch)]
  <2> TAKE m \in 1..Len(queue)
  <2>1. m + Len(batch) \in (Len(batch) + 1)..(Len(batch) + Len(queue)) /\ (m + Len(batch)) - Len(batch) = m
    BY <1>4
  <2> QED
    BY <1>4, <2>1
<1> QED
  BY <1>3, <1>4, <1>5 DEF Shrinks, Pending

LEMMA CloseGrows ==
  ASSUME TypeOK, queue' = Append(queue, Shutdown), UNCHANGED batch
  PROVE  Grows(<<Shutdown>>)
<1>1. queue' = queue \o <<Shutdown>>
  BY FixedJobTypes, AppendIsConcat DEF TypeOK, PipelineType
<1>2. <<Shutdown>> \in Seq(Job) /\ Len(<<Shutdown>>) = 1 /\ <<Shutdown>>[1] = Shutdown
  BY FixedJobTypes
<1>3. Pending' = Pending \o <<Shutdown>>
  BY <1>1, <1>2, ConcatAssociative, SMTT(60) DEF Pending, TypeOK, PipelineType
<1>4. Pending \in Seq(Job) /\ Len(Pending) \in Nat
  BY PendingType
<1> QED
  BY <1>2, <1>3, <1>4, PendingShape DEF Grows

-----------------------------------------------------------------------------
(* What is pending stays sound and ordered.                                *)

LEMMA JobsKept ==
  ASSUME StoreInv, NEW k \in Nat, Shrinks(k),
         \A n \in (k + 1)..Len(Pending) : \A j \in Job : Pending[n] = j => JobSound(j)'
  PROVE  JobsSound' /\ TurnsOrdered'
<1>1. Len(Pending) \in Nat /\ \A n \in 1..Len(Pending) : Pending[n] \in Job
  BY PendingType DEF StoreInv
<1>2. ASSUME NEW n \in 1..Len(Pending')
      PROVE  n + k \in (k + 1)..Len(Pending) /\ n + k \in 1..Len(Pending) /\ Pending'[n] = Pending[n + k]
  BY <1>1 DEF Shrinks
<1>3. JobsSound'
  <2> SUFFICES ASSUME NEW n \in 1..Len(Pending') PROVE JobSound(Pending[n])'
    BY DEF JobsSound
  <2> DEFINE j == Pending[n + k]
  <2>1. j \in Job /\ Pending'[n] = j
    BY <1>1, <1>2
  <2>2. PICK c \in Job : c = j
    BY <2>1
  <2>3. JobSound(c)'
    BY <1>2, <2>2
  <2>4. Pending'[n] = c
    BY <2>1, <2>2
  <2> QED
    BY <2>3, <2>4 DEF JobSound
<1>4. TurnsOrdered'
  <2> SUFFICES ASSUME NEW m \in 1..Len(Pending'), NEW n \in 1..Len(Pending'), m < n,
                      Pending'[m].kind = "turn", Pending'[n].kind = "turn",
                      Pending'[m].thread = Pending'[n].thread
               PROVE  Pending'[m].seq < Pending'[n].seq
    BY DEF TurnsOrdered, IsTurn
  <2>1. m + k < n + k /\ m \in Nat /\ n \in Nat
    OBVIOUS
  <2> QED
    BY <1>2, <2>1 DEF StoreInv, TurnsOrdered, IsTurn
<1> QED
  BY <1>3, <1>4

LEMMA JobsAdded ==
  ASSUME StoreInv, NEW jobs \in Seq(Job), Grows(jobs),
         \A n \in 1..Len(Pending) : \A j \in Job : Pending[n] = j => JobSound(j)',
         \A m \in 1..Len(jobs) : \A j \in Job : jobs[m] = j => JobSound(j)',
         \A m \in 1..Len(jobs) : jobs[m].kind = "turn" =>
           /\ Len(jobs) = 1
           /\ \A n \in 1..Len(Pending) :
                IsTurn(n) /\ Pending[n].thread = jobs[m].thread => Pending[n].seq < jobs[m].seq
  PROVE  JobsSound' /\ TurnsOrdered'
<1>1. /\ Len(Pending) \in Nat /\ Len(jobs) \in Nat
      /\ \A n \in 1..Len(Pending) : Pending[n] \in Job
      /\ \A n \in 1..Len(jobs) : jobs[n] \in Job
  BY PendingType, LenProperties, ElementOfSeq DEF StoreInv
<1>2. ASSUME NEW n \in 1..Len(Pending')
      PROVE  \/ n \in 1..Len(Pending) /\ Pending'[n] = Pending[n]
             \/ /\ n \in (Len(Pending) + 1)..Len(Pending')
                /\ n - Len(Pending) \in 1..Len(jobs) /\ Pending'[n] = jobs[n - Len(Pending)]
  BY <1>1, SMTT(60) DEF Grows
<1>3. JobsSound'
  <2> SUFFICES ASSUME NEW n \in 1..Len(Pending') PROVE JobSound(Pending[n])'
    BY DEF JobsSound
  <2>1. Pending'[n] \in Job
    BY <1>1, <1>2
  <2>2. PICK c \in Job : c = Pending'[n]
    BY <2>1
  <2>3. JobSound(c)'
    BY <1>2, <2>2
  <2> QED
    BY <2>2, <2>3 DEF JobSound
<1>4. TurnsOrdered'
  <2> SUFFICES ASSUME NEW m \in 1..Len(Pending'), NEW n \in 1..Len(Pending'), m < n,
                      Pending'[m].kind = "turn", Pending'[n].kind = "turn",
                      Pending'[m].thread = Pending'[n].thread
               PROVE  Pending'[m].seq < Pending'[n].seq
    BY DEF TurnsOrdered, IsTurn
  <2>1. CASE n \in 1..Len(Pending)
    <3>1. m \in 1..Len(Pending) /\ Pending'[m] = Pending[m] /\ Pending'[n] = Pending[n]
      BY <1>1, <2>1 DEF Grows
    <3> QED
      BY <2>1, <3>1 DEF StoreInv, TurnsOrdered, IsTurn
  <2>2. CASE n \notin 1..Len(Pending)
    <3>1. n - Len(Pending) \in 1..Len(jobs) /\ Pending'[n] = jobs[n - Len(Pending)]
      BY <1>2, <2>2
    <3>2. Len(jobs) = 1
      BY <3>1
    <3>3. n = Len(Pending) + 1 /\ m \in 1..Len(Pending)
      BY <1>1, <3>1, <3>2
    <3>4. Pending'[m] = Pending[m]
      BY <3>3 DEF Grows
    <3> QED
      BY <3>1, <3>3, <3>4 DEF IsTurn
  <2> QED
    BY <2>1, <2>2
<1> QED
  BY <1>3, <1>4

-----------------------------------------------------------------------------
(* Steps that leave threads and rows alone.                                *)

LEMMA QuietStep ==
  ASSUME StoreInv, TypeOK', UNCHANGED <<born, mem, cache, dbStatus, dbTurns>>,
         JobsSound', TurnsOrdered',
         \A q \in Callers : call'[q] = call[q] \/ ReadCurrent(q)'
  PROVE  StoreInv'
<1>1. UnbornBlank' /\ LastIsLast' /\ ServesLatest' /\ CacheServes'
  BY DEF StoreInv, UnbornBlank, Blank, LastIsLast, Served, ServesLatest, OwnerOf, CacheServes
<1>2. ASSUME NEW q \in Callers, call'[q] = call[q] PROVE ReadCurrent(q)'
  BY <1>2 DEF StoreInv, ReadsCurrent, ReadCurrent, OwnerOf, Served, IsNewestRow
<1> QED
  BY <1>1, <1>2 DEF StoreInv, ReadsCurrent

\* Soundness of a job depends on the threads and the turn rows only.
LEMMA SoundStays ==
  ASSUME UNCHANGED <<born, mem, cache, dbTurns>>, NEW j \in Job, JobSound(j)
  PROVE  JobSound(j)'
BY DEF JobSound, OwnerOf

LEMMA QuietJobs ==
  ASSUME StoreInv, UNCHANGED <<born, mem, cache, dbTurns>>,
         \/ \E k \in Nat : Shrinks(k)
         \/ \E jobs \in Seq(Job) :
              /\ Grows(jobs)
              /\ \A m \in 1..Len(jobs) : jobs[m].kind \notin {"thread", "turn"} /\ jobs[m].thread <= Len(born)
  PROVE  JobsSound' /\ TurnsOrdered'
<1>1. \A n \in 1..Len(Pending) : \A j \in Job : Pending[n] = j => JobSound(j)'
  BY SoundStays DEF StoreInv, JobsSound
<1>2. ASSUME NEW k \in Nat, Shrinks(k) PROVE JobsSound' /\ TurnsOrdered'
  <2>1. \A n \in (k + 1)..Len(Pending) : n \in 1..Len(Pending)
    BY PendingType DEF StoreInv
  <2> QED
    BY <1>1, <1>2, <2>1, JobsKept
<1>3. ASSUME NEW jobs \in Seq(Job), Grows(jobs),
             \A m \in 1..Len(jobs) : jobs[m].kind \notin {"thread", "turn"} /\ jobs[m].thread <= Len(born)
      PROVE  JobsSound' /\ TurnsOrdered'
  <2>1. \A m \in 1..Len(jobs) : \A j \in Job : jobs[m] = j => JobSound(j)'
    BY <1>3 DEF JobSound
  <2> QED
    BY <1>1, <1>3, <2>1, JobsAdded
<1> QED
  BY <1>2, <1>3

LEMMA RegisterKeeps ==
  ASSUME StoreInv, RegisterPrompt
  PROVE  StoreInv'
<1>1. TypeOK' /\ build \in Hashes
  BY RegisterType DEF StoreInv, TypeOK, ProcessType
<1>2. /\ <<SnapshotJob(build)>> \in Seq(Job) /\ Enqueue(<<SnapshotJob(build)>>)
      /\ UNCHANGED <<born, mem, cache, call, batch, dbStatus, dbTurns>>
  BY <1>1, FixedJobTypes DEF RegisterPrompt, WriterIdles, dbVars
<1>3. JobsSound' /\ TurnsOrdered'
  <2>1. Grows(<<SnapshotJob(build)>>)
    BY <1>2, EnqueueGrows DEF StoreInv
  <2>2. \A m \in 1..Len(<<SnapshotJob(build)>>) :
          /\ <<SnapshotJob(build)>>[m].kind \notin {"thread", "turn"}
          /\ <<SnapshotJob(build)>>[m].thread <= Len(born)
    <3>1. 0 <= Len(born)
      BY LenProperties DEF StoreInv, TypeOK, ProcessType
    <3>2. SnapshotJob(build).kind = "snapshot" /\ SnapshotJob(build).thread = 0
      BY DEF SnapshotJob
    <3> QED
      BY <3>1, <3>2
  <2> QED
    BY <1>2, <2>1, <2>2, QuietJobs
<1> QED
  BY <1>1, <1>2, <1>3, QuietStep

\* A step of caller r that moves only its call, and what it knows of it then.
LEMMA CallStep ==
  ASSUME StoreInv, TypeOK', NEW r \in Callers, UNCHANGED <<born, mem, cache, pipeVars, dbVars>>,
         \A q \in Callers \ {r} : call'[q] = call[q], ReadCurrent(r)'
  PROVE  StoreInv'
<1>1. Shrinks(0) /\ UNCHANGED <<dbStatus, dbTurns>>
  <2>1. UNCHANGED Pending
    BY DEF Pending, pipeVars
  <2> QED
    BY <2>1, SameShrinks DEF StoreInv, dbVars
<1>2. JobsSound' /\ TurnsOrdered'
  BY <1>1, QuietJobs
<1> QED
  BY <1>1, <1>2, QuietStep

LEMMA HandOutCached ==
  ASSUME StoreInv, TypeOK', NEW r \in Callers, NEW s \in Sessions, cache[s] # 0,
         Resume(r, s, cache[s]), NoEnqueue, WriterIdles, UNCHANGED <<born, mem, cache, dbVars>>
  PROVE  StoreInv'
<1>1. /\ call'[r] = Holding(s, cache[s]) /\ \A q \in Callers \ {r} : call'[q] = call[q]
  BY DEF Resume, StoreInv, TypeOK, ProcessType
<1>2. call'[r].pc = "hold" /\ call'[r].thread = cache[s] /\ call'[r].session = s
  BY <1>1 DEF Holding
<1>3. ReadCurrent(r)'
  BY <1>2 DEF ReadCurrent, StoreInv, CacheServes, OwnerOf, Served
<1> QED
  BY <1>1, <1>3, CallStep DEF NoEnqueue, WriterIdles, pipeVars

LEMMA QueryKeeps ==
  ASSUME StoreInv, NEW r \in Callers, RowArrives(r) \/ TurnsArrive(r)
  PROVE  StoreInv'
<1>1. TypeOK' /\ TypeOK /\ call \in [Callers -> Call] /\ call[r] \in Call
  BY QueryType DEF StoreInv, TypeOK, ProcessType
<1>2. UNCHANGED <<born, mem, cache, pipeVars, dbVars>>
  BY ZenonT(60) DEF RowArrives, TurnsArrive
<1>3. \A q \in Callers \ {r} : call'[q] = call[q]
  BY <1>1, ZenonT(60) DEF RowArrives, TurnsArrive, FailedRead
<1>4. ReadCurrent(r)'
  <2>1. CASE FailedRead(r)
    <3>1. call'[r].thread = 0
      BY <1>1, <2>1 DEF FailedRead, Call
    <3> QED
      BY <3>1 DEF ReadCurrent
  <2>2. CASE call[r].pc = "row" /\ call' = [call EXCEPT ![r].pc = "install"]
    <3>1. call[r].thread = 0 /\ call'[r].thread = call[r].thread
      BY <1>1, <2>2 DEF StoreInv, ReadsCurrent, ReadCurrent, Call
    <3> QED
      BY <3>1 DEF ReadCurrent
  <2>3. ASSUME NEW i \in ThreadIds, IsNewestRow(call[r].session, i),
               call' = [call EXCEPT ![r].pc = "turns", ![r].thread = i,
                                    ![r].found.status = dbStatus[i]]
        PROVE  ReadCurrent(r)'
    <3>1. /\ call'[r].pc = "turns" /\ call'[r].thread = i /\ call'[r].session = call[r].session
          /\ call'[r].found.status = dbStatus[i]
      BY <1>1, <2>3 DEF Call
    <3>2. OwnerOf(i) = call[r].session /\ dbStatus[i] # "absent"
      BY <2>3 DEF IsNewestRow
    <3> QED
      BY <1>2, <2>3, <3>1, <3>2 DEF ReadCurrent, OwnerOf, IsNewestRow, dbVars
  <2>4. ASSUME NEW n \in 0..MaxOps, call[r].pc = "turns", IsLast(n, dbTurns[call[r].thread]),
               call' = [call EXCEPT ![r].pc = "install", ![r].found.last = n,
                                    ![r].found.turns = dbTurns[call[r].thread]]
        PROVE  ReadCurrent(r)'
    <3>1. /\ call'[r].pc = "install" /\ call'[r].thread = call[r].thread
          /\ call'[r].session = call[r].session
          /\ call'[r].found.status = call[r].found.status
          /\ call'[r].found.last = n /\ call'[r].found.turns = dbTurns[call[r].thread]
      BY <1>1, <2>4 DEF Call
    <3>2. ReadCurrent(r)
      BY DEF StoreInv, ReadsCurrent
    <3>3. UNCHANGED <<born, mem, cache, dbStatus, dbTurns>>
      BY <1>2 DEF dbVars
    <3>4. call[r].thread # 0 =>
            /\ OwnerOf(call[r].thread) = call[r].session /\ call[r].found.status # "absent"
            /\ cache[call[r].session] = 0 => IsNewestRow(call[r].session, call[r].thread)
      BY <2>4, <3>2 DEF ReadCurrent
    <3>5. PICK i, s : i = call[r].thread /\ s = call[r].session
      OBVIOUS
    <3>6. i # 0 => /\ OwnerOf(i)' = s /\ call'[r].found.status # "absent"
                   /\ cache'[s] = 0 => IsNewestRow(s, i)'
      BY <3>1, <3>3, <3>4, <3>5 DEF OwnerOf, IsNewestRow
    <3>7. call'[r].found.turns = dbTurns'[i] /\ IsLast(call'[r].found.last, dbTurns[i])
      BY <2>4, <3>1, <3>3, <3>5
    <3>8. IsLast(call'[r].found.last, dbTurns'[i])
      BY <3>3, <3>7 DEF IsLast
    <3>9. call'[r].pc = "install" /\ call'[r].thread = i /\ call'[r].session = s
      BY <3>1, <3>5
    <3> QED
      BY <3>6, <3>7, <3>8, <3>9 DEF ReadCurrent, IsLast
  <2> QED
    BY <2>1, <2>2, <2>3, <2>4, ZenonT(60) DEF RowArrives, TurnsArrive
<1> QED
  BY <1>1, <1>2, <1>3, <1>4, CallStep

LEMMA LeaveKeeps ==
  ASSUME StoreInv, NEW r \in Callers, Leave(r)
  PROVE  StoreInv'
<1>1. TypeOK' /\ UNCHANGED <<born, mem, cache, pipeVars, dbVars>>
  BY LeaveType DEF StoreInv, Leave
<1>2. call'[r] = IdleCall /\ \A q \in Callers \ {r} : call'[q] = call[q]
  BY DEF Leave, StoreInv, TypeOK, ProcessType
<1>3. ReadCurrent(r)'
  BY <1>2 DEF ReadCurrent, IdleCall
<1> QED
  BY <1>1, <1>2, <1>3, CallStep

-----------------------------------------------------------------------------
(* Steps of the writer.                                                    *)

\* Rows change behind a warm cache only, and turn rows only to what memory holds.
LEMMA RowsStep ==
  ASSUME StoreInv, TypeOK', UNCHANGED <<born, mem, cache, call>>, JobsSound', TurnsOrdered',
         \A i \in ThreadIds :
           \/ dbStatus'[i] = dbStatus[i] /\ dbTurns'[i] = dbTurns[i]
           \/ /\ i \in 1..Len(born) /\ cache[OwnerOf(i)] # 0 /\ i <= cache[OwnerOf(i)]
              /\ dbTurns'[i] \subseteq dbTurns[i] \cup mem[i].turns
  PROVE  StoreInv'
<1>1. /\ Len(born) \in Nat /\ \A i \in 1..Len(born) : i \in ThreadIds
      /\ \A s \in Sessions : cache[s] \in 0..MaxThreads
  BY LenProperties, StoreAssumption DEF StoreInv, TypeOK, ProcessType, ThreadIds
<1>2. UnbornBlank'
  BY <1>1 DEF StoreInv, UnbornBlank, Blank, ThreadIds
<1>3. CacheServes' /\ LastIsLast'
  BY DEF StoreInv, CacheServes, LastIsLast, Served, OwnerOf
<1>4. ServesLatest'
  <2> SUFFICES ASSUME NEW s \in Sessions, cache[s] # 0, NEW i \in (cache[s] + 1)..Len(born),
                      OwnerOf(i) = s
               PROVE  dbStatus'[i] = "absent"
    BY DEF ServesLatest, OwnerOf
  <2>1. i \in 1..Len(born) /\ ~(i <= cache[s])
    BY <1>1
  <2>2. dbStatus'[i] = dbStatus[i]
    BY <1>1, <2>1
  <2> QED
    BY <2>2 DEF StoreInv, ServesLatest
<1>5. ASSUME NEW q \in Callers PROVE ReadCurrent(q)'
  <2> DEFINE i == call[q].thread
             s == call[q].session
  <2> SUFFICES ASSUME i # 0 PROVE ReadCurrent(q)'
    BY DEF ReadCurrent
  <2>1. ReadCurrent(q) /\ s \in Sessions
    BY DEF StoreInv, ReadsCurrent, TypeOK, ProcessType, Call
  <2>2. ASSUME cache[s] = 0, IsNewestRow(s, i)
        PROVE  IsNewestRow(s, i)' /\ dbTurns'[i] = dbTurns[i]
    <3>1. ASSUME NEW j \in 1..Len(born), OwnerOf(j) = s
          PROVE  dbStatus'[j] = dbStatus[j] /\ dbTurns'[j] = dbTurns[j]
      BY <1>1, <2>2, <3>1
    <3>2. i \in 1..Len(born) /\ OwnerOf(i) = s
      BY <2>2 DEF IsNewestRow
    <3>3. IsNewestRow(s, i)'
      <4>1. \A j \in (i + 1)..Len(born) : j \in 1..Len(born)
        BY <1>1, <3>2
      <4> HIDE DEF i, s
      <4> QED
        BY <2>2, <3>1, <3>2, <4>1 DEF IsNewestRow, OwnerOf, i, s
    <3> QED
      BY <3>1, <3>2, <3>3
  <2> QED
    BY <2>1, <2>2 DEF ReadCurrent, OwnerOf, Served, IsLast
<1> QED
  BY <1>2, <1>3, <1>4, <1>5 DEF StoreInv, ReadsCurrent

\* The rows that a thread upsert for a sound job touches.
LEMMA UpsertRows ==
  ASSUME StoreInv, NEW j \in Job, j.kind \in {"thread", "turn"}, JobSound(j), UpsertThread(j),
         NEW i \in ThreadIds
  PROVE  \/ dbStatus'[i] = dbStatus[i] /\ i # j.thread
         \/ i = j.thread /\ i \in 1..Len(born) /\ cache[OwnerOf(i)] # 0 /\ i <= cache[OwnerOf(i)]
<1>1. j.thread \in 1..Len(born) 
  BY LenProperties, StoreAssumption DEF Job, JobSound, StoreInv, TypeOK, ProcessType
<1> QED
  BY <1>1 DEF UpsertThread, JobSound, StoreInv, TypeOK, DatabaseType

LEMMA WriterKeeps ==
  ASSUME StoreInv, WriterStep
  PROVE  StoreInv'
<1>1. TypeOK /\ TypeOK' /\ Len(batch) \in Nat /\ Len(Pending) \in Nat
  BY WriterType, PendingType, LenProperties DEF StoreInv, TypeOK, PipelineType
<1>2. UNCHANGED <<born, mem, cache, call>>
  BY DEF WriterStep, WriterAlone, WriterAnswered, TakeBatch, SkipBatch, EndBatch, Acquire, AcquireFails, SkipSentinel, WriteJob,
         DropJob, Release, ReleaseFails, NextJob, WriterOnly, procVars
<1>3. ASSUME UNCHANGED dbVars, \E k \in Nat : Shrinks(k) PROVE StoreInv'
  BY <1>1, <1>2, <1>3, QuietJobs, QuietStep DEF dbVars
<1>4. CASE TakeBatch
  BY <1>1, <1>3, <1>4, TakeBatchShrinks DEF TakeBatch
<1>5. CASE SkipBatch \/ AcquireFails \/ Release \/ ReleaseFails
  BY <1>1, <1>3, <1>5, EndBatchShrinks DEF SkipBatch, AcquireFails, Release, ReleaseFails, EndBatch
<1>6. CASE Acquire
  <2>1. UNCHANGED Pending /\ UNCHANGED dbVars
    BY <1>6 DEF Acquire, Pending
  <2> QED
    BY <1>1, <1>3, <2>1, SameShrinks
<1>7. CASE SkipSentinel
  BY <1>1, <1>3, <1>7, NextJobShrinks DEF SkipSentinel
<1> DEFINE j == Head(batch)
<1>8. ASSUME NextJob PROVE j \in Job /\ JobSound(j) /\ j = Pending[1] /\ Len(Pending) > 0 /\ Shrinks(1)
  BY <1>1, <1>8, NextJobShrinks, PendingType DEF StoreInv, JobsSound
<1>9. ASSUME NextJob, j.kind \in {"thread", "turn"}, UpsertThread(j), UNCHANGED dbTurns PROVE StoreInv'
  <2>1. JobsSound' /\ TurnsOrdered'
    BY <1>2, <1>8, <1>9, QuietJobs
  <2> HIDE DEF j
  <2>2. \A i \in ThreadIds :
          \/ dbStatus'[i] = dbStatus[i] /\ dbTurns'[i] = dbTurns[i]
          \/ /\ i \in 1..Len(born) /\ cache[OwnerOf(i)] # 0 /\ i <= cache[OwnerOf(i)]
             /\ dbTurns'[i] \subseteq dbTurns[i] \cup mem[i].turns
    BY <1>8, <1>9, UpsertRows
  <2> QED
    BY <1>1, <1>2, <2>1, <2>2, RowsStep
<1>10. ASSUME NextJob, UNCHANGED <<dbStatus, dbTurns>> PROVE StoreInv'
  BY <1>1, <1>2, <1>8, <1>10, QuietJobs, QuietStep
<1>11. ASSUME NextJob, j.kind = "turn", UpsertThread(j), InsertTurn(j) PROVE StoreInv'
  <2> DEFINE row == [seq |-> j.seq, at |-> j.at]
  <2>1. /\ j \in Job /\ JobSound(j) /\ j = Pending[1] /\ Shrinks(1) /\ 1 \in 1..Len(Pending)
        /\ row \in mem[j.thread].turns
    BY <1>1, <1>8, <1>11 DEF JobSound
  <2> HIDE DEF j
  <2>2. ASSUME NEW i \in ThreadIds
        PROVE  dbTurns'[i] = dbTurns[i] \/ (i = j.thread /\ dbTurns'[i] = dbTurns[i] \cup {row})
    BY <1>1, <1>11 DEF InsertTurn, TypeOK, DatabaseType
  <2>3. ASSUME NEW n \in (1 + 1)..Len(Pending), NEW c \in Job, Pending[n] = c
        PROVE  JobSound(c)'
    <3>1. JobSound(c) /\ n \in 1..Len(Pending) /\ 1 < n
      BY <1>1, <2>3 DEF StoreInv, JobsSound
    <3>2. c.kind = "turn" /\ c.thread = j.thread => j.seq < c.seq
      BY <1>11, <2>1, <2>3, <3>1 DEF StoreInv, TurnsOrdered, IsTurn
    <3>3. c.kind = "turn" => c.thread \in ThreadIds
      BY <1>1, <3>1, StoreAssumption, SMTT(60) DEF JobSound, Job, TypeOK, ProcessType, ThreadIds
    <3>4. c.kind = "turn" => \A t \in dbTurns'[c.thread] : t.seq < c.seq
      BY <2>2, <3>1, <3>2, <3>3 DEF JobSound
    <3> QED
      BY <1>2, <3>1, <3>4 DEF JobSound, OwnerOf
  <2>4. JobsSound' /\ TurnsOrdered'
    BY <2>1, <2>3, JobsKept
  <2>5. \A i \in ThreadIds :
          \/ dbStatus'[i] = dbStatus[i] /\ dbTurns'[i] = dbTurns[i]
          \/ /\ i \in 1..Len(born) /\ cache[OwnerOf(i)] # 0 /\ i <= cache[OwnerOf(i)]
             /\ dbTurns'[i] \subseteq dbTurns[i] \cup mem[i].turns
    <3> TAKE i \in ThreadIds
    <3>1. \/ dbStatus'[i] = dbStatus[i] /\ i # j.thread
          \/ i = j.thread /\ i \in 1..Len(born) /\ cache[OwnerOf(i)] # 0 /\ i <= cache[OwnerOf(i)]
      BY <1>11, <2>1, UpsertRows
    <3> HIDE DEF row
    <3> QED
      BY <2>1, <2>2, <3>1
  <2> QED
    BY <1>1, <1>2, <2>4, <2>5, RowsStep
<1>12. ASSUME NextJob, Apply(j) PROVE StoreInv'
  <2> HIDE DEF j
  <2> QED
    BY <1>9, <1>10, <1>11, <1>12 DEF Apply
<1>13. CASE WriteJob
  BY <1>12, <1>13 DEF WriteJob
<1>14. CASE DropJob
  <2>1. /\ NextJob
        /\ UNCHANGED dbVars \/ ApplyInPart(j) \/ Apply(j)
    BY <1>14 DEF DropJob
  <2> HIDE DEF j
  <2>2. CASE UNCHANGED dbVars
    BY <1>10, <2>1, <2>2 DEF dbVars
  <2>3. CASE ApplyInPart(j)
    BY <1>9, <1>10, <2>1, <2>3 DEF ApplyInPart
  <2> QED
    BY <1>12, <2>1, <2>2, <2>3
<1> QED
  BY <1>4, <1>5, <1>6, <1>7, <1>13, <1>14 DEF WriterStep, WriterAlone, WriterAnswered

-----------------------------------------------------------------------------
(* Shutdown, restart, and the operations on a held thread.                 *)

LEMMA CloseKeeps ==
  ASSUME StoreInv, Close \/ SentinelAccepted \/ Drained \/ DrainTimesOut
  PROVE  StoreInv'
<1>1. TypeOK' /\ TypeOK
  BY LifespanType DEF StoreInv
<1>2. UNCHANGED <<born, mem, cache, call, batch, dbStatus, dbTurns>>
  BY DEF Close, SentinelAccepted, Drained, DrainTimesOut, LifeOnly, procVars, dbVars
<1>3. queue' = queue \/ queue' = Append(queue, Shutdown)
  BY DEF Close, SentinelAccepted, Drained, DrainTimesOut
<1>4. JobsSound' /\ TurnsOrdered'
  <2>1. CASE queue' = queue
    BY <1>1, <1>2, <2>1, SameShrinks, QuietJobs DEF Pending
  <2>2. CASE queue' = Append(queue, Shutdown)
    <3>1. Grows(<<Shutdown>>) /\ <<Shutdown>> \in Seq(Job)
      BY <1>1, <1>2, <2>2, CloseGrows, FixedJobTypes
    <3>2. \A m \in 1..Len(<<Shutdown>>) :
            <<Shutdown>>[m].kind \notin {"thread", "turn"} /\ <<Shutdown>>[m].thread <= Len(born)
      <4>1. 0 <= Len(born)
        BY <1>1, LenProperties DEF TypeOK, ProcessType
      <4>2. Shutdown.kind = "shutdown" /\ Shutdown.thread = 0
        BY DEF Shutdown
      <4> QED
        BY <4>1, <4>2
    <3> QED
      BY <1>2, <3>1, <3>2, QuietJobs
  <2> QED
    BY <1>3, <2>1, <2>2
<1> QED
  BY <1>1, <1>2, <1>4, QuietStep

LEMMA RestartKeeps ==
  ASSUME StoreInv, Restart
  PROVE  StoreInv'
<1>1. TypeOK' /\ TypeOK
  BY LifespanType DEF StoreInv
<1>2. /\ mem' = [i \in ThreadIds |-> NoThread] /\ cache' = [s \in Sessions |-> 0]
      /\ call' = [r \in Callers |-> IdleCall] /\ queue' = <<>> /\ batch' = <<>>
      /\ UNCHANGED <<born, dbStatus, dbTurns>>
  BY DEF Restart, dbVars
<1>3. Len(Pending') = 0
  BY <1>2 DEF Pending
<1>4. JobsSound' /\ TurnsOrdered'
  BY <1>3 DEF JobsSound, TurnsOrdered
<1>5. \A i \in ThreadIds : mem'[i].status = "absent" /\ mem'[i].turns = {}
  BY <1>2 DEF NoThread
<1>6. UnbornBlank' /\ LastIsLast'
  BY <1>2, <1>5 DEF StoreInv, UnbornBlank, Blank, LastIsLast, Served
<1>7. CacheServes' /\ ServesLatest'
  <2>1. \A i \in 1..Len(born) : i \in ThreadIds
    BY <1>1, LenProperties, StoreAssumption DEF TypeOK, ProcessType, ThreadIds
  <2> QED
    BY <1>2, <1>5, <2>1 DEF CacheServes, ServesLatest, Served
<1>8. ReadsCurrent'
  BY <1>2 DEF ReadsCurrent, ReadCurrent, IdleCall
<1> QED
  BY <1>1, <1>4, <1>6, <1>7, <1>8 DEF StoreInv

LEMMA HeldThread ==
  ASSUME StoreInv, NEW r \in Callers, call[r].pc = "hold"
  PROVE  /\ call[r].thread \in 1..Len(born) /\ call[r].thread \in ThreadIds
         /\ call[r].thread \in 0..MaxThreads /\ Served(call[r].thread)
         /\ mem[call[r].thread].last \in Nat
<1>1. /\ call[r].thread \in 0..MaxThreads /\ call[r].thread # 0 /\ call[r].thread <= Len(born)
      /\ Len(born) \in Nat /\ mem \in [ThreadIds -> Thread]
  BY LenProperties DEF StoreInv, TypeOK, ProcessType, IdsBorn, Call
<1>2. Served(call[r].thread)
  BY <1>1 DEF StoreInv, ReadsCurrent, ReadCurrent
<1> QED
  BY <1>1, <1>2, StoreAssumption DEF ThreadIds

LEMMA FeedbackKeeps ==
  ASSUME StoreInv, NEW r \in Callers, RecordFeedback(r)
  PROVE  StoreInv'
<1> DEFINE i == call[r].thread
<1>1. /\ TypeOK' /\ TypeOK /\ i \in 1..Len(born) /\ i \in 0..MaxThreads /\ mem[i].last \in Nat
      /\ clock + 1 \in Nat
  BY FeedbackType, HeldThread DEF StoreInv, TypeOK, ProcessType, RecordFeedback
<1>2. PICK anchor \in Anchors \cup ({mem[i].last} \ {0}) :
        Enqueue(<<FeedbackJob(i, anchor, clock + 1)>>)
  BY DEF RecordFeedback
<1>3. /\ call' = [call EXCEPT ![r] = IdleCall]
      /\ UNCHANGED <<born, mem, cache, batch, dbStatus, dbTurns>>
  BY DEF RecordFeedback, WriterIdles, dbVars
<1> DEFINE job == FeedbackJob(i, anchor, clock + 1)
<1>4. job \in Job /\ job.kind = "feedback" /\ job.thread <= Len(born)
  <2>1. anchor \in Nat
    <3>1. Anchors \subseteq Nat
      BY StoreAssumption
    <3> HIDE DEF i
    <3> QED
      BY <1>1, <1>2, <3>1
  <2>2. job \in Job
    BY <1>1, <2>1, JobTypes, "absent" \in Statuses, StoreAssumption DEF Prompt
  <2> QED
    BY <1>1, <2>2 DEF FeedbackJob
<1>5. JobsSound' /\ TurnsOrdered'
  <2>1. PICK c \in Job : c = job
    BY <1>4
  <2>2. /\ Enqueue(<<c>>) /\ <<c>> \in Seq(Job)
        /\ c.kind = "feedback" /\ c.thread <= Len(born)
    BY <1>2, <1>4, <2>1
  <2>3. <<c>> \in Seq(Job) /\ Grows(<<c>>)
    BY <1>1, <1>3, <2>2, EnqueueGrows
  <2>4. \A m \in 1..Len(<<c>>) :
          <<c>>[m].kind \notin {"thread", "turn"} /\ <<c>>[m].thread <= Len(born)
    BY <2>2
  <2> QED
    BY <1>3, <2>3, <2>4, QuietJobs
<1>6. \A q \in Callers : call'[q] = call[q] \/ ReadCurrent(q)'
  BY <1>1, <1>3 DEF ReadCurrent, IdleCall, TypeOK, ProcessType
<1> QED
  BY <1>1, <1>3, <1>5, <1>6, QuietStep

LEMMA AppendKeeps ==
  ASSUME StoreInv, NEW r \in Callers, AppendTurn(r)
  PROVE  StoreInv'
<1> DEFINE i    == call[r].thread
           turn == [seq |-> NextSeq(i), at |-> clock + 1]
           job  == TurnJob(i, mem[i].status, born[i].prompt, turn)
<1>1. /\ TypeOK' /\ TypeOK /\ i \in 1..Len(born) /\ i \in ThreadIds /\ i \in 0..MaxThreads
      /\ mem \in [ThreadIds -> Thread] /\ mem[i].last \in Nat /\ clock \in Nat
      /\ Served(i)
  BY AppendType, HeldThread, ZenonT(60) DEF StoreInv, TypeOK, ProcessType, AppendTurn
<1>2. /\ mem' = [mem EXCEPT ![i].turns = @ \cup {turn}, ![i].last = turn.seq]
      /\ Enqueue(<<job>>)
      /\ UNCHANGED <<born, cache, call, batch, dbStatus, dbTurns>>
  BY DEF AppendTurn, WriterIdles, dbVars
<1>3. turn.seq = mem[i].last + 1 /\ turn \in Stamped /\ turn = [seq |-> turn.seq, at |-> turn.at]
  BY <1>1 DEF NextSeq
<1>4. /\ job \in Job /\ job.kind = "turn" /\ job.thread = i /\ job.seq = turn.seq /\ job.at = turn.at
  <2>1. born[i] \in [session : Sessions, prompt : Prompt]
    <3> HIDE DEF i
    <3> QED
      BY <1>1, ElementOfSeq DEF TypeOK, ProcessType
  <2>2. job \in Job
    BY <1>1, <1>3, <2>1, JobTypes
  <2> QED
    BY <2>2 DEF TurnJob
<1> HIDE DEF job, turn
<1>5. \A k \in ThreadIds :
        /\ mem'[k].status = mem[k].status
        /\ k # i => mem'[k] = mem[k]
        /\ k = i => mem'[k].turns = mem[i].turns \cup {turn} /\ mem'[k].last = turn.seq
  <2> HIDE DEF i
  <2> QED
    BY <1>1, <1>2
<1>6. LastIsLast'
  <2>1. \A t \in mem[i].turns : t.seq <= mem[i].last /\ t.seq \in Nat
    BY <1>1 DEF StoreInv, LastIsLast
  <2> HIDE DEF i
  <2>2. \A t \in mem[i].turns \cup {turn} : t.seq <= turn.seq
    BY <1>1, <1>3, <2>1
  <2> QED
    BY <1>1, <1>2, <1>5, <2>2 DEF StoreInv, LastIsLast, Served
<1>7. ASSUME NEW c \in Job, JobSound(c) PROVE JobSound(c)'
  <2>1. c.kind = "turn" => c.thread \in ThreadIds
    BY <1>1, <1>7, LenProperties, StoreAssumption DEF JobSound, Job, TypeOK, ProcessType, ThreadIds
  <2> HIDE DEF i
  <2> QED
    BY <1>2, <1>5, <1>7, <2>1, ZenonT(60) DEF JobSound, OwnerOf
<1>8. PICK c \in Job : c = job
  BY <1>4
<1>9. JobSound(c)'
  <2>1. cache[OwnerOf(i)] # 0 /\ i <= cache[OwnerOf(i)]
    BY <1>1 DEF StoreInv, CacheServes
  <2>2. \A t \in dbTurns[i] : t.seq < turn.seq
    <3>1. \A t \in dbTurns[i] : t \in mem[i].turns /\ t.seq <= mem[i].last /\ t.seq \in Nat
      BY <1>1 DEF StoreInv, LastIsLast
    <3> HIDE DEF i
    <3> QED
      BY <1>1, <1>3, <3>1
  <2>3. i # 0 /\ i <= Len(born)
    BY <1>1
  <2>4. [seq |-> c.seq, at |-> c.at] \in mem'[i].turns
    BY <1>1, <1>3, <1>4, <1>5, <1>8
  <2>5. c.thread = i /\ c.seq = turn.seq
    BY <1>4, <1>8
  <2> HIDE DEF i
  <2> QED
    BY <1>2, <2>1, <2>2, <2>3, <2>4, <2>5 DEF JobSound, OwnerOf
<1>10. JobsSound' /\ TurnsOrdered'
  <2>1. <<c>> \in Seq(Job) /\ Grows(<<c>>)
    <3>1. Enqueue(<<c>>) /\ <<c>> \in Seq(Job)
      BY <1>2, <1>8
    <3> QED
      BY <1>1, <1>2, <3>1, EnqueueGrows
  <2>2. \A n \in 1..Len(Pending) : \A d \in Job : Pending[n] = d => JobSound(d)'
    BY <1>7 DEF StoreInv, JobsSound
  <2>3. ASSUME NEW n \in 1..Len(Pending), IsTurn(n), Pending[n].thread = i
        PROVE  Pending[n].seq < turn.seq
    <3>1. /\ Pending[n] \in Job /\ [seq |-> Pending[n].seq, at |-> Pending[n].at] \in mem[i].turns
      BY <1>1, <2>3, PendingType DEF StoreInv, JobsSound, JobSound, IsTurn
    <3>2. Pending[n].seq <= mem[i].last /\ Pending[n].seq \in Nat
      BY <1>1, <3>1 DEF StoreInv, LastIsLast, Job
    <3>3. Pending[n].seq \in Nat /\ mem[i].last \in Nat /\ turn.seq = mem[i].last + 1
      BY <1>1, <1>3, <3>2
    <3> QED
      BY ONLY <3>2, <3>3
  <2>4. c.kind = "turn" /\ c.thread = i /\ c.seq = turn.seq
    BY <1>4, <1>8
  <2> HIDE DEF i
  <2>5. \A m \in 1..Len(<<c>>) : m = 1 /\ <<c>>[m] = c /\ Len(<<c>>) = 1
    OBVIOUS
  <2>6. \A m \in 1..Len(<<c>>) : \A d \in Job : <<c>>[m] = d => JobSound(d)'
    BY <1>9, <2>5
  <2>7. \A m \in 1..Len(<<c>>) : <<c>>[m].kind = "turn" =>
          /\ Len(<<c>>) = 1
          /\ \A n \in 1..Len(Pending) :
               IsTurn(n) /\ Pending[n].thread = <<c>>[m].thread => Pending[n].seq < <<c>>[m].seq
    BY <2>3, <2>4, <2>5
  <2> QED
    BY <2>1, <2>2, <2>6, <2>7, JobsAdded
<1>11. UnbornBlank' /\ CacheServes' /\ ServesLatest'
  <2>1. \A k \in 1..Len(born) : k \in ThreadIds
    BY <1>1, LenProperties, StoreAssumption DEF TypeOK, ProcessType, ThreadIds
  <2>2. \A s \in Sessions : cache[s] # 0 => cache[s] \in ThreadIds
    BY <1>1, StoreAssumption DEF TypeOK, ProcessType, ThreadIds
  <2>3. \A k \in ThreadIds : Served(k)' <=> Served(k)
    BY <1>5 DEF Served
  <2> HIDE DEF i
  <2>4. UnbornBlank'
    BY <1>2, <1>5 DEF StoreInv, UnbornBlank, Blank
  <2>5. CacheServes'
    <3>1. \A k \in 1..Len(born) : Served(k)' => cache[OwnerOf(k)] # 0 /\ k <= cache[OwnerOf(k)]
      BY <2>1, <2>3 DEF StoreInv, CacheServes
    <3>2. \A s \in Sessions : cache[s] # 0 => OwnerOf(cache[s]) = s /\ mem'[cache[s]].status # "absent"
      BY <1>5, <2>2, SMTT(60) DEF StoreInv, CacheServes, Served
    <3> QED
      BY <1>2, <3>1, <3>2 DEF CacheServes, OwnerOf, Served
  <2> QED
    BY <1>2, <2>4, <2>5 DEF StoreInv, ServesLatest, OwnerOf
<1>12. ReadsCurrent'
  <2> SUFFICES ASSUME NEW q \in Callers, call[q].thread # 0 PROVE ReadCurrent(q)'
    BY <1>2 DEF ReadsCurrent, ReadCurrent
  <2>1. call[q].thread \in ThreadIds
    <3>1. call[q] \in Call
      BY <1>1 DEF TypeOK, ProcessType
    <3>2. call[q].thread \in 0..MaxThreads
      BY <3>1 DEF Call
    <3> QED
      BY <3>2, StoreAssumption DEF ThreadIds
  <2>2. ReadCurrent(q) /\ mem'[call[q].thread].status = mem[call[q].thread].status
    BY <1>5, <2>1 DEF StoreInv, ReadsCurrent
  <2> HIDE DEF i
  <2> QED
    BY <1>2, <2>2, SMTT(60) DEF ReadCurrent, OwnerOf, Served, IsNewestRow, IsLast
<1> QED
  BY <1>1, <1>6, <1>10, <1>11, <1>12, SMTT(60) DEF StoreInv

-----------------------------------------------------------------------------
(* Making a thread, and installing a rehydrated one.                       *)

\* The jobs a reset queues ahead of the new thread's row are rows of the old thread.
ClosingJobs(s, jobs) ==
  \A m \in 1..Len(jobs) :
    jobs[m].kind = "thread" /\ jobs[m].thread \in 1..Len(born) /\ OwnerOf(jobs[m].thread) = s

LEMMA CreateKeeps ==
  ASSUME StoreInv, TypeOK', NEW r \in Callers, NEW s \in Sessions, NEW jobs \in Seq(Job),
         Create(s, jobs), ClosingJobs(s, jobs), Resume(r, s, Len(born) + 1), WriterIdles,
         UNCHANGED dbVars, mem'[Len(born) + 1] = NewThread,
         \A k \in ThreadIds : k # Len(born) + 1 =>
           /\ mem'[k].turns = mem[k].turns /\ mem'[k].last = mem[k].last
           /\ mem'[k].status = "absent" <=> mem[k].status = "absent"
  PROVE  StoreInv'
<1> DEFINE new == Len(born) + 1
<1>1. /\ TypeOK /\ Len(born) \in Nat /\ new \in ThreadIds /\ new \in 0..MaxThreads /\ new # 0
      /\ cache' = [cache EXCEPT ![s] = new] /\ Len(born') = new
      /\ \A k \in ThreadIds : k \in Nat
      /\ \A k \in 1..Len(born) : k \in ThreadIds /\ k # new
      /\ \A x \in Sessions : cache[x] \in 0..MaxThreads /\ cache[x] <= Len(born)
  <2>1. cache' = [cache EXCEPT ![s] = new]
    BY DEF Create
  <2>2. Len(born) \in Nat /\ Len(born) <= MaxThreads
    BY LenProperties DEF StoreInv, TypeOK, ProcessType
  <2>3. new \in ThreadIds /\ Len(born') = new
    BY CreateType DEF StoreInv
  <2>4. \A x \in Sessions : cache[x] \in 0..MaxThreads /\ cache[x] <= Len(born)
    BY DEF StoreInv, TypeOK, ProcessType, IdsBorn
  <2> QED
    BY <2>1, <2>2, <2>3, <2>4, StoreAssumption DEF StoreInv, ThreadIds
<1>2. /\ \A k \in 1..Len(born) : OwnerOf(k)' = OwnerOf(k)
      /\ born'[new].session = s
      /\ \A k \in 1..Len(born) : OwnerOf(k) \in Sessions
  <2>1. born' = Append(born, [session |-> s, prompt |-> current])
    BY DEF Create
  <2>2. \A k \in 1..Len(born) : born'[k] = born[k]
    BY <1>1, <2>1, AppendProperties DEF TypeOK, ProcessType
  <2>3. born'[new] = [session |-> s, prompt |-> current]
    BY <1>1, <2>1, AppendProperties DEF TypeOK, ProcessType
  <2>4. \A k \in 1..Len(born) : born[k] \in [session : Sessions, prompt : Prompt]
    BY <1>1, ElementOfSeq DEF TypeOK, ProcessType
  <2> QED
    BY <2>2, <2>3, <2>4 DEF OwnerOf
<1>3. /\ cache'[s] = new /\ \A x \in Sessions : x # s => cache'[x] = cache[x]
      /\ UNCHANGED <<dbStatus, dbTurns, batch>>
  BY <1>1 DEF TypeOK, ProcessType, WriterIdles, dbVars
<1>4. /\ mem'[new].status = "active" /\ mem'[new].turns = {} /\ mem'[new].last = 0
      /\ dbStatus[new] = "absent" /\ dbTurns[new] = {}
  BY <1>1 DEF NewThread, StoreInv, UnbornBlank, Blank
<1>5. UnbornBlank'
  <2> SUFFICES ASSUME NEW k \in ThreadIds, k > new PROVE Blank(k)'
    BY <1>1 DEF UnbornBlank
  <2>1. k # new /\ k > Len(born)
    BY <1>1
  <2> QED
    BY <1>3, <2>1 DEF StoreInv, UnbornBlank, Blank
<1>6. CacheServes'
  <2>1. ASSUME NEW x \in Sessions, cache'[x] # 0
        PROVE  born'[cache'[x]].session = x /\ mem'[cache'[x]].status # "absent"
    <3>1. CASE x = s
      BY <1>2, <1>3, <1>4, <3>1
    <3>2. CASE x # s
      <4>1. cache'[x] = cache[x] /\ cache[x] \in 1..Len(born)
        BY <1>1, <1>3, <2>1, <3>2
      <4> QED
        BY <1>1, <1>2, <2>1, <4>1, SMTT(60) DEF StoreInv, CacheServes, OwnerOf, Served
    <3> QED
      BY <3>1, <3>2
  <2>2. ASSUME NEW k \in 1..new, mem'[k].status # "absent"
        PROVE  cache'[born'[k].session] # 0 /\ k <= cache'[born'[k].session]
    <3>1. CASE k = new
      BY <1>1, <1>2, <1>3, <3>1
    <3>2. CASE k # new
      <4>1. k \in 1..Len(born) /\ born'[k].session = OwnerOf(k) /\ Served(k)
        BY <1>1, <1>2, <2>2, <3>2 DEF OwnerOf, Served
      <4>2. cache[OwnerOf(k)] # 0 /\ k <= cache[OwnerOf(k)]
        BY <4>1 DEF StoreInv, CacheServes
      <4> QED
        BY <1>1, <1>2, <1>3, <4>1, <4>2
    <3> QED
      BY <3>1, <3>2
  <2> HIDE DEF new
  <2> QED
    BY <1>1, <2>1, <2>2 DEF CacheServes, OwnerOf, Served
<1>7. LastIsLast'
  <2> SUFFICES ASSUME NEW k \in ThreadIds
               PROVE  /\ \A t \in mem'[k].turns : t.seq <= mem'[k].last
                      /\ mem'[k].status # "absent" => dbTurns'[k] \subseteq mem'[k].turns
    BY DEF LastIsLast, Served
  <2>1. CASE k = new
    BY <1>3, <1>4, <2>1
  <2>2. CASE k # new
    BY <1>3, <2>2 DEF StoreInv, LastIsLast, Served
  <2> QED
    BY <2>1, <2>2
<1>8. ServesLatest'
  <2> SUFFICES ASSUME NEW x \in Sessions, cache'[x] # 0, NEW k \in (cache'[x] + 1)..new,
                      born'[k].session = x
               PROVE  dbStatus'[k] = "absent"
    BY <1>1 DEF ServesLatest, OwnerOf
  <2>1. x # s /\ cache'[x] = cache[x]
    BY <1>1, <1>3
  <2>2. k # new
    BY <1>2, <2>1
  <2>3. k \in (cache[x] + 1)..Len(born) /\ k \in 1..Len(born) /\ OwnerOf(k) = x
    BY <1>1, <1>2, <2>1, <2>2 DEF OwnerOf
  <2> QED
    BY <1>3, <2>1, <2>3 DEF StoreInv, ServesLatest
<1>9. ReadsCurrent'
  <2>1. ReadCurrent(r)'
    <3>1. call'[r].pc = "hold" /\ call'[r].thread = new /\ call'[r].session = s
      BY DEF Resume, Holding, StoreInv, TypeOK, ProcessType
    <3> HIDE DEF new
    <3> QED
      BY <1>2, <1>4, <3>1 DEF ReadCurrent, OwnerOf, Served
  <2>2. ASSUME NEW q \in Callers, q # r PROVE ReadCurrent(q)'
    <3> DEFINE i == call[q].thread
               x == call[q].session
    <3>1. call'[q] = call[q] /\ x \in Sessions /\ i \in 0..MaxThreads /\ i <= Len(born)
      BY <1>1, <2>2, ZenonT(60) DEF Resume, TypeOK, ProcessType, IdsBorn, Call
    <3> SUFFICES ASSUME i # 0 PROVE ReadCurrent(q)'
      BY <3>1 DEF ReadCurrent
    <3>2. ReadCurrent(q) /\ i \in 1..Len(born)
      BY <1>1, <3>1 DEF StoreInv, ReadsCurrent
    <3>3. born'[i].session = x /\ (mem'[i].status = "absent" <=> mem[i].status = "absent")
      BY <1>1, <1>2, <3>2, SMTT(60) DEF ReadCurrent, OwnerOf
    <3>4. CASE x = s
      BY <1>1, <1>3, <3>1, <3>2, <3>3, <3>4, SMTT(60) DEF ReadCurrent, OwnerOf, Served
    <3>5. CASE x # s
      <4>1. cache'[x] = cache[x]
        BY <1>3, <3>1, <3>5
      <4>2. ASSUME IsNewestRow(x, i)
            PROVE  /\ i \in 1..Len(born') /\ dbStatus'[i] # "absent"
                   /\ \A k \in (i + 1)..Len(born') : born'[k].session = x => dbStatus'[k] = "absent"
        <5>1. ASSUME NEW k \in (i + 1)..new, born'[k].session = x PROVE dbStatus'[k] = "absent"
          <6>1. k # new
            BY <1>2, <3>5, <5>1
          <6>2. k \in (i + 1)..Len(born) /\ k \in 1..Len(born) /\ OwnerOf(k) = x
            BY <1>1, <1>2, <3>2, <5>1, <6>1, SMTT(60) DEF OwnerOf
          <6> QED
            BY <1>3, <4>2, <6>2 DEF IsNewestRow
        <5>2. i \in 1..Len(born') /\ dbStatus'[i] # "absent"
          BY <1>1, <1>3, <3>2, <4>2 DEF IsNewestRow
        <5> HIDE DEF new, i, x
        <5> QED
          BY <1>1, <5>1, <5>2
      <4>3. call'[q].thread = i /\ call'[q].session = x
        BY <3>1
      <4> HIDE DEF i, x
      <4> QED
        BY <1>3, <3>1, <3>2, <3>3, <4>1, <4>2, <4>3, SMTT(60)
           DEF ReadCurrent, OwnerOf, Served, IsLast, IsNewestRow, i, x
    <3> QED
      BY <3>4, <3>5
  <2> QED
    BY <2>1, <2>2 DEF ReadsCurrent
<1>10. ASSUME NEW c \in Job, JobSound(c) PROVE JobSound(c)'
  <2>1. c.kind \in {"thread", "turn"} => c.thread \in 1..Len(born)
    BY <1>1, <1>10 DEF JobSound, Job
  <2>2. ASSUME c.kind \in {"thread", "turn"}
        PROVE  cache'[born'[c.thread].session] # 0 /\ c.thread <= cache'[born'[c.thread].session]
    <3>1. c.thread \in 1..Len(born) /\ born'[c.thread].session = OwnerOf(c.thread) /\ OwnerOf(c.thread) \in Sessions
      BY <1>2, <2>1, <2>2 DEF OwnerOf
    <3>2. cache[OwnerOf(c.thread)] # 0 /\ c.thread <= cache[OwnerOf(c.thread)]
      BY <1>10, <2>2 DEF JobSound
    <3>3. CASE OwnerOf(c.thread) = s
      BY <1>1, <1>3, <3>1, <3>3
    <3>4. CASE OwnerOf(c.thread) # s
      BY <1>3, <3>1, <3>2, <3>4
    <3> QED
      BY <3>3, <3>4
  <2>3. c.thread <= new
    BY <1>1, <1>10 DEF JobSound, Job
  <2>4. c.kind = "turn" => mem'[c.thread].turns = mem[c.thread].turns
    BY <1>1, <2>1
  <2> HIDE DEF new
  <2> QED
    BY <1>1, <1>3, <1>10, <2>2, <2>3, <2>4 DEF JobSound, OwnerOf
<1>11. JobsSound' /\ TurnsOrdered'
  <2> DEFINE all == jobs \o <<ThreadJob(new, "active", current)>>
  <2>1. ThreadJob(new, "active", current) \in Job
    BY <1>1, JobTypes, "active" \in Statuses DEF TypeOK, ProcessType
  <2>2. PICK c \in Job : c = ThreadJob(new, "active", current)
    BY <2>1
  <2>3. c.kind = "thread" /\ c.thread = new
    BY <2>2 DEF ThreadJob
  <2>4. Enqueue(jobs \o <<c>>)
    BY <2>2 DEF Create
  <2>5. /\ jobs \o <<c>> \in Seq(Job) /\ Len(jobs) \in Nat /\ Len(jobs \o <<c>>) = Len(jobs) + 1
        /\ \A m \in 1..Len(jobs) : (jobs \o <<c>>)[m] = jobs[m]
        /\ (jobs \o <<c>>)[Len(jobs) + 1] = c
    BY AppendIsConcat, AppendProperties, LenProperties
  <2>6. Grows(jobs \o <<c>>)
    BY <1>1, <1>3, <2>4, <2>5, EnqueueGrows
  <2>7. ASSUME NEW m \in 1..Len(jobs \o <<c>>)
        PROVE  /\ (jobs \o <<c>>)[m].kind = "thread"
               /\ \A d \in Job : (jobs \o <<c>>)[m] = d => JobSound(d)'
    <3>1. CASE m = Len(jobs) + 1
      <4>1. (jobs \o <<c>>)[m] = c
        BY <2>5, <3>1
      <4>2. JobSound(c)'
        <5> HIDE DEF new
        <5> QED
          BY <1>1, <1>2, <1>3, <2>3 DEF JobSound, OwnerOf
      <4> QED
        BY <2>3, <4>1, <4>2
    <3>2. CASE m # Len(jobs) + 1
      <4>1. m \in 1..Len(jobs) /\ (jobs \o <<c>>)[m] = jobs[m]
        BY <2>5, <3>2
      <4>2. jobs[m].kind = "thread" /\ jobs[m].thread \in 1..Len(born) /\ OwnerOf(jobs[m].thread) = s
        BY <4>1 DEF ClosingJobs
      <4>3. ASSUME NEW d \in Job, d = jobs[m] PROVE JobSound(d)'
        <5>1. d.kind = "thread" /\ d.thread \in 1..Len(born) /\ born'[d.thread].session = s
          BY <1>2, <4>2, <4>3 DEF OwnerOf
        <5>2. d.thread # 0 /\ d.thread <= new
          BY <1>1, <5>1
        <5> HIDE DEF new
        <5> QED
          BY <1>1, <1>3, <5>1, <5>2 DEF JobSound, OwnerOf
      <4> QED
        BY <4>1, <4>2, <4>3
    <3> QED
      BY <3>1, <3>2
  <2>8. \A n \in 1..Len(Pending) : \A d \in Job : Pending[n] = d => JobSound(d)'
    BY <1>10 DEF StoreInv, JobsSound
  <2>9. \A m \in 1..Len(jobs \o <<c>>) : (jobs \o <<c>>)[m].kind # "turn"
    BY <2>7
  <2> QED
    BY <2>5, <2>6, <2>7, <2>8, <2>9, JobsAdded
<1> QED
  BY <1>5, <1>6, <1>7, <1>8, <1>9, <1>11 DEF StoreInv

\* get_thread installs the copy it rehydrated: nobody filled the cache meanwhile.
LEMMA InstallCopyKeeps ==
  ASSUME StoreInv, TypeOK', NEW r \in Callers, call[r].pc = "install",
         cache[call[r].session] = 0, call[r].thread # 0,
         mem' = [mem EXCEPT ![call[r].thread] = call[r].found],
         cache' = [cache EXCEPT ![call[r].session] = call[r].thread],
         Resume(r, call[r].session, call[r].thread), NoEnqueue, WriterIdles,
         UNCHANGED <<born, dbVars>>
  PROVE  StoreInv'
<1> DEFINE s == call[r].session
           i == call[r].thread
<1>1. /\ TypeOK /\ s \in Sessions /\ i \in ThreadIds /\ Len(born) \in Nat /\ i \in 1..Len(born)
      /\ \A k \in 1..Len(born) : k \in ThreadIds
      /\ \A x \in Sessions : cache[x] \in 0..MaxThreads /\ cache[x] <= Len(born)
  <2>1. Len(born) \in Nat /\ Len(born) <= MaxThreads
    BY LenProperties DEF StoreInv, TypeOK, ProcessType
  <2>2. s \in Sessions /\ i \in 0..MaxThreads /\ i <= Len(born)
    BY DEF StoreInv, TypeOK, ProcessType, IdsBorn, Call
  <2>3. \A x \in Sessions : cache[x] \in 0..MaxThreads /\ cache[x] <= Len(born)
    BY DEF StoreInv, TypeOK, ProcessType, IdsBorn
  <2> QED
    BY <2>1, <2>2, <2>3, StoreAssumption DEF StoreInv, ThreadIds
<1>2. /\ OwnerOf(i) = s /\ call[r].found.status # "absent" /\ IsNewestRow(s, i)
      /\ call[r].found.turns = dbTurns[i] /\ IsLast(call[r].found.last, dbTurns[i])
  BY DEF StoreInv, ReadsCurrent, ReadCurrent
<1>3. /\ cache'[s] = i /\ \A x \in Sessions : x # s => cache'[x] = cache[x]
      /\ mem'[i] = call[r].found /\ \A k \in ThreadIds : k # i => mem'[k] = mem[k]
      /\ UNCHANGED <<born, dbStatus, dbTurns>> /\ UNCHANGED Pending
  <2> HIDE DEF Thread
  <2>1. UNCHANGED Pending
    BY DEF Pending, NoEnqueue, WriterIdles
  <2>2. \A k \in ThreadIds : k # i => mem'[k] = mem[k]
    BY <1>1 DEF TypeOK, ProcessType
  <2>3. mem'[i] = call[r].found
    BY <1>1 DEF TypeOK, ProcessType
  <2>4. cache'[s] = i /\ \A x \in Sessions : x # s => cache'[x] = cache[x]
    BY <1>1 DEF TypeOK, ProcessType
  <2> QED
    BY <2>1, <2>2, <2>3, <2>4 DEF dbVars
<1>4. \A q \in Callers \ {r} : call'[q] = call[q]
  BY DEF Resume, StoreInv, TypeOK, ProcessType
<1>5. call'[r].pc = "hold" /\ call'[r].thread = i /\ call'[r].session = s
  BY DEF Resume, Holding, StoreInv, TypeOK, ProcessType
<1> cache[s] = 0 /\ i # 0
  OBVIOUS
<1> HIDE DEF s, i
<1>6. \A k \in 1..Len(born) : OwnerOf(k) = s => mem[k].status = "absent"
  BY <1>1 DEF StoreInv, CacheServes, Served
<1>7. UnbornBlank'
  BY <1>1, <1>3, SMTT(60) DEF StoreInv, UnbornBlank, Blank, ThreadIds
<1>8. CacheServes'
  <2>1. ASSUME NEW x \in Sessions, cache'[x] # 0
        PROVE  born[cache'[x]].session = x /\ mem'[cache'[x]].status # "absent"
    <3>1. CASE x = s
      BY <1>2, <1>3, <3>1 DEF OwnerOf
    <3>2. CASE x # s
      <4>1. cache'[x] = cache[x] /\ cache[x] \in 1..Len(born)
        BY <1>1, <1>3, <2>1, <3>2
      <4>2. OwnerOf(cache[x]) = x /\ mem[cache[x]].status # "absent"
        BY <2>1, <4>1 DEF StoreInv, CacheServes, Served
      <4> QED
        BY <1>1, <1>2, <1>3, <3>2, <4>1, <4>2 DEF OwnerOf
    <3> QED
      BY <3>1, <3>2
  <2>2. ASSUME NEW k \in 1..Len(born), mem'[k].status # "absent"
        PROVE  cache'[born[k].session] # 0 /\ k <= cache'[born[k].session]
    <3>1. CASE k = i
      BY <1>1, <1>2, <1>3, <3>1 DEF OwnerOf
    <3>2. CASE k # i
      <4>1. mem[k].status # "absent" /\ OwnerOf(k) # s
        BY <1>1, <1>3, <1>6, <2>2, <3>2
      <4>2. cache[OwnerOf(k)] # 0 /\ k <= cache[OwnerOf(k)]
        BY <4>1 DEF StoreInv, CacheServes, Served
      <4>3. OwnerOf(k) \in Sessions
        <5>1. born[k] \in [session : Sessions, prompt : Prompt]
          BY <1>1, ElementOfSeq DEF TypeOK, ProcessType
        <5> QED
          BY <5>1 DEF OwnerOf
      <4> QED
        BY <1>3, <4>1, <4>2, <4>3 DEF OwnerOf
    <3> QED
      BY <3>1, <3>2
  <2> QED
    BY <1>3, <2>1, <2>2 DEF CacheServes, OwnerOf, Served
<1>9. LastIsLast'
  <2> SUFFICES ASSUME NEW k \in ThreadIds
               PROVE  /\ \A t \in mem'[k].turns : t.seq <= mem'[k].last
                      /\ mem'[k].status # "absent" => dbTurns'[k] \subseteq mem'[k].turns
    BY DEF LastIsLast, Served
  <2>1. CASE k = i
    BY <1>2, <1>3, <2>1 DEF IsLast, i
  <2>2. CASE k # i
    BY <1>3, <2>2 DEF StoreInv, LastIsLast, Served
  <2> QED
    BY <2>1, <2>2
<1>10. ServesLatest'
  <2> SUFFICES ASSUME NEW x \in Sessions, cache'[x] # 0, NEW k \in (cache'[x] + 1)..Len(born),
                      OwnerOf(k) = x
               PROVE  dbStatus[k] = "absent"
    BY <1>3 DEF ServesLatest, OwnerOf
  <2>1. CASE x = s
    BY <1>2, <1>3, <2>1 DEF IsNewestRow
  <2>2. CASE x # s
    BY <1>3, <2>2 DEF StoreInv, ServesLatest
  <2> QED
    BY <2>1, <2>2
<1>11. JobsSound' /\ TurnsOrdered'
  <2>1. ASSUME NEW n \in 1..Len(Pending), NEW c \in Job, Pending[n] = c PROVE JobSound(c)'
    <3>1. JobSound(c)
      BY <2>1 DEF StoreInv, JobsSound
    <3>2. CASE c.kind \in {"thread", "turn"}
      <4>1. c.thread \in 1..Len(born) /\ cache[OwnerOf(c.thread)] # 0
        BY <1>1, <3>1, <3>2 DEF JobSound, Job
      <4>2. OwnerOf(c.thread) # s /\ c.thread # i /\ OwnerOf(c.thread) \in Sessions
        <5>1. born[c.thread] \in [session : Sessions, prompt : Prompt]
          BY <1>1, <4>1, ElementOfSeq DEF TypeOK, ProcessType
        <5> QED
          BY <1>2, <4>1, <5>1 DEF OwnerOf
      <4>3. cache'[OwnerOf(c.thread)] = cache[OwnerOf(c.thread)] /\ mem'[c.thread] = mem[c.thread]
        BY <1>1, <1>3, <4>1, <4>2
      <4> QED
        BY <1>3, <3>1, <4>3 DEF JobSound, OwnerOf
    <3>3. CASE c.kind \notin {"thread", "turn"}
      BY <1>3, <3>1, <3>3 DEF JobSound
    <3> QED
      BY <3>2, <3>3
  <2>2. Shrinks(0) /\ Len(Pending) \in Nat
    BY <1>1, <1>3, SameShrinks, PendingType
  <2>3. \A n \in (0 + 1)..Len(Pending) : n \in 1..Len(Pending)
    BY <2>2
  <2> QED
    BY <2>1, <2>2, <2>3, JobsKept
<1>12. ReadsCurrent'
  <2>1. ReadCurrent(r)'
    BY <1>2, <1>3, <1>5 DEF ReadCurrent, OwnerOf, Served
  <2>2. ASSUME NEW q \in Callers, q # r PROVE ReadCurrent(q)'
    <3>1. call'[q] = call[q] /\ ReadCurrent(q) /\ call[q].session \in Sessions
          /\ call[q].thread \in 0..MaxThreads
      BY <1>1, <1>4, <2>2 DEF StoreInv, ReadsCurrent, TypeOK, ProcessType, Call
    <3>2. call[q].thread # 0 => call[q].thread \in ThreadIds
      BY <3>1, StoreAssumption DEF ThreadIds
    <3>3. call[q].thread # 0 /\ Served(call[q].thread) => mem'[call[q].thread].status # "absent"
      BY <1>2, <1>3, <3>2 DEF Served, i
    <3>4. CASE call[q].session = s
      BY <1>1, <1>3, <3>1, <3>3, <3>4, SMTT(60) DEF ReadCurrent, OwnerOf, Served
    <3>5. CASE call[q].session # s
      BY <1>3, <3>1, <3>3, <3>5 DEF ReadCurrent, OwnerOf, Served, IsNewestRow, IsLast
    <3> QED
      BY <3>4, <3>5
  <2> QED
    BY <2>1, <2>2 DEF ReadsCurrent
<1> QED
  BY <1>7, <1>8, <1>9, <1>10, <1>11, <1>12 DEF StoreInv

\* The closing job of thread i, or none, is a closing job of its session.
LEMMA CloseJobsClose ==
  ASSUME StoreInv, NEW i \in 0..MaxThreads, NEW b \in BOOLEAN, NEW s \in Sessions,
         b => i \in 1..Len(born) /\ OwnerOf(i) = s
  PROVE  ClosingJobs(s, IF b THEN <<ThreadJob(i, "resolved", born[i].prompt)>> ELSE <<>>)
<1>1. CASE b
  <2>1. ThreadJob(i, "resolved", born[i].prompt).kind = "thread" /\ ThreadJob(i, "resolved", born[i].prompt).thread = i
    BY DEF ThreadJob
  <2> QED
    BY <1>1, <2>1 DEF ClosingJobs
<1>2. CASE ~b
  BY <1>2 DEF ClosingJobs
<1> QED
  BY <1>1, <1>2

LEMMA EnterKeeps ==
  ASSUME StoreInv, NEW r \in Callers, NEW s \in Sessions, Enter(r, s)
  PROVE  StoreInv'
<1>1. TypeOK /\ TypeOK' /\ WriterIdles /\ UNCHANGED dbVars
  BY EnterType DEF StoreInv, Enter
<1>2. CASE GetCached(r, s)
  BY <1>1, <1>2, HandOutCached DEF GetCached
<1>3. ASSUME NEW op \in {"get", "reset"}, AwaitRow(r, op, s) PROVE StoreInv'
  <2>1. /\ call'[r] = Waiting(op, s) /\ \A q \in Callers \ {r} : call'[q] = call[q]
        /\ UNCHANGED <<born, mem, cache, pipeVars>>
    BY <1>1, <1>3 DEF AwaitRow, TypeOK, ProcessType, NoEnqueue, WriterIdles, pipeVars
  <2>2. ReadCurrent(r)'
    BY <2>1 DEF Waiting, ReadCurrent
  <2> QED
    BY <1>1, <2>1, <2>2, CallStep
<1>4. CASE ResetCached(r, s)
  <2> DEFINE old == cache[s]
             new == Len(born) + 1
             b == mem[old].status = "active"
             jobs == IF b THEN <<ThreadJob(old, "resolved", born[old].prompt)>> ELSE <<>>
  <2>1. /\ old \in 1..Len(born) /\ old \in 0..MaxThreads /\ old \in ThreadIds
        /\ Len(born) \in Nat /\ OwnerOf(old) = s /\ Served(old)
    <3>1. old \in 0..MaxThreads /\ old <= Len(born) /\ old # 0 /\ Len(born) \in Nat
      BY <1>1, <1>4, LenProperties DEF ResetCached, TypeOK, ProcessType, IdsBorn
    <3>2. OwnerOf(old) = s /\ Served(old)
      BY <3>1 DEF StoreInv, CacheServes
    <3> QED
      BY <3>1, <3>2, StoreAssumption DEF ThreadIds
  <2>2. /\ Create(s, jobs) /\ Resume(r, s, new)
        /\ mem' = [[mem EXCEPT ![old].status = "resolved"] EXCEPT ![new] = NewThread]
    BY <1>4 DEF ResetCached, Resolved
  <2> HIDE DEF old
  <2>3. jobs \in Seq(Job) /\ ClosingJobs(s, jobs)
    BY <1>1, <2>1, CloseJobs, CloseJobsClose
  <2> HIDE DEF jobs
  <2>4. new \in ThreadIds
    BY <1>1, <2>2, <2>3, CreateType
  <2>5. /\ mem'[new] = NewThread
        /\ \A k \in ThreadIds : k # new =>
             /\ mem'[k].turns = mem[k].turns /\ mem'[k].last = mem[k].last
             /\ mem'[k].status = "absent" <=> mem[k].status = "absent"
    <3> HIDE DEF new
    <3>1. \A k \in ThreadIds : k # new => mem'[k] = IF k = old THEN [mem[k] EXCEPT !.status = "resolved"] ELSE mem[k]
      BY <1>1, <2>1, <2>2, <2>4 DEF TypeOK, ProcessType
    <3> QED
      BY <1>1, <2>1, <2>2, <2>4, <3>1, ZenonT(60) DEF TypeOK, ProcessType, Served
  <2> QED
    BY <1>1, <2>2, <2>3, <2>5, CreateKeeps
<1> QED
  BY <1>2, <1>3, <1>4 DEF Enter

LEMMA InstallKeeps ==
  ASSUME StoreInv, NEW r \in Callers, Install(r)
  PROVE  StoreInv'
<1> DEFINE s == call[r].session
           i == call[r].thread
           new == Len(born) + 1
<1>1. /\ TypeOK /\ TypeOK' /\ call[r].pc = "install" /\ WriterIdles /\ UNCHANGED dbVars
      /\ s \in Sessions /\ i \in 0..MaxThreads /\ i <= Len(born)
      /\ mem \in [ThreadIds -> Thread] /\ Len(born) \in Nat
  BY InstallType, LenProperties, ZenonT(60) DEF StoreInv, Install, TypeOK, ProcessType, IdsBorn, Call
<1>2. CASE /\ Existing(s) # 0 /\ Resume(r, s, Winner(r, s)) /\ NoEnqueue
           /\ UNCHANGED <<born, mem, cache>>
  BY <1>1, <1>2, HandOutCached DEF Existing, Winner
<1>3. CASE /\ Existing(s) = 0 /\ i # 0
           /\ mem' = [mem EXCEPT ![i] = call[r].found]
           /\ cache' = [cache EXCEPT ![s] = i]
           /\ Resume(r, s, i) /\ NoEnqueue /\ UNCHANGED born
  BY <1>1, <1>3, InstallCopyKeeps DEF Existing
<1>4. ASSUME NEW jobs \in Seq(Job), ClosingJobs(s, jobs), Create(s, jobs),
             mem' = [mem EXCEPT ![new] = NewThread], Resume(r, s, new)
      PROVE  StoreInv'
  <2>1. new \in ThreadIds
    BY <1>1, <1>4, CreateType
  <2>2. /\ mem'[new] = NewThread
        /\ \A k \in ThreadIds : k # new => mem'[k] = mem[k]
    <3> HIDE DEF new, Thread
    <3> QED
      BY <1>1, <1>4, <2>1
  <2> HIDE DEF s
  <2> QED
    BY <1>1, <1>4, <2>2, CreateKeeps DEF s
<1>5. CASE Existing(s) = 0 /\ i = 0 /\ InstallGet(r)
  <2>1. Create(s, <<>>) /\ mem' = [mem EXCEPT ![new] = NewThread] /\ Resume(r, s, new)
    BY <1>5 DEF InstallGet
  <2>2. <<>> \in Seq(Job) /\ ClosingJobs(s, <<>>)
    BY DEF ClosingJobs
  <2> QED
    BY <1>4, <2>1, <2>2
<1>6. CASE InstallReset(r)
  <2> DEFINE b == call[r].found.status = "active"
             jobs == IF b THEN <<ThreadJob(i, "resolved", born[i].prompt)>> ELSE <<>>
  <2>1. Create(s, jobs) /\ mem' = [mem EXCEPT ![new] = NewThread] /\ Resume(r, s, new)
    BY <1>6 DEF InstallReset
  <2>2. b => i \in 1..Len(born) /\ OwnerOf(i) = s
    <3>1. b => i # 0
      BY <1>1 DEF TypeOK, IdsBorn
    <3>2. i # 0 => OwnerOf(i) = s
      BY DEF StoreInv, ReadsCurrent, ReadCurrent
    <3> QED
      BY <1>1, <3>1, <3>2
  <2>3. jobs \in Seq(Job) /\ ClosingJobs(s, jobs)
    <3> HIDE DEF b, i, s
    <3> QED
      BY <1>1, <2>2, CloseJobs, CloseJobsClose
  <2> HIDE DEF jobs
  <2> QED
    BY <1>4, <2>1, <2>3
<1> QED
  BY <1>2, <1>3, <1>5, <1>6 DEF Install, InstallGet

-----------------------------------------------------------------------------
(* The theorems.                                                           *)

LEMMA InitStore == Init => StoreInv
<1> SUFFICES ASSUME Init PROVE StoreInv
  OBVIOUS
<1>1. TypeOK
  BY InitType
<1>2. Len(Pending) = 0 /\ Len(born) = 0
  BY DEF Init, Pending
<1>3. JobsSound /\ TurnsOrdered
  BY <1>2 DEF JobsSound, TurnsOrdered
<1>4. UnbornBlank /\ LastIsLast
  BY DEF Init, UnbornBlank, Blank, LastIsLast, Served, NoThread
<1>5. CacheServes /\ ServesLatest
  BY <1>2 DEF Init, CacheServes, ServesLatest
<1>6. ReadsCurrent
  BY DEF Init, ReadsCurrent, ReadCurrent, IdleCall
<1> QED
  BY <1>1, <1>3, <1>4, <1>5, <1>6 DEF StoreInv

LEMMA StepStore == StoreInv /\ [Next]_vars => StoreInv'
<1> SUFFICES ASSUME StoreInv, [Next]_vars PROVE StoreInv'
  OBVIOUS
<1>1. ASSUME NEW r \in Callers, CallerStep(r) PROVE StoreInv'
  BY <1>1, EnterKeeps, QueryKeeps, InstallKeeps, LeaveKeeps, AppendKeeps, FeedbackKeeps DEF CallerStep
<1>2. CASE UNCHANGED vars
  <2>1. UNCHANGED <<born, mem, cache, call, pipeVars, dbVars>>
    BY <1>2 DEF vars, procVars
  <2>2. UNCHANGED Pending /\ UNCHANGED <<dbStatus, dbTurns>>
    BY <2>1 DEF Pending, pipeVars, dbVars
  <2>3. TypeOK'
    <3>1. ProcessType' /\ IdsBorn'
      BY <1>2 DEF vars, procVars, StoreInv, TypeOK, ProcessType, IdsBorn
    <3> QED
      BY <2>1, <3>1, KeepPipeline, KeepDatabase DEF StoreInv, TypeOK
  <2>4. JobsSound' /\ TurnsOrdered'
    BY <2>1, <2>2, SameShrinks, QuietJobs DEF StoreInv
  <2> QED
    BY <2>1, <2>2, <2>3, <2>4, QuietStep
<1> QED
  BY <1>1, <1>2, RegisterKeeps, WriterKeeps, CloseKeeps, RestartKeeps DEF Next

\* The inductive invariant holds in every reachable state, for any number of sessions,
\* callers and threads, any queue and batch size, and any of the faults.
THEOREM StoreInvariant == Spec => []StoreInv
BY InitStore, StepStore, PTL DEF Spec

LEMMA InvImplies == StoreInv => WireOrder /\ MemoryIsAuthoritative /\ ServesLatest
<1> SUFFICES ASSUME StoreInv PROVE WireOrder /\ MemoryIsAuthoritative /\ ServesLatest
  OBVIOUS
<1>1. WireOrder
  <2> SUFFICES ASSUME NEW n \in 1..Len(Pending), IsTurn(n)
               PROVE  /\ \A m \in 1..(n - 1) :
                           IsTurn(m) /\ Pending[m].thread = Pending[n].thread
                             => Pending[m].seq < Pending[n].seq
                      /\ \A t \in dbTurns[Pending[n].thread] : t.seq < Pending[n].seq
    BY DEF WireOrder
  <2>1. \A m \in 1..(n - 1) : m \in 1..Len(Pending) /\ m < n
    BY PendingType DEF StoreInv
  <2> QED
    BY <2>1 DEF StoreInv, TurnsOrdered, JobsSound, JobSound, IsTurn
<1>2. MemoryIsAuthoritative
  BY DEF MemoryIsAuthoritative, StoreInv, LastIsLast, Served, JobsSound, JobSound, IsTurn
<1> QED
  BY <1>1, <1>2 DEF StoreInv

\* The turns of a thread reach the database in wire order, and none is ever discarded by
\* ON CONFLICT DO NOTHING, whatever is lost, raced or restarted on the way.
THEOREM WireOrderHolds == Spec => []WireOrder
BY StoreInvariant, InvImplies, PTL

\* The process that serves a thread knows all its stored and pending turns.
THEOREM MemoryAuthority == Spec => []MemoryIsAuthoritative
BY StoreInvariant, InvImplies, PTL

\* The cache never serves a thread when a younger one of the session is stored.
THEOREM LatestServed == Spec => []ServesLatest
BY StoreInvariant, InvImplies, PTL

-----------------------------------------------------------------------------
(* What becomes of the writes. *)

-----------------------------------------------------------------------------
(* The invariants.                                                         *)

IsShutdown(n) == Pending[n].kind = "shutdown"
IsRowJob(n) == Pending[n].kind \in {"thread", "turn"}
IsRating(n) == Pending[n].kind = "feedback"

\* What is owed is counted or pending.
Accounts ==
  /\ owed <= dropped + Writes(Pending)
  /\ writer = "acquiring" => taken = Writes(batch)
  /\ writer \in {"idle", "stopped"} => batch = <<>>

\* There is one sentinel at most: none before close(), and none queued once the writer has
\* taken it.
OneSentinel ==
  /\ \A m, n \in 1..Len(Pending) : IsShutdown(m) /\ IsShutdown(n) => m = n
  /\ server \in {"up", "closing"} => stopSeen = FALSE /\ \A n \in 1..Len(Pending) : ~ IsShutdown(n)
  /\ server \in {"up", "closing"} => writer \notin {"stopped", "cancelled"}
  /\ \A n \in 1..Len(batch) : batch[n].kind = "shutdown" => stopSeen
  /\ stopSeen \/ writer = "stopped" => \A n \in 1..Len(queue) : queue[n].kind # "shutdown"

WritesInv == TypeOK /\ Accounts /\ OneSentinel

\* The hash of every stored thread is stored, that of a served one can be, and a pending
\* row carries the hash its thread was made with.
Stored == dbPrompts \cup {NoHash}
Storable == Stored \cup prompts
Keys ==
  /\ current \in prompts \cup {NoHash}
  /\ \A i \in 1..Len(born) :
       /\ Served(i) => born[i].prompt \in Storable
       /\ dbStatus[i] # "absent" => born[i].prompt \in Stored
  /\ \A n \in 1..Len(Pending) : IsRowJob(n) =>
       Pending[n].prompt = born[Pending[n].thread].prompt /\ Pending[n].prompt \in Storable
  /\ \A r \in Callers : call[r].pc \in {"turns", "install"} /\ call[r].thread # 0 =>
       born[call[r].thread].prompt \in Stored

\* Ratings are stamped in the order they were tapped, and wait in that order.
Taps ==
  /\ \A n \in 1..Len(Pending) : IsRating(n) => Pending[n].at <= clock
  /\ \A m, n \in 1..Len(Pending) : m < n /\ IsRating(m) /\ IsRating(n) => Pending[m].at <= Pending[n].at
  /\ \A i \in ThreadIds : \A x \in dbFeedback[i] :
       /\ x.at <= clock
       /\ \A n \in 1..Len(Pending) : IsRating(n) => x.at <= Pending[n].at
       /\ \A y \in dbFeedback[i] : x.seq = y.seq => x = y

\* Once a thread is resolved, by its object, a pending row or its stored one, nothing behind
\* that will make it active.
Closing ==
  /\ \A r \in Callers : call[r].op = "get"
  /\ \A n \in 1..Len(Pending) : IsRowJob(n) =>
       /\ Pending[n].status = "resolved" => mem[Pending[n].thread].status # "active"
       /\ dbStatus[Pending[n].thread] = "resolved" => Pending[n].status = "resolved"
  /\ \A m, n \in 1..Len(Pending) :
       /\ m < n /\ IsRowJob(m) /\ IsRowJob(n) /\ Pending[m].thread = Pending[n].thread
       /\ Pending[m].status = "resolved"
       => Pending[n].status = "resolved"
  /\ \A i \in ThreadIds : dbStatus[i] = "resolved" => mem[i].status # "active"
  /\ \A r \in Callers :
       call[r].pc \in {"turns", "install"} /\ call[r].thread # 0 /\ cache[call[r].session] = 0 =>
         call[r].found.status = dbStatus[call[r].thread]

-----------------------------------------------------------------------------
(* What the steps do, in the terms of these invariants.                    *)

\* Caller r looks at the store: only its own call changes, and it knows a thread of a row it
\* has just read, the thread it knew, or the cached one.
Looks(r) ==
  /\ UNCHANGED <<born, mem, cache, queue, batch, prompts, current, clock, dbVars>>
  /\ \A q \in Callers \ {r} : call'[q] = call[q]
  /\ call'[r].pc \in {"turns", "install"} /\ call'[r].thread # 0 =>
       \/ /\ IsNewestRow(call'[r].session, call'[r].thread)
          /\ call'[r].found.status = dbStatus[call'[r].thread]
       \/ /\ call[r].pc = "turns" /\ call'[r].thread = call[r].thread
          /\ call'[r].session = call[r].session
          /\ call'[r].found.status = call[r].found.status
  /\ call'[r].op # "get" => call'[r].op = call[r].op \/ DirectReset # {}
  /\ call'[r].pc = "hold" => call'[r].thread = cache[call'[r].session]

\* Caller r comes out of the store holding thread i of session s, which the cache serves.
HandsOut(r, s, i) ==
  /\ cache' = [cache EXCEPT ![s] = i] /\ Resume(r, s, i)
  /\ UNCHANGED <<batch, prompts, current, clock, dbVars>>

\* It installs the copy it rehydrated.
Copies(r) ==
  /\ call[r].pc = "install" /\ call[r].thread \in 1..Len(born) /\ cache[call[r].session] = 0
  /\ HandsOut(r, call[r].session, call[r].thread)
  /\ mem' = [mem EXCEPT ![call[r].thread] = call[r].found]
  /\ UNCHANGED <<born, queue>>

\* The jobs of a reset: the row that closes the old thread, if it was active.
Closes(old, b) == IF b THEN <<ThreadJob(old, "resolved", born[old].prompt)>> ELSE <<>>

\* It makes a thread for session s, and may close an old one: a served one, or the one it read.
Makes(r, s, old, b) ==
  /\ Create(s, Closes(old, b))
  /\ HandsOut(r, s, Len(born) + 1)
  /\ b => /\ old \in 1..Len(born) /\ old \in ThreadIds
          /\ \/ Served(old) /\ mem'[old].status = "resolved"
             \/ call[r].op = "reset" /\ call[r].pc = "install" /\ call[r].thread = old
  /\ mem'[Len(born) + 1] = NewThread
  /\ \A k \in ThreadIds : k # Len(born) + 1 =>
       \/ mem'[k].status = mem[k].status
       \/ mem'[k].status = "resolved" /\ Served(k)

LEMMA EnterCases ==
  ASSUME StoreInv, NEW r \in Callers, NEW s \in Sessions, Enter(r, s)
  PROVE  Looks(r) \/ \E old \in 0..MaxThreads, b \in BOOLEAN : Makes(r, s, old, b)
<1>1. /\ TypeOK /\ WriterIdles /\ UNCHANGED <<prompts, current, clock, dbVars>>
      /\ call \in [Callers -> Call] /\ UNCHANGED batch
  BY DEF StoreInv, TypeOK, ProcessType, Enter, WriterIdles
<1>2. CASE GetCached(r, s)
  <2>1. call'[r] = Holding(s, cache[s]) /\ \A q \in Callers \ {r} : call'[q] = call[q]
    BY <1>1, <1>2 DEF GetCached, Resume
  <2> QED
    BY <1>1, <1>2, <2>1 DEF GetCached, NoEnqueue, Looks, Holding
<1>3. ASSUME NEW op \in {"get", "reset"}, AwaitRow(r, op, s), op = "reset" => s \in DirectReset
      PROVE  Looks(r)
  <2>1. call'[r] = Waiting(op, s) /\ \A q \in Callers \ {r} : call'[q] = call[q]
    BY <1>1, <1>3 DEF AwaitRow
  <2> QED
    BY <1>1, <1>3, <2>1 DEF AwaitRow, NoEnqueue, Looks, Waiting
<1>4. ASSUME ResetCached(r, s)
      PROVE  \E old \in 0..MaxThreads, b \in BOOLEAN : Makes(r, s, old, b)
  <2> DEFINE old == cache[s]
             new == Len(born) + 1
             b == mem[old].status = "active"
  <2>1. /\ old \in 1..Len(born) /\ old \in 0..MaxThreads /\ old \in ThreadIds
        /\ Len(born) \in Nat /\ Served(old)
    <3>1. old \in 0..MaxThreads /\ old <= Len(born) /\ old # 0 /\ Len(born) \in Nat
      BY <1>1, <1>4, LenProperties DEF ResetCached, TypeOK, ProcessType, IdsBorn
    <3>2. Served(old)
      BY <3>1 DEF StoreInv, CacheServes
    <3> QED
      BY <3>1, <3>2, StoreAssumption DEF ThreadIds
  <2>2. /\ Create(s, Closes(old, b)) /\ Resume(r, s, new)
        /\ mem' = [[mem EXCEPT ![old].status = "resolved"] EXCEPT ![new] = NewThread]
        /\ cache' = [cache EXCEPT ![s] = new] /\ Len(born) < MaxThreads
    BY <1>4 DEF ResetCached, Resolved, Closes, Create
  <2>3. new \in ThreadIds /\ old # new
    BY <2>1, <2>2, StoreAssumption DEF ThreadIds
  <2> HIDE DEF old
  <2>4. mem'[new] = NewThread /\ mem'[old].status = "resolved"
        /\ \A k \in ThreadIds : k # new /\ k # old => mem'[k] = mem[k]
    <3>1. mem \in [ThreadIds -> Thread] /\ mem[old] \in Thread
      BY <1>1, <2>1 DEF TypeOK, ProcessType
    <3>2. [mem[old] EXCEPT !.status = "resolved"].status = "resolved"
      BY <3>1
    <3> HIDE DEF new, Thread
    <3> QED
      BY <2>1, <2>2, <2>3, <3>1, <3>2
  <2>5. Makes(r, s, old, b)
    <3> HIDE DEF b
    <3> QED
      BY <1>1, <2>1, <2>2, <2>4 DEF Makes, HandsOut
  <2> QED
    BY <2>1, <2>5
<1> QED
  BY <1>2, <1>3, <1>4 DEF Enter

LEMMA QueryCases ==
  ASSUME StoreInv, NEW r \in Callers, RowArrives(r) \/ TurnsArrive(r) \/ Leave(r)
  PROVE  Looks(r)
<1>1. /\ call \in [Callers -> Call] /\ call[r] \in Call /\ ReadCurrent(r)
      /\ UNCHANGED <<born, mem, cache, queue, batch, prompts, current, clock, dbVars>>
  BY ZenonT(60) DEF StoreInv, TypeOK, ProcessType, ReadsCurrent, RowArrives, TurnsArrive, Leave, pipeVars
<1>2. \A q \in Callers \ {r} : call'[q] = call[q]
  BY <1>1, ZenonT(60) DEF RowArrives, TurnsArrive, Leave, FailedRead
<1>3. CASE Leave(r)
  <2>1. call'[r] = IdleCall
    BY <1>1, <1>3 DEF Leave
  <2> QED
    BY <1>1, <1>2, <2>1 DEF Looks, IdleCall
<1>4. CASE FailedRead(r)
  <2>1. call'[r].thread = 0 /\ call'[r].pc = "install" /\ call'[r].op = call[r].op
    BY <1>1, <1>4 DEF FailedRead, Call
  <2> QED
    BY <1>1, <1>2, <2>1 DEF Looks
<1>5. CASE call[r].pc = "row" /\ call' = [call EXCEPT ![r].pc = "install"]
  <2>1. call'[r].thread = 0 /\ call'[r].pc = "install" /\ call'[r].op = call[r].op
    BY <1>1, <1>5 DEF Call, ReadCurrent
  <2> QED
    BY <1>1, <1>2, <2>1 DEF Looks
<1>6. ASSUME NEW i \in ThreadIds, IsNewestRow(call[r].session, i),
             call' = [call EXCEPT ![r].pc = "turns", ![r].thread = i, ![r].found.status = dbStatus[i]]
      PROVE  Looks(r)
  <2>1. /\ call'[r].thread = i /\ call'[r].pc = "turns" /\ call'[r].op = call[r].op
        /\ call'[r].session = call[r].session /\ call'[r].found.status = dbStatus[i]
    BY <1>1, <1>6 DEF Call
  <2> QED
    BY <1>1, <1>2, <1>6, <2>1 DEF Looks
<1>7. ASSUME NEW n \in 0..MaxOps, call[r].pc = "turns",
             call' = [call EXCEPT ![r].pc = "install", ![r].found.last = n,
                                  ![r].found.turns = dbTurns[call[r].thread]]
      PROVE  Looks(r)
  <2>1. /\ call'[r].thread = call[r].thread /\ call'[r].pc = "install" /\ call'[r].op = call[r].op
        /\ call'[r].session = call[r].session /\ call'[r].found.status = call[r].found.status
    BY <1>1, <1>7 DEF Call
  <2> QED
    BY <1>1, <1>2, <1>7, <2>1 DEF Looks
<1> QED
  BY <1>3, <1>4, <1>5, <1>6, <1>7, ZenonT(60) DEF RowArrives, TurnsArrive

LEMMA InstallCases ==
  ASSUME StoreInv, NEW r \in Callers, Install(r)
  PROVE  \/ Looks(r) \/ Copies(r)
         \/ \E s \in Sessions, old \in 0..MaxThreads, b \in BOOLEAN : Makes(r, s, old, b)
<1> DEFINE s == call[r].session
           i == call[r].thread
           new == Len(born) + 1
<1>1. /\ TypeOK /\ WriterIdles /\ UNCHANGED <<prompts, current, clock, dbVars, batch>>
      /\ call \in [Callers -> Call] /\ call[r].pc = "install"
      /\ s \in Sessions /\ i \in 0..MaxThreads /\ i <= Len(born) /\ Len(born) \in Nat
  BY LenProperties DEF StoreInv, TypeOK, ProcessType, IdsBorn, Call, Install, WriterIdles
<1>2. CASE Existing(s) # 0 /\ Resume(r, s, Winner(r, s)) /\ NoEnqueue /\ UNCHANGED <<born, mem, cache>>
  <2>1. call'[r] = Holding(s, cache[s]) /\ \A q \in Callers \ {r} : call'[q] = call[q]
    BY <1>1, <1>2 DEF Winner, Existing, Resume
  <2> QED
    BY <1>1, <1>2, <2>1 DEF NoEnqueue, Looks, Holding
<1>3. CASE /\ Existing(s) = 0 /\ i # 0
           /\ mem' = [mem EXCEPT ![i] = call[r].found]
           /\ cache' = [cache EXCEPT ![s] = i]
           /\ Resume(r, s, i) /\ NoEnqueue /\ UNCHANGED born
  BY <1>1, <1>3 DEF Existing, NoEnqueue, Copies, HandsOut
<1>4. ASSUME NEW old \in 0..MaxThreads, NEW b \in BOOLEAN, Create(s, Closes(old, b)),
             mem' = [mem EXCEPT ![new] = NewThread], Resume(r, s, new),
             b => /\ old \in 1..Len(born) /\ call[r].op = "reset" /\ call[r].thread = old
      PROVE  Makes(r, s, old, b)
  <2>1. cache' = [cache EXCEPT ![s] = new] /\ new \in ThreadIds /\ (b => old \in ThreadIds)
    BY <1>1, <1>4, StoreAssumption DEF Create, ThreadIds
  <2>2. mem'[new] = NewThread /\ \A k \in ThreadIds : k # new => mem'[k] = mem[k]
    <3> HIDE DEF new, Thread
    <3> QED
      BY <1>1, <1>4, <2>1 DEF TypeOK, ProcessType
  <2> HIDE DEF s
  <2> QED
    BY <1>1, <1>4, <2>1, <2>2 DEF Makes, HandsOut
<1>5. CASE Existing(s) = 0 /\ i = 0 /\ InstallGet(r)
  <2>1. Create(s, Closes(0, FALSE)) /\ mem' = [mem EXCEPT ![new] = NewThread] /\ Resume(r, s, new)
    BY <1>5 DEF InstallGet, Closes
  <2>2. 0 \in 0..MaxThreads
    BY StoreAssumption
  <2>3. Makes(r, s, 0, FALSE)
    BY <1>4, <2>1, <2>2
  <2> HIDE DEF s
  <2> QED
    BY <1>1, <2>2, <2>3
<1>6. CASE InstallReset(r)
  <2> DEFINE b == call[r].found.status = "active"
  <2>1. Create(s, Closes(i, b)) /\ mem' = [mem EXCEPT ![new] = NewThread] /\ Resume(r, s, new)
        /\ call[r].op = "reset"
    BY <1>6 DEF InstallReset, Closes
  <2>2. b => i # 0 /\ i \in 1..Len(born)
    BY <1>1 DEF TypeOK, IdsBorn
  <2> HIDE DEF b
  <2>3. PICK c \in BOOLEAN : c <=> b
    OBVIOUS
  <2>4. c = b
    BY <2>3 DEF b
  <2>5. Makes(r, s, i, c)
    <3> HIDE DEF s, new
    <3> QED
      BY <1>1, <1>4, <2>1, <2>2, <2>4
  <2> HIDE DEF s
  <2> QED
    BY <1>1, <2>5
<1> QED
  BY <1>2, <1>3, <1>5, <1>6 DEF Install, InstallGet

LEMMA CallerCases ==
  ASSUME StoreInv, NEW r \in Callers, CallerStep(r)
  PROVE  \/ Looks(r) \/ Copies(r) \/ AppendTurn(r) \/ RecordFeedback(r)
         \/ \E s \in Sessions, old \in 0..MaxThreads, b \in BOOLEAN : Makes(r, s, old, b)
BY EnterCases, QueryCases, InstallCases DEF CallerStep

\* The writer carries out job j, the first that is pending: its rows are what j says.
Carries(j) ==
  /\ Shrinks(1) /\ 1 \in 1..Len(Pending) /\ Pending[1] = j
  /\ \/ /\ j.kind \in {"thread", "turn"}
        /\ dbStatus' = [dbStatus EXCEPT ![j.thread] = j.status]
        /\ j.prompt \in dbPrompts' \cup {NoHash}
        /\ UNCHANGED dbFeedback
     \/ j.kind = "feedback" /\ UpsertFeedback(j) /\ UNCHANGED dbStatus

LEMMA WriterCases ==
  ASSUME StoreInv, WriterStep
  PROVE  /\ UNCHANGED <<born, mem, cache, call, prompts, current, clock>>
         /\ dbPrompts \subseteq dbPrompts'
         /\ \/ UNCHANGED <<dbStatus, dbFeedback>> /\ \E k \in Nat : Shrinks(k)
            \/ \E j \in Job : Carries(j)
<1>1. TypeOK /\ Len(batch) \in Nat /\ Len(Pending) \in Nat
  BY PendingType, LenProperties DEF StoreInv, TypeOK, PipelineType
<1>2. UNCHANGED <<born, mem, cache, call, prompts, current, clock>>
  BY DEF WriterStep, WriterAlone, WriterAnswered, TakeBatch, SkipBatch, EndBatch, Acquire, AcquireFails, SkipSentinel, WriteJob,
         DropJob, Release, ReleaseFails, NextJob, WriterOnly, procVars
<1>3. ASSUME TakeBatch \/ EndBatch \/ Acquire \/ SkipSentinel
      PROVE  UNCHANGED dbVars /\ \E k \in Nat : Shrinks(k)
  <2>1. CASE TakeBatch
    BY <1>1, <2>1, TakeBatchShrinks DEF TakeBatch
  <2>2. CASE EndBatch
    BY <1>1, <2>2, EndBatchShrinks DEF EndBatch
  <2>3. CASE Acquire
    <3>1. UNCHANGED Pending /\ UNCHANGED dbVars
      BY <2>3 DEF Acquire, Pending
    <3> QED
      BY <1>1, <3>1, SameShrinks
  <2>4. CASE SkipSentinel
    BY <1>1, <2>4, NextJobShrinks DEF SkipSentinel
  <2> QED
    BY <1>3, <2>1, <2>2, <2>3, <2>4
<1> DEFINE j == Head(batch)
<1>4. ASSUME NextJob PROVE j \in Job /\ j = Pending[1] /\ 1 \in 1..Len(Pending) /\ Shrinks(1)
  BY <1>1, <1>4, NextJobShrinks, PendingType
<1>5. ASSUME NextJob, Apply(j)
      PROVE  /\ dbPrompts \subseteq dbPrompts'
             /\ Carries(j) \/ UNCHANGED <<dbStatus, dbFeedback>>
  <2> HIDE DEF j
  <2> QED
    BY <1>4, <1>5 DEF Apply, Carries, UpsertThread
<1>6. CASE WriteJob
  BY <1>2, <1>4, <1>5, <1>6 DEF WriteJob
<1>7. CASE DropJob
  <2>1. /\ NextJob
        /\ UNCHANGED dbVars \/ ApplyInPart(j) \/ Apply(j)
    BY <1>7 DEF DropJob
  <2>2. /\ dbPrompts \subseteq dbPrompts'
        /\ Carries(j) \/ UNCHANGED <<dbStatus, dbFeedback>>
    <3> HIDE DEF j
    <3>1. CASE UNCHANGED dbVars
      BY <3>1 DEF dbVars
    <3>2. CASE ApplyInPart(j)
      BY <1>4, <2>1, <3>2 DEF ApplyInPart, Carries, UpsertThread
    <3> QED
      BY <1>5, <2>1, <3>1, <3>2
  <2> QED
    BY <1>2, <1>4, <2>1, <2>2
<1> QED
  BY <1>2, <1>3, <1>6, <1>7 DEF WriterStep, WriterAlone, WriterAnswered, SkipBatch, AcquireFails, Release, ReleaseFails, dbVars

\* What no caller offers: a prompt snapshot, or the sentinel.
LEMMA OtherCases ==
  ASSUME StoreInv,
         RegisterPrompt \/ Close \/ SentinelAccepted \/ Drained \/ DrainTimesOut \/ UNCHANGED vars
  PROVE  /\ UNCHANGED <<born, mem, cache, call, clock, dbVars>>
         /\ Remember(build) \/ UNCHANGED <<prompts, current>>
         /\ \/ Shrinks(0)
            \/ \E j \in Job : Grows(<<j>>) /\ j.kind \in {"snapshot", "shutdown"}
<1>1. TypeOK /\ build \in Hashes
  BY DEF StoreInv, TypeOK, ProcessType
<1>2. CASE RegisterPrompt
  <2>1. PICK j \in Job : j = SnapshotJob(build)
    BY <1>1, FixedJobTypes
  <2>2. j.kind = "snapshot"
    BY <2>1 DEF SnapshotJob
  <2>3. Grows(<<j>>)
    <3>1. <<j>> \in Seq(Job) /\ Enqueue(<<j>>) /\ UNCHANGED batch
      BY <1>2, <2>1 DEF RegisterPrompt, WriterIdles
    <3> QED
      BY <1>1, <3>1, EnqueueGrows
  <2> QED
    BY <1>2, <2>2, <2>3 DEF RegisterPrompt
<1>3. CASE Close \/ SentinelAccepted \/ Drained \/ DrainTimesOut
  <2>1. UNCHANGED <<born, mem, cache, call, clock, dbVars, prompts, current, batch>>
    BY <1>3 DEF Close, SentinelAccepted, Drained, DrainTimesOut, LifeOnly, procVars
  <2>2. CASE queue' = queue
    BY <1>1, <2>1, <2>2, SameShrinks DEF Pending
  <2>3. CASE queue' = Append(queue, Shutdown)
    <3>1. PICK j \in Job : j = Shutdown
      BY FixedJobTypes
    <3>2. j.kind = "shutdown" /\ Grows(<<j>>)
      <4>1. Grows(<<Shutdown>>)
        BY <1>1, <2>1, <2>3, CloseGrows
      <4> QED
        BY <3>1, <4>1 DEF Shutdown
    <3> QED
      BY <2>1, <3>2
  <2> QED
    BY <1>3, <2>2, <2>3 DEF Close, SentinelAccepted, Drained, DrainTimesOut
<1>4. CASE UNCHANGED vars
  <2>1. /\ UNCHANGED <<born, mem, cache, call, clock, dbVars, prompts, current>>
        /\ UNCHANGED Pending
    BY <1>4 DEF vars, procVars, pipeVars, Pending
  <2> QED
    BY <1>1, <2>1, SameShrinks
<1> QED
  BY <1>2, <1>3, <1>4

\* Where a pending job was before the step.
LEMMA PendingKept ==
  ASSUME TypeOK, NEW k \in Nat, Shrinks(k), NEW n \in 1..Len(Pending')
  PROVE  n + k \in 1..Len(Pending) /\ Pending'[n] = Pending[n + k] /\ Pending'[n] \in Job
<1>1. Len(Pending) \in Nat /\ \A m \in 1..Len(Pending) : Pending[m] \in Job
  BY PendingType
<1> QED
  BY <1>1 DEF Shrinks

LEMMA PendingGrown ==
  ASSUME TypeOK, NEW jobs \in Seq(Job), Grows(jobs), NEW n \in 1..Len(Pending')
  PROVE  /\ \/ n \in 1..Len(Pending) /\ Pending'[n] = Pending[n]
            \/ n > Len(Pending) /\ n - Len(Pending) \in 1..Len(jobs) /\ Pending'[n] = jobs[n - Len(Pending)]
         /\ Pending'[n] \in Job
<1>1. /\ Len(Pending) \in Nat /\ \A m \in 1..Len(Pending) : Pending[m] \in Job
      /\ Len(jobs) \in Nat /\ \A m \in 1..Len(jobs) : jobs[m] \in Job
  BY PendingType, LenProperties, ElementOfSeq
<1>2. PICK a \in Nat, b \in Nat, c \in Nat : a = Len(Pending) /\ b = Len(jobs) /\ c = Len(Pending')
  BY <1>1 DEF Grows
<1>3. c \in a..a + b
  BY <1>2, Zenon DEF Grows
<1>4. n \in 1..c
  BY <1>2, Zenon
<1>5. n \in 1..a \/ (n \in a + 1..c /\ n > a /\ n - a \in 1..b)
  BY <1>3, <1>4
<1>6. CASE n \in 1..a
  BY <1>1, <1>2, <1>6, Zenon DEF Grows
<1>7. CASE n \in a + 1..c /\ n > a /\ n - a \in 1..b
  <2>1. Pending'[n] = jobs[n - a]
    BY <1>2, <1>7, Zenon DEF Grows
  <2> QED
    BY <1>1, <1>2, <1>7, <2>1, Zenon
<1> QED
  BY <1>5, <1>6, <1>7, Zenon

\* What making a thread queues: nothing but the closing row and the new thread's row.
LEMMA MakesGrows ==
  ASSUME StoreInv, NEW r \in Callers, NEW s \in Sessions, NEW old \in 0..MaxThreads,
         NEW b \in BOOLEAN, Makes(r, s, old, b)
  PROVE  /\ Len(born) + 1 \in ThreadIds
         /\ \A i \in 1..Len(born) : born'[i] = born[i]
         /\ Len(born') = Len(born) + 1 /\ born'[Len(born) + 1].prompt = current
         /\ \E jobs \in Seq(Job) :
              /\ Enqueue(jobs) /\ Grows(jobs) /\ Len(jobs) \in 1..2
              /\ \A m \in 1..Len(jobs) :
                   /\ jobs[m].kind = "thread"
                   /\ \/ /\ jobs[m].thread = Len(born) + 1 /\ m = Len(jobs)
                         /\ jobs[m].status = "active" /\ jobs[m].prompt = current
                      \/ /\ b /\ jobs[m].thread = old /\ m = 1 /\ Len(jobs) = 2
                         /\ jobs[m].status = "resolved" /\ jobs[m].prompt = born[old].prompt
<1> DEFINE new == Len(born) + 1
<1>1. /\ TypeOK /\ Create(s, Closes(old, b)) /\ UNCHANGED batch
      /\ born \in Seq([session : Sessions, prompt : Prompt]) /\ Len(born) \in Nat /\ current \in Prompt
  BY LenProperties DEF StoreInv, TypeOK, ProcessType, Makes, HandsOut
<1>2. b => old \in 1..Len(born)
  BY DEF Makes
<1>3. Closes(old, b) \in Seq(Job)
  BY <1>1, <1>2, CloseJobs DEF Closes
<1>4. new \in ThreadIds /\ Len(born') = new
  BY <1>1, <1>3, CreateType
<1>5. /\ \A i \in 1..Len(born) : born'[i] = born[i]
      /\ born'[new].prompt = current
  <2>1. born' = Append(born, [session |-> s, prompt |-> current])
    BY <1>1 DEF Create
  <2> QED
    BY <1>1, <2>1, AppendProperties
<1>6. PICK c \in Job : c = ThreadJob(new, "active", current)
  <2>1. new \in 0..MaxThreads
    BY <1>4, StoreAssumption DEF ThreadIds
  <2> QED
    BY <1>1, <2>1, JobTypes, "active" \in Statuses
<1>7. c.kind = "thread" /\ c.thread = new /\ c.status = "active" /\ c.prompt = current
  BY <1>6 DEF ThreadJob
<1>8. Enqueue(Closes(old, b) \o <<c>>)
  BY <1>1, <1>6 DEF Create
<1>9. CASE b
  <2>1. Closes(old, b) = <<ThreadJob(old, "resolved", born[old].prompt)>>
    BY <1>9 DEF Closes
  <2>2. PICK d \in Job : d = ThreadJob(old, "resolved", born[old].prompt)
    <3>1. born[old] \in [session : Sessions, prompt : Prompt]
      BY <1>1, <1>2, <1>9, ElementOfSeq
    <3> QED
      BY <3>1, JobTypes, "resolved" \in Statuses
  <2>3. d.kind = "thread" /\ d.thread = old /\ d.status = "resolved" /\ d.prompt = born[old].prompt
    BY <2>2 DEF ThreadJob
  <2> DEFINE jobs == <<d>> \o <<c>>
  <2>4. /\ jobs \in Seq(Job) /\ Len(jobs) = 2
        /\ \A m \in 1..2 : (m = 1 /\ jobs[m] = d) \/ (m = 2 /\ jobs[m] = c)
    <3>1. <<d>> \in Seq(Job) /\ <<c>> \in Seq(Job) /\ Len(<<d>>) = 1 /\ Len(<<c>>) = 1
          /\ <<d>>[1] = d /\ <<c>>[1] = c
      OBVIOUS
    <3> QED
      BY <3>1, ConcatProperties
  <2>5. Enqueue(jobs) /\ Grows(jobs)
    BY <1>1, <1>8, <2>1, <2>2, <2>4, EnqueueGrows
  <2> HIDE DEF new, jobs
  <2>6. ASSUME NEW m \in 1..Len(jobs)
        PROVE  /\ jobs[m].kind = "thread"
               /\ \/ /\ jobs[m].thread = new /\ m = Len(jobs)
                     /\ jobs[m].status = "active" /\ jobs[m].prompt = current
                  \/ /\ b /\ jobs[m].thread = old /\ m = 1 /\ Len(jobs) = 2
                     /\ jobs[m].status = "resolved" /\ jobs[m].prompt = born[old].prompt
    BY <1>7, <1>9, <2>3, <2>4
  <2>7. Len(jobs) \in 1..2
    BY <2>4
  <2> QED
    BY <1>4, <1>5, <2>4, <2>5, <2>6, <2>7 DEF new
<1>10. CASE ~ b
  <2>1. Closes(old, b) \o <<c>> = <<c>> /\ <<c>> \in Seq(Job) /\ Len(<<c>>) = 1
    BY <1>10 DEF Closes
  <2>2. Enqueue(<<c>>) /\ Grows(<<c>>)
    BY <1>1, <1>8, <2>1, EnqueueGrows
  <2> DEFINE jobs == <<c>>
  <2>3. \A m \in 1..Len(jobs) : m = Len(jobs) /\ jobs[m] = c
    OBVIOUS
  <2>4. jobs \in Seq(Job) /\ Len(jobs) \in 1..2 /\ Enqueue(jobs) /\ Grows(jobs)
    BY <2>1, <2>2
  <2> HIDE DEF new, jobs
  <2> QED
    BY <1>4, <1>5, <1>7, <2>3, <2>4 DEF new
<1> QED
  BY <1>9, <1>10

\* A turn is queued with its thread's row, as the caller holds it.
LEMMA AppendGrows ==
  ASSUME StoreInv, NEW r \in Callers, AppendTurn(r)
  PROVE  /\ call[r].thread \in 1..Len(born) /\ call[r].thread \in ThreadIds /\ Served(call[r].thread)
         /\ UNCHANGED <<born, cache, call, prompts, current, dbVars>> /\ clock' = clock + 1
         /\ \A k \in ThreadIds : mem'[k].status = mem[k].status
         /\ \E j \in Job :
              /\ Enqueue(<<j>>) /\ Grows(<<j>>) /\ j.kind = "turn" /\ j.thread = call[r].thread
              /\ j.status = mem[call[r].thread].status /\ j.prompt = born[call[r].thread].prompt
<1> DEFINE i    == call[r].thread
           turn == [seq |-> NextSeq(i), at |-> clock + 1]
           job  == TurnJob(i, mem[i].status, born[i].prompt, turn)
<1>1. /\ TypeOK /\ i \in 1..Len(born) /\ i \in ThreadIds /\ i \in 0..MaxThreads
      /\ mem \in [ThreadIds -> Thread] /\ mem[i].last \in Nat /\ clock \in Nat /\ Served(i)
  BY HeldThread, SMTT(60) DEF StoreInv, TypeOK, ProcessType, AppendTurn
<1>2. /\ mem' = [mem EXCEPT ![i].turns = @ \cup {turn}, ![i].last = turn.seq]
      /\ Enqueue(<<job>>) /\ UNCHANGED batch
      /\ UNCHANGED <<born, cache, call, prompts, current, dbVars>> /\ clock' = clock + 1
  BY DEF AppendTurn, WriterIdles
<1>3. job \in Job
  <2>1. born[i] \in [session : Sessions, prompt : Prompt]
    <3> HIDE DEF i
    <3> QED
      BY <1>1, ElementOfSeq DEF TypeOK, ProcessType
  <2>2. turn.seq \in Nat /\ turn.at \in Nat /\ turn = [seq |-> turn.seq, at |-> turn.at]
    BY <1>1 DEF NextSeq
  <2> QED
    BY <1>1, <2>1, <2>2, JobTypes
<1>4. job.kind = "turn" /\ job.thread = i /\ job.status = mem[i].status /\ job.prompt = born[i].prompt
  BY DEF TurnJob
<1>5. \A k \in ThreadIds : mem'[k].status = mem[k].status
  <2> HIDE DEF i, turn
  <2> QED
    BY <1>1, <1>2
<1> HIDE DEF job
<1>6. Grows(<<job>>)
  <2>1. <<job>> \in Seq(Job)
    BY <1>3
  <2> QED
    BY <1>1, <1>2, <2>1, EnqueueGrows
<1> QED
  BY <1>1, <1>2, <1>3, <1>4, <1>5, <1>6

\* A rating is stamped later than everything before it.
LEMMA FeedbackGrows ==
  ASSUME StoreInv, NEW r \in Callers, RecordFeedback(r)
  PROVE  /\ UNCHANGED <<born, mem, cache, prompts, current, dbVars>> /\ clock' = clock + 1
         /\ call' = [call EXCEPT ![r] = IdleCall]
         /\ \E j \in Job : Enqueue(<<j>>) /\ Grows(<<j>>) /\ j.kind = "feedback" /\ j.at = clock'
<1> DEFINE i == call[r].thread
<1>1. /\ TypeOK /\ i \in 0..MaxThreads /\ mem[i].last \in Nat /\ clock + 1 \in Nat
  BY HeldThread DEF StoreInv, TypeOK, ProcessType, RecordFeedback
<1>2. PICK anchor \in Anchors \cup ({mem[i].last} \ {0}) :
        Enqueue(<<FeedbackJob(i, anchor, clock + 1)>>)
  BY DEF RecordFeedback
<1> DEFINE job == FeedbackJob(i, anchor, clock + 1)
<1>3. anchor \in Nat
  <2>1. Anchors \subseteq Nat
    BY StoreAssumption
  <2> HIDE DEF i
  <2> QED
    BY <1>1, <1>2, <2>1
<1>4. PICK c \in Job : c = job
  BY <1>1, <1>3, JobTypes, "absent" \in Statuses, StoreAssumption DEF Prompt
<1>5. c.kind = "feedback" /\ c.at = clock + 1
  BY <1>4 DEF FeedbackJob
<1>6. <<c>> \in Seq(Job) /\ Enqueue(<<c>>) /\ UNCHANGED batch
  BY <1>2, <1>4 DEF RecordFeedback, WriterIdles
<1>7. Grows(<<c>>)
  BY <1>1, <1>6, EnqueueGrows
<1> QED
  BY <1>5, <1>6, <1>7, SMTT(60) DEF RecordFeedback

-----------------------------------------------------------------------------
(* Ratings are stored in the order they were tapped.                       *)

LEMMA TapsShrink ==
  ASSUME TypeOK, Taps, NEW k \in Nat, Shrinks(k), UNCHANGED <<dbFeedback, clock>>
  PROVE  Taps'
<1>1. \A n \in 1..Len(Pending') :
        n + k \in 1..Len(Pending) /\ Pending'[n] = Pending[n + k] /\ Pending'[n] \in Job
  BY PendingKept
<1>2. \A m, n \in 1..Len(Pending') : m < n => m + k < n + k
  OBVIOUS
<1>3. \A n \in 1..Len(Pending') : IsRating(n)' =>
        /\ Pending[n + k].kind = "feedback" /\ Pending'[n].at = Pending[n + k].at
  BY <1>1 DEF IsRating
<1>4. \A n \in 1..Len(Pending') : IsRating(n)' => Pending'[n].at <= clock
  BY <1>1, <1>3 DEF Taps, IsRating
<1>5. ASSUME NEW m \in 1..Len(Pending'), NEW n \in 1..Len(Pending'), m < n, IsRating(m)', IsRating(n)'
      PROVE  Pending'[m].at <= Pending'[n].at
  <2>1. m + k \in 1..Len(Pending) /\ n + k \in 1..Len(Pending) /\ m + k < n + k
    BY <1>1, <1>2, <1>5
  <2>2. IsRating(m + k) /\ IsRating(n + k)
    BY <1>3, <1>5 DEF IsRating
  <2>3. Pending[m + k].at <= Pending[n + k].at
    BY <2>1, <2>2 DEF Taps
  <2> QED
    BY <1>3, <1>5, <2>3
<1>6. ASSUME NEW i \in ThreadIds, NEW x \in dbFeedback[i]
      PROVE  /\ x.at <= clock
             /\ \A n \in 1..Len(Pending') : IsRating(n)' => x.at <= Pending'[n].at
             /\ \A y \in dbFeedback[i] : x.seq = y.seq => x = y
  BY <1>1, <1>3, ZenonT(60) DEF Taps, IsRating
<1> QED
  BY <1>4, <1>5, <1>6 DEF Taps

LEMMA TapsGrow ==
  ASSUME TypeOK, Taps, NEW jobs \in Seq(Job), Grows(jobs), UNCHANGED dbFeedback,
         clock' \in Nat, clock <= clock',
         \A m \in 1..Len(jobs) : jobs[m].kind = "feedback" => Len(jobs) = 1 /\ jobs[m].at = clock'
  PROVE  Taps'
<1>1. clock \in Nat /\ Len(Pending) \in Nat /\ \A n \in 1..Len(Pending) : Pending[n] \in Job
  BY PendingType DEF TypeOK, ProcessType
<1>2. ASSUME NEW n \in 1..Len(Pending'), Pending'[n].kind = "feedback"
      PROVE  /\ \/ n \in 1..Len(Pending) /\ Pending'[n] = Pending[n] /\ Pending[n].at <= clock
                \/ n = Len(Pending) + 1 /\ Pending'[n].at = clock'
             /\ Pending'[n].at \in Nat
  <2>1. /\ \/ n \in 1..Len(Pending) /\ Pending'[n] = Pending[n]
           \/ n > Len(Pending) /\ n - Len(Pending) \in 1..Len(jobs) /\ Pending'[n] = jobs[n - Len(Pending)]
        /\ Pending'[n] \in Job
    BY PendingGrown
  <2>2. Pending'[n].at \in Nat
    BY <2>1 DEF Job
  <2>3. CASE n \in 1..Len(Pending) /\ Pending'[n] = Pending[n]
    BY <1>2, <2>2, <2>3 DEF Taps, IsRating
  <2>4. CASE n > Len(Pending) /\ n - Len(Pending) \in 1..Len(jobs) /\ Pending'[n] = jobs[n - Len(Pending)]
    <3>1. Len(jobs) = 1 /\ Pending'[n].at = clock'
      BY <1>2, <2>4
    <3>2. n = Len(Pending) + 1
      BY <1>1, <2>4, <3>1, SMTT(60)
    <3> QED
      BY <2>2, <3>1, <3>2
  <2> QED
    BY <2>1, <2>3, <2>4
<1>3. \A n \in 1..Len(Pending') : Pending'[n].kind = "feedback" => Pending'[n].at <= clock'
  BY <1>1, <1>2, SMTT(60)
<1>4. ASSUME NEW m \in 1..Len(Pending'), NEW n \in 1..Len(Pending'), m < n,
             Pending'[m].kind = "feedback", Pending'[n].kind = "feedback"
      PROVE  Pending'[m].at <= Pending'[n].at
  <2>1. CASE n \in 1..Len(Pending) /\ Pending'[n] = Pending[n]
    <3>1. m \in 1..Len(Pending) /\ Pending'[m] = Pending[m]
      BY <1>1, <1>2, <1>4, <2>1, SMTT(60)
    <3> QED
      BY <1>4, <2>1, <3>1 DEF Taps, IsRating
  <2>2. CASE Pending'[n].at = clock'
    BY <1>3, <1>4, <2>2
  <2> QED
    BY <1>2, <1>4, <2>1, <2>2
<1>5. ASSUME NEW i \in ThreadIds, NEW x \in dbFeedback[i]
      PROVE  /\ x.at <= clock'
             /\ \A n \in 1..Len(Pending') : Pending'[n].kind = "feedback" => x.at <= Pending'[n].at
             /\ \A y \in dbFeedback[i] : x.seq = y.seq => x = y
  <2>1. x.at \in Nat /\ x.at <= clock
    BY DEF Taps, TypeOK, DatabaseType
  <2>2. x.at <= clock'
    BY <1>1, <2>1
  <2>3. ASSUME NEW n \in 1..Len(Pending'), Pending'[n].kind = "feedback"
        PROVE  x.at <= Pending'[n].at
    <3>1. CASE n \in 1..Len(Pending) /\ Pending'[n] = Pending[n]
      BY <2>3, <3>1 DEF Taps, IsRating
    <3>2. CASE Pending'[n].at = clock'
      BY <2>2, <3>2
    <3> QED
      BY <1>2, <2>3, <3>1, <3>2
  <2>4. \A y \in dbFeedback[i] : x.seq = y.seq => x = y
    BY DEF Taps
  <2> QED
    BY <2>2, <2>3, <2>4
<1> QED
  BY <1>3, <1>4, <1>5 DEF Taps, IsRating

LEMMA TapsGrowOne ==
  ASSUME TypeOK, Taps, NEW j \in Job, Grows(<<j>>), UNCHANGED dbFeedback,
         clock' \in Nat, clock <= clock', j.kind = "feedback" => j.at = clock'
  PROVE  Taps'
<1> DEFINE jobs == <<j>>
<1>1. jobs \in Seq(Job) /\ Len(jobs) = 1 /\ \A m \in 1..Len(jobs) : jobs[m] = j
  OBVIOUS
<1>2. Grows(jobs)
  OBVIOUS
<1> HIDE DEF jobs
<1> QED
  BY <1>1, <1>2, TapsGrow

\* The rating at the head of what is pending is no older than any stored one.
LEMMA TapsCarry ==
  ASSUME TypeOK, Taps, NEW j \in Job, Carries(j), clock' = clock
  PROVE  /\ Taps'
         /\ \A i \in ThreadIds : \A x \in dbFeedback[i], y \in dbFeedback'[i] :
              x.seq = y.seq => x.at <= y.at
<1>1. /\ Shrinks(1) /\ 1 \in 1..Len(Pending) /\ Pending[1] = j /\ clock \in Nat
      /\ dbFeedback \in [ThreadIds -> SUBSET Stamped]
  BY DEF Carries, TypeOK, ProcessType, DatabaseType
<1>2. CASE UNCHANGED dbFeedback
  <2>1. \A i \in ThreadIds : \A x, y \in dbFeedback[i] : x.seq = y.seq => x.at <= y.at
    BY <1>1 DEF Taps
  <2> QED
    BY <1>1, <1>2, <2>1, TapsShrink
<1>3. CASE j.kind = "feedback" /\ UpsertFeedback(j)
  <2> DEFINE row == [seq |-> j.seq, at |-> j.at]
  <2>1. row.at = j.at /\ row.seq = j.seq /\ j.at \in Nat /\ j.at <= clock
    BY <1>1, <1>3 DEF Taps, IsRating, Job
  <2>2. ASSUME NEW n \in 1..Len(Pending'), Pending'[n].kind = "feedback"
        PROVE  /\ n + 1 \in 1..Len(Pending) /\ Pending'[n] = Pending[n + 1]
               /\ j.at <= Pending'[n].at
    <3>1. n + 1 \in 1..Len(Pending) /\ Pending'[n] = Pending[n + 1] /\ 1 < n + 1
      BY <1>1, PendingKept
    <3> QED
      BY <1>1, <1>3, <2>2, <3>1 DEF Taps, IsRating
  <2>3. ASSUME NEW i \in ThreadIds, NEW y \in dbFeedback'[i]
        PROVE  (y \in dbFeedback[i] /\ (i # j.thread \/ y.seq # j.seq)) \/ (y = row /\ i = j.thread)
    BY <1>1, <1>3 DEF UpsertFeedback
  <2>4. ASSUME NEW m \in 1..Len(Pending'), NEW n \in 1..Len(Pending'), m < n,
               Pending'[m].kind = "feedback", Pending'[n].kind = "feedback"
        PROVE  Pending'[m].at <= Pending'[n].at /\ Pending'[m].at <= clock
    <3>1. m + 1 < n + 1
      BY <2>4
    <3> QED
      BY <2>2, <2>4, <3>1 DEF Taps, IsRating
  <2>5. ASSUME NEW i \in ThreadIds, NEW x \in dbFeedback'[i]
        PROVE  /\ x.at <= clock
               /\ \A n \in 1..Len(Pending') : Pending'[n].kind = "feedback" => x.at <= Pending'[n].at
               /\ \A y \in dbFeedback'[i] : x.seq = y.seq => x = y
    <3>1. CASE x = row /\ i = j.thread
      BY <2>1, <2>2, <2>3, <3>1
    <3>2. CASE x \in dbFeedback[i] /\ (i # j.thread \/ x.seq # j.seq)
      BY <2>1, <2>2, <2>3, <3>2 DEF Taps, IsRating
    <3> QED
      BY <2>3, <2>5, <3>1, <3>2
  <2>6. ASSUME NEW n \in 1..Len(Pending'), Pending'[n].kind = "feedback" PROVE Pending'[n].at <= clock
    BY <2>2, <2>6 DEF Taps, IsRating
  <2>7. Taps'
    BY <2>4, <2>5, <2>6 DEF Taps, IsRating
  <2>8. ASSUME NEW i \in ThreadIds, NEW x \in dbFeedback[i], NEW y \in dbFeedback'[i], x.seq = y.seq
        PROVE  x.at <= y.at
    <3>1. CASE y \in dbFeedback[i]
      <4>1. x = y /\ x.at \in Nat
        BY <1>1, <2>8, <3>1 DEF Taps
      <4> QED
        BY <4>1
    <3>2. CASE y = row
      <4>1. x.at <= Pending[1].at
        BY <1>1, <1>3 DEF Taps, IsRating
      <4> QED
        BY <1>1, <2>1, <3>2, <4>1
    <3> QED
      BY <2>3, <2>8, <3>1, <3>2
  <2> QED
    BY <2>7, <2>8
<1> QED
  BY <1>2, <1>3 DEF Carries

LEMMA TapsStep ==
  ASSUME StoreInv, Taps, [Next]_vars
  PROVE  /\ Taps'
         /\ \A i \in ThreadIds : \A x \in dbFeedback[i], y \in dbFeedback'[i] :
              x.seq = y.seq => x.at <= y.at
<1>1. TypeOK /\ clock \in Nat
  BY DEF StoreInv, TypeOK, ProcessType
<1>2. ASSUME Taps', UNCHANGED dbFeedback PROVE
        \A i \in ThreadIds : \A x \in dbFeedback[i], y \in dbFeedback'[i] : x.seq = y.seq => x.at <= y.at
  <2>1. ASSUME NEW i \in ThreadIds, NEW x \in dbFeedback[i], NEW y \in dbFeedback[i], x.seq = y.seq
        PROVE  x.at <= y.at
    <3>1. x = y /\ x.at \in Nat
      BY <1>1, <2>1 DEF Taps, TypeOK, DatabaseType
    <3> QED
      BY <3>1
  <2> QED
    BY <1>2, <2>1
<1>3. CASE WriterStep
  BY <1>1, <1>2, <1>3, WriterCases, TapsShrink, TapsCarry
<1>4. CASE RegisterPrompt \/ Close \/ SentinelAccepted \/ Drained \/ DrainTimesOut \/ UNCHANGED vars
  <2>1. UNCHANGED <<clock, dbFeedback>>
    BY <1>4, OtherCases DEF dbVars
  <2>2. CASE Shrinks(0)
    BY <1>1, <1>2, <2>1, <2>2, TapsShrink
  <2>3. ASSUME NEW j \in Job, Grows(<<j>>), j.kind \in {"snapshot", "shutdown"}
        PROVE  Taps'
    BY <1>1, <2>1, <2>3, TapsGrowOne
  <2> QED
    BY <1>2, <1>4, <2>1, <2>2, <2>3, OtherCases
<1>5. CASE Restart
  <2>1. Len(Pending') = 0 /\ UNCHANGED <<clock, dbFeedback>>
    BY <1>5 DEF Restart, Pending, dbVars
  <2>2. Taps'
    BY <2>1 DEF Taps
  <2> QED
    BY <1>2, <2>1, <2>2
<1>6. ASSUME NEW r \in Callers, CallerStep(r) PROVE Taps' /\ UNCHANGED dbFeedback
  <2>1. CASE Looks(r) \/ Copies(r)
    <3>1. UNCHANGED Pending /\ UNCHANGED <<clock, dbFeedback>>
      BY <2>1, SMTT(60) DEF Looks, Copies, HandsOut, Pending, dbVars
    <3> QED
      BY <1>1, <3>1, SameShrinks, TapsShrink
  <2>2. CASE AppendTurn(r)
    <3>1. PICK j \in Job : Grows(<<j>>) /\ j.kind = "turn"
      BY <2>2, AppendGrows, SMTT(60)
    <3>2. clock' = clock + 1 /\ UNCHANGED dbFeedback
      BY <2>2, AppendGrows DEF dbVars
    <3> QED
      BY <1>1, <3>1, <3>2, TapsGrowOne
  <2>3. CASE RecordFeedback(r)
    <3>1. PICK j \in Job : Grows(<<j>>) /\ j.at = clock'
      BY <2>3, FeedbackGrows
    <3>2. clock' = clock + 1 /\ UNCHANGED dbFeedback
      BY <2>3, FeedbackGrows DEF dbVars
    <3> QED
      BY <1>1, <3>1, <3>2, TapsGrowOne
  <2>4. ASSUME NEW s \in Sessions, NEW old \in 0..MaxThreads, NEW b \in BOOLEAN, Makes(r, s, old, b)
        PROVE  Taps' /\ UNCHANGED dbFeedback
    <3>1. PICK jobs \in Seq(Job) : Grows(jobs) /\ \A m \in 1..Len(jobs) : jobs[m].kind = "thread"
      BY <2>4, MakesGrows
    <3>2. UNCHANGED <<clock, dbFeedback>>
      BY <2>4 DEF Makes, HandsOut, dbVars
    <3> QED
      BY <1>1, <3>1, <3>2, TapsGrow
  <2> QED
    BY <1>6, <2>1, <2>2, <2>3, <2>4, CallerCases
<1> QED
  BY <1>2, <1>3, <1>4, <1>5, <1>6 DEF Next

LEMMA InitTaps == Init => Taps
<1> SUFFICES ASSUME Init PROVE Taps
  OBVIOUS
<1>1. Len(Pending) = 0 /\ \A i \in ThreadIds : dbFeedback[i] = {}
  BY DEF Init, Pending
<1> QED
  BY <1>1 DEF Taps

\* A stored rating is never replaced by one tapped before it, whatever is lost or restarted.
THEOREM LastTap == Spec => LastTapWins
<1>1. StoreInv /\ Taps /\ [Next]_vars => Taps'
  BY TapsStep
<1>2. Spec => []Taps
  BY InitTaps, <1>1, StoreInvariant, PTL DEF Spec
<1>3. StoreInv /\ Taps /\ [Next]_vars =>
        [\A i \in ThreadIds : \A x \in dbFeedback[i], y \in dbFeedback'[i] :
           x.seq = y.seq => x.at <= y.at]_vars
  BY TapsStep
<1> QED
  BY <1>2, <1>3, StoreInvariant, PTL DEF Spec, LastTapWins

-----------------------------------------------------------------------------
(* The prompt of every pending row can be stored.                          *)

Keyed(j) ==
  j.kind \in {"thread", "turn"} => j.prompt = born[j.thread].prompt /\ j.prompt \in Storable

\* A pending job was pending before the step, or it is one of the new ones.
LEMMA OldOrNew ==
  ASSUME TypeOK,
         \/ \E k \in Nat : Shrinks(k)
         \/ \E jobs \in Seq(Job) : Grows(jobs) /\ \A m \in 1..Len(jobs) : Keyed(jobs[m])'
  PROVE  \A n \in 1..Len(Pending') :
           (\E m \in 1..Len(Pending) : Pending'[n] = Pending[m]) \/ Keyed(Pending[n])'
<1>1. ASSUME NEW k \in Nat, Shrinks(k), NEW n \in 1..Len(Pending')
      PROVE  \E m \in 1..Len(Pending) : Pending'[n] = Pending[m]
  BY <1>1, PendingKept
<1>2. ASSUME NEW jobs \in Seq(Job), Grows(jobs), \A m \in 1..Len(jobs) : Keyed(jobs[m])',
             NEW n \in 1..Len(Pending')
      PROVE  (\E m \in 1..Len(Pending) : Pending'[n] = Pending[m]) \/ Keyed(Pending[n])'
  <2>1. \/ n \in 1..Len(Pending) /\ Pending'[n] = Pending[n]
        \/ n - Len(Pending) \in 1..Len(jobs) /\ Pending'[n] = jobs[n - Len(Pending)]
    BY <1>2, PendingGrown
  <2> QED
    BY <1>2, <2>1 DEF Keyed
<1> QED
  BY <1>1, <1>2

LEMMA KeysKept ==
  ASSUME StoreInv, Keys, TypeOK', dbPrompts \subseteq dbPrompts', prompts \subseteq prompts',
         current' \in prompts' \cup {NoHash},
         \A i \in 1..Len(born) : born'[i] = born[i],
         \A i \in 1..Len(born') :
           /\ Served(i)' => (i \in 1..Len(born) /\ (Served(i) \/ dbStatus[i] # "absent"))
                              \/ born'[i].prompt \in Storable'
           /\ dbStatus'[i] # "absent" => (i \in 1..Len(born) /\ dbStatus[i] # "absent")
                                           \/ born'[i].prompt \in Stored',
         \A n \in 1..Len(Pending') :
           (\E m \in 1..Len(Pending) : Pending'[n] = Pending[m]) \/ Keyed(Pending[n])',
         \A r \in Callers : call'[r].pc \in {"turns", "install"} /\ call'[r].thread # 0 =>
           \/ call[r].pc \in {"turns", "install"} /\ call'[r].thread = call[r].thread
           \/ call'[r].thread \in 1..Len(born) /\ dbStatus[call'[r].thread] # "absent"
  PROVE  Keys'
<1>1. Stored \subseteq Stored' /\ Stored \subseteq Storable' /\ Storable \subseteq Storable'
  BY DEF Stored, Storable
<1>2. ASSUME NEW i \in 1..Len(born')
      PROVE  /\ Served(i)' => born'[i].prompt \in Storable'
             /\ dbStatus'[i] # "absent" => born'[i].prompt \in Stored'
  <2>1. i \in 1..Len(born) =>
          /\ Served(i) \/ dbStatus[i] # "absent" => born'[i].prompt \in Storable'
          /\ dbStatus[i] # "absent" => born'[i].prompt \in Stored'
    BY <1>1 DEF Keys
  <2> QED
    BY <2>1
<1>3. ASSUME NEW n \in 1..Len(Pending'), Pending'[n].kind \in {"thread", "turn"}
      PROVE  Pending'[n].prompt = born'[Pending'[n].thread].prompt /\ Pending'[n].prompt \in Storable'
  <2>1. ASSUME NEW m \in 1..Len(Pending), Pending'[n] = Pending[m]
        PROVE  Pending'[n].prompt = born'[Pending'[n].thread].prompt /\ Pending'[n].prompt \in Storable'
    <3>1. /\ JobSound(Pending[m]) /\ Pending[m] \in Job /\ Pending[m].kind \in {"thread", "turn"}
          /\ Pending[m].prompt = born[Pending[m].thread].prompt /\ Pending[m].prompt \in Storable
      BY <1>3, <2>1, PendingType DEF StoreInv, JobsSound, Keys, IsRowJob
    <3>2. Pending[m].thread \in 1..Len(born)
      <4>1. Pending[m].thread <= Len(born) /\ Pending[m].thread # 0
        BY <3>1 DEF JobSound
      <4>2. Len(born) \in Nat
        BY LenProperties DEF StoreInv, TypeOK, ProcessType
      <4> QED
        BY <3>1, <4>1, <4>2, StoreAssumption DEF Job
    <3>3. born'[Pending[m].thread] = born[Pending[m].thread]
      BY <1>1, <3>2
    <3>4. Pending[m].prompt \in Storable'
      BY <1>1, <3>1
    <3> QED
      BY <2>1, <3>1, <3>3, <3>4
  <2> QED
    BY <1>3, <2>1 DEF Keyed
<1>4. ASSUME NEW r \in Callers, call'[r].pc \in {"turns", "install"}, call'[r].thread # 0
      PROVE  born'[call'[r].thread].prompt \in Stored'
  <2>1. call'[r].thread \in 1..Len(born) /\ born[call'[r].thread].prompt \in Stored
    <3>1. CASE call[r].pc \in {"turns", "install"} /\ call'[r].thread = call[r].thread
      <4>1. call[r].thread \in 0..MaxThreads /\ call[r].thread <= Len(born)
        BY DEF StoreInv, TypeOK, ProcessType, IdsBorn, Call
      <4>2. born[call[r].thread].prompt \in Stored
        BY <1>4, <3>1 DEF Keys
      <4> QED
        BY <1>4, <3>1, <4>1, <4>2, LenProperties DEF StoreInv, TypeOK, ProcessType
    <3>2. CASE call'[r].thread \in 1..Len(born) /\ dbStatus[call'[r].thread] # "absent"
      BY <3>2 DEF Keys
    <3> QED
      BY <1>4, <3>1, <3>2
  <2> QED
    BY <1>1, <2>1
<1> QED
  BY <1>2, <1>3, <1>4 DEF Keys, IsRowJob

LEMMA KeysStep ==
  ASSUME StoreInv, Keys, [Next]_vars
  PROVE  Keys'
<1>1. TypeOK /\ TypeOK' /\ StoreInv' /\ current \in prompts \cup {NoHash} /\ Len(born) \in Nat
  BY StepStore, LenProperties DEF StoreInv, Keys, TypeOK, ProcessType
<1>2. CASE WriterStep
  <2>1. /\ UNCHANGED <<born, mem, cache, call, prompts, current>> /\ dbPrompts \subseteq dbPrompts'
        /\ \/ UNCHANGED dbStatus /\ \E k \in Nat : Shrinks(k)
           \/ \E j \in Job : Carries(j)
    BY <1>2, WriterCases
  <2>2. \E k \in Nat : Shrinks(k)
    BY <2>1 DEF Carries
  <2>3. \A n \in 1..Len(Pending') :
          (\E m \in 1..Len(Pending) : Pending'[n] = Pending[m]) \/ Keyed(Pending[n])'
    BY <1>1, <2>2, OldOrNew
  <2>4. ASSUME NEW i \in 1..Len(born'), dbStatus'[i] # "absent"
        PROVE  (i \in 1..Len(born) /\ dbStatus[i] # "absent") \/ born'[i].prompt \in Stored'
    <3>1. CASE UNCHANGED dbStatus
      BY <2>1, <2>4, <3>1
    <3>2. ASSUME NEW j \in Job, Carries(j), j.kind \in {"thread", "turn"},
                 dbStatus' = [dbStatus EXCEPT ![j.thread] = j.status],
                 j.prompt \in dbPrompts' \cup {NoHash}
          PROVE  dbStatus[i] # "absent" \/ born'[i].prompt \in Stored'
      <4>1. j.prompt = born[j.thread].prompt
        BY <3>2 DEF Carries, Keys, IsRowJob
      <4>2. i \in ThreadIds /\ dbStatus \in [ThreadIds -> Statuses]
        BY <1>1, <2>1, StoreAssumption DEF TypeOK, DatabaseType, ProcessType, ThreadIds
      <4>3. i # j.thread => dbStatus'[i] = dbStatus[i]
        BY <3>2, <4>2
      <4> QED
        BY <2>1, <2>4, <3>2, <4>1, <4>3 DEF Stored
    <3> QED
      BY <2>1, <3>1, <3>2 DEF Carries
  <2> QED
    BY <1>1, <2>1, <2>3, <2>4, KeysKept DEF Served
<1>3. CASE RegisterPrompt \/ Close \/ SentinelAccepted \/ Drained \/ DrainTimesOut \/ UNCHANGED vars
  <2>1. /\ UNCHANGED <<born, mem, cache, call, dbStatus, dbPrompts>>
        /\ prompts \subseteq prompts' /\ current' \in prompts' \cup {NoHash}
    BY <1>1, <1>3, OtherCases DEF dbVars, Remember
  <2>2. \/ \E k \in Nat : Shrinks(k)
        \/ \E jobs \in Seq(Job) : Grows(jobs) /\ \A m \in 1..Len(jobs) : Keyed(jobs[m])'
    <3>1. CASE Shrinks(0)
      BY <3>1
    <3>2. ASSUME NEW j \in Job, Grows(<<j>>), j.kind \in {"snapshot", "shutdown"}
          PROVE  \E jobs \in Seq(Job) : Grows(jobs) /\ \A m \in 1..Len(jobs) : Keyed(jobs[m])'
      <4> DEFINE jobs == <<j>>
      <4>1. jobs \in Seq(Job) /\ Grows(jobs) /\ \A m \in 1..Len(jobs) : jobs[m] = j
        BY <3>2
      <4> HIDE DEF jobs
      <4>2. \A m \in 1..Len(jobs) : Keyed(jobs[m])'
        BY <3>2, <4>1 DEF Keyed
      <4> QED
        BY <4>1, <4>2
    <3> QED
      BY <1>3, <3>1, <3>2, OtherCases
  <2>3. \A n \in 1..Len(Pending') :
          (\E m \in 1..Len(Pending) : Pending'[n] = Pending[m]) \/ Keyed(Pending[n])'
    BY <1>1, <2>2, OldOrNew
  <2> QED
    BY <1>1, <2>1, <2>3, KeysKept DEF Served
<1>4. CASE Restart
  <2>1. /\ Len(Pending') = 0 /\ UNCHANGED <<born, dbStatus, dbPrompts>> /\ current' = NoHash
        /\ \A i \in ThreadIds : mem'[i].status = "absent"
        /\ \A r \in Callers : call'[r].pc = "idle"
    BY <1>4 DEF Restart, Pending, dbVars, NoThread, IdleCall
  <2>2. \A i \in 1..Len(born) : i \in ThreadIds
    BY <1>1, StoreAssumption DEF TypeOK, ProcessType, ThreadIds
  <2> QED
    BY <2>1, <2>2 DEF Keys, Served, Stored
<1>5. ASSUME NEW r \in Callers, CallerStep(r) PROVE Keys'
  <2>1. CASE Looks(r)
    <3>1. /\ UNCHANGED <<born, mem, cache, prompts, current, dbStatus, dbPrompts>> /\ UNCHANGED Pending
      BY <2>1 DEF Looks, dbVars, Pending
    <3>2. \A q \in Callers : call'[q].pc \in {"turns", "install"} /\ call'[q].thread # 0 =>
            \/ call[q].pc \in {"turns", "install"} /\ call'[q].thread = call[q].thread
            \/ call'[q].thread \in 1..Len(born) /\ dbStatus[call'[q].thread] # "absent"
      BY <2>1 DEF Looks, IsNewestRow
    <3> QED
      BY <1>1, <3>1, <3>2, KeysKept DEF Served
  <2>2. CASE Copies(r)
    <3>1. /\ UNCHANGED <<born, prompts, current, dbStatus, dbPrompts>> /\ UNCHANGED Pending
          /\ call[r].pc = "install" /\ call[r].thread \in 1..Len(born)
          /\ mem' = [mem EXCEPT ![call[r].thread] = call[r].found]
          /\ cache[call[r].session] = 0
      BY <2>2 DEF Copies, HandsOut, dbVars, Pending
    <3>2. \A q \in Callers : call'[q] = call[q] \/ call'[q].pc = "hold"
      BY <1>1, <2>2 DEF Copies, HandsOut, Resume, Holding, TypeOK, ProcessType
    <3>3. dbStatus[call[r].thread] # "absent"
      BY <3>1 DEF StoreInv, ReadsCurrent, ReadCurrent, IsNewestRow
    <3>4. \A i \in 1..Len(born) : i # call[r].thread => mem'[i] = mem[i]
      <4>1. \A i \in 1..Len(born) : i \in ThreadIds
        BY <1>1, StoreAssumption DEF TypeOK, ProcessType, ThreadIds
      <4> HIDE DEF Thread
      <4> QED
        BY <1>1, <3>1, <4>1 DEF TypeOK, ProcessType
    <3> QED
      BY <1>1, <3>1, <3>2, <3>3, <3>4, KeysKept DEF Served
  <2>3. CASE AppendTurn(r)
    <3> DEFINE i == call[r].thread
    <3>1. /\ i \in 1..Len(born) /\ i \in ThreadIds /\ Served(i)
          /\ UNCHANGED <<born, cache, call, prompts, current, dbStatus, dbPrompts>>
          /\ \A k \in ThreadIds : mem'[k].status = mem[k].status
      BY <2>3, AppendGrows DEF dbVars
    <3>2. PICK j \in Job : Grows(<<j>>) /\ j.thread = i /\ j.prompt = born[i].prompt
      BY <2>3, AppendGrows
    <3> HIDE DEF i
    <3>3. Keyed(j)'
      BY <3>1, <3>2 DEF Keyed, Keys, Storable, Stored
    <3> DEFINE jobs == <<j>>
    <3>4. jobs \in Seq(Job) /\ Grows(jobs) /\ \A m \in 1..Len(jobs) : jobs[m] = j
      BY <3>2
    <3> HIDE DEF jobs
    <3>5. \A m \in 1..Len(jobs) : Keyed(jobs[m])'
      BY <3>3, <3>4 DEF Keyed
    <3>6. \A n \in 1..Len(Pending') :
            (\E m \in 1..Len(Pending) : Pending'[n] = Pending[m]) \/ Keyed(Pending[n])'
      BY <1>1, <3>4, <3>5, OldOrNew
    <3>7. \A k \in 1..Len(born) : k \in ThreadIds
      BY <1>1, StoreAssumption DEF TypeOK, ProcessType, ThreadIds
    <3> QED
      BY <1>1, <3>1, <3>6, <3>7, KeysKept DEF Served
  <2>4. CASE RecordFeedback(r)
    <3>1. /\ UNCHANGED <<born, mem, cache, prompts, current, dbStatus, dbPrompts>>
          /\ call' = [call EXCEPT ![r] = IdleCall]
      BY <2>4, FeedbackGrows DEF dbVars
    <3>2. PICK j \in Job : Grows(<<j>>) /\ j.kind = "feedback"
      BY <2>4, FeedbackGrows
    <3> DEFINE jobs == <<j>>
    <3>3. jobs \in Seq(Job) /\ Grows(jobs) /\ \A m \in 1..Len(jobs) : jobs[m] = j
      BY <3>2
    <3> HIDE DEF jobs
    <3>4. \A m \in 1..Len(jobs) : Keyed(jobs[m])'
      BY <3>2, <3>3 DEF Keyed
    <3>5. \A n \in 1..Len(Pending') :
            (\E m \in 1..Len(Pending) : Pending'[n] = Pending[m]) \/ Keyed(Pending[n])'
      BY <1>1, <3>3, <3>4, OldOrNew
    <3>6. \A q \in Callers : call'[q] = call[q] \/ call'[q].pc = "idle"
      BY <1>1, <3>1 DEF IdleCall, TypeOK, ProcessType
    <3> QED
      BY <1>1, <3>1, <3>5, <3>6, KeysKept DEF Served
  <2>5. ASSUME NEW s \in Sessions, NEW old \in 0..MaxThreads, NEW b \in BOOLEAN, Makes(r, s, old, b)
        PROVE  Keys'
    <3> DEFINE new == Len(born) + 1
    <3>1. /\ new \in ThreadIds /\ \A i \in 1..Len(born) : born'[i] = born[i]
          /\ Len(born') = new /\ born'[new].prompt = current
      BY <2>5, MakesGrows
    <3>2. PICK jobs \in Seq(Job) :
            /\ Grows(jobs)
            /\ \A m \in 1..Len(jobs) :
                 \/ jobs[m].thread = new /\ jobs[m].prompt = current
                 \/ b /\ jobs[m].thread = old /\ jobs[m].prompt = born[old].prompt
      BY <2>5, MakesGrows
    <3>3. /\ UNCHANGED <<prompts, current, dbStatus, dbPrompts>>
          /\ b => old \in 1..Len(born) /\
                  (Served(old) \/ (call[r].pc = "install" /\ call[r].thread = old))
          /\ \A k \in ThreadIds : k # new => (mem'[k].status # "absent" => Served(k))
      BY <2>5 DEF Makes, HandsOut, dbVars, Served
    <3>4. b => born[old].prompt \in Storable
      <4>1. b /\ ~ Served(old) => born[old].prompt \in Stored
        BY <1>1, <3>3 DEF Keys
      <4> QED
        BY <3>3, <4>1 DEF Keys, Stored, Storable
    <3>5. current' \in Storable'
      BY <1>1, <3>3 DEF Storable, Stored
    <3> HIDE DEF new
    <3>6. \A m \in 1..Len(jobs) : Keyed(jobs[m])'
      BY <3>1, <3>2, <3>3, <3>4, <3>5, SMTT(60) DEF Keyed, Storable, Stored
    <3>7. \A n \in 1..Len(Pending') :
            (\E m \in 1..Len(Pending) : Pending'[n] = Pending[m]) \/ Keyed(Pending[n])'
      BY <1>1, <3>2, <3>6, OldOrNew
    <3>8. \A q \in Callers : call'[q] = call[q] \/ call'[q].pc = "hold"
      BY <1>1, <2>5 DEF Makes, HandsOut, Resume, Holding, TypeOK, ProcessType
    <3>9. ASSUME NEW i \in 1..Len(born')
          PROVE  /\ Served(i)' => (i \in 1..Len(born) /\ (Served(i) \/ dbStatus[i] # "absent"))
                                    \/ born'[i].prompt \in Storable'
                 /\ dbStatus'[i] # "absent" => (i \in 1..Len(born) /\ dbStatus[i] # "absent")
                                                 \/ born'[i].prompt \in Stored'
      <4>1. CASE i = new
        <5>1. dbStatus'[i] = "absent"
          BY <1>1, <3>1, <3>3, <4>1 DEF StoreInv, UnbornBlank, Blank, new
        <5> QED
          BY <3>1, <3>3, <3>5, <4>1, <5>1 DEF Storable, Stored
      <4>2. CASE i # new
        <5>1. i \in 1..Len(born) /\ i \in ThreadIds
          <6>1. Len(born) \in Nat /\ Len(born) <= MaxThreads /\ Len(born') = Len(born) + 1
            BY <1>1, <3>1 DEF new, TypeOK, ProcessType
          <6>2. i # Len(born) + 1
            BY <4>2 DEF new
          <6> QED
            BY <6>1, <6>2, StoreAssumption DEF ThreadIds
        <5> QED
          BY <3>3, <4>2, <5>1 DEF Served
      <4> QED
        BY <4>1, <4>2
    <3> QED
      BY <1>1, <3>1, <3>3, <3>7, <3>8, <3>9, KeysKept
  <2> QED
    BY <1>5, <2>1, <2>2, <2>3, <2>4, <2>5, CallerCases
<1> QED
  BY <1>2, <1>3, <1>4, <1>5 DEF Next

LEMMA InitKeys == Init => Keys
<1> SUFFICES ASSUME Init PROVE Keys
  OBVIOUS
<1>1. Len(Pending) = 0 /\ Len(born) = 0
  BY DEF Init, Pending
<1> QED
  BY <1>1 DEF Init, Keys, IdleCall

\* No pending thread or turn write can fail on its prompt's foreign key.
THEOREM KeysHeal == Spec => []KeysHealable
<1>1. StoreInv /\ Keys /\ [Next]_vars => Keys'
  BY KeysStep
<1>2. Keys => KeysHealable
  BY DEF Keys, KeysHealable, KeyHolds, IsRowJob, Storable, Stored
<1> QED
  BY InitKeys, <1>1, <1>2, StoreInvariant, PTL DEF Spec

-----------------------------------------------------------------------------
(* A closed thread stays closed, when every reset starts from the cached thread. *)

\* The thread of a pending row is a thread that was made, and its session is warm.
LEMMA RowThread ==
  ASSUME StoreInv, NEW n \in 1..Len(Pending), IsRowJob(n)
  PROVE  /\ Pending[n].thread \in 1..Len(born) /\ Pending[n].thread \in ThreadIds
         /\ cache[OwnerOf(Pending[n].thread)] # 0 /\ Pending[n].status \in Statuses
<1>1. JobSound(Pending[n]) /\ Pending[n] \in Job /\ Len(born) \in Nat /\ Len(born) <= MaxThreads
  BY PendingType, LenProperties DEF StoreInv, JobsSound, TypeOK, ProcessType
<1>2. /\ Pending[n].thread # 0 /\ Pending[n].thread <= Len(born)
      /\ cache[OwnerOf(Pending[n].thread)] # 0
  BY <1>1 DEF JobSound, IsRowJob
<1>3. Pending[n].thread \in 0..MaxThreads /\ Pending[n].status \in Statuses
  BY <1>1 DEF Job
<1> QED
  BY <1>1, <1>2, <1>3, StoreAssumption DEF ThreadIds

LEMMA ClosingShrinks ==
  ASSUME StoreInv, Closing, UNCHANGED <<born, mem, cache, call>>,
         \/ UNCHANGED dbStatus /\ \E k \in Nat : Shrinks(k)
         \/ \E j \in Job : Carries(j)
  PROVE  /\ Closing'
         /\ \A i \in ThreadIds : dbStatus[i] = "resolved" => dbStatus'[i] = "resolved"
<1>1. TypeOK /\ dbStatus \in [ThreadIds -> Statuses]
  BY DEF StoreInv, TypeOK, DatabaseType
<1>2. ASSUME NEW k \in Nat, Shrinks(k), NEW m \in 1..Len(Pending'), NEW n \in 1..Len(Pending'),
             m < n, Pending'[m].kind \in {"thread", "turn"}, Pending'[n].kind \in {"thread", "turn"},
             Pending'[m].thread = Pending'[n].thread, Pending'[m].status = "resolved"
      PROVE  Pending'[n].status = "resolved"
  <2>1. /\ m + k \in 1..Len(Pending) /\ Pending'[m] = Pending[m + k]
        /\ n + k \in 1..Len(Pending) /\ Pending'[n] = Pending[n + k] /\ m + k < n + k
    BY <1>1, <1>2, PendingKept, SMTT(60)
  <2> QED
    BY <1>2, <2>1, ZenonT(60) DEF Closing, IsRowJob
<1>3. ASSUME NEW k \in Nat, Shrinks(k), UNCHANGED dbStatus PROVE Closing'
  <2>1. ASSUME NEW n \in 1..Len(Pending'), Pending'[n].kind \in {"thread", "turn"}
        PROVE  /\ Pending'[n].status = "resolved" => mem[Pending'[n].thread].status # "active"
               /\ dbStatus[Pending'[n].thread] = "resolved" => Pending'[n].status = "resolved"
    <3>1. n + k \in 1..Len(Pending) /\ Pending'[n] = Pending[n + k]
      BY <1>1, <1>3, PendingKept
    <3> QED
      BY <2>1, <3>1 DEF Closing, IsRowJob
  <2> QED
    BY <1>2, <1>3, <2>1 DEF Closing, IsRowJob
<1>4. ASSUME NEW j \in Job, Carries(j), j.kind \in {"thread", "turn"},
             dbStatus' = [dbStatus EXCEPT ![j.thread] = j.status]
      PROVE  /\ Closing'
             /\ \A i \in ThreadIds : dbStatus[i] = "resolved" => dbStatus'[i] = "resolved"
  <2>1. /\ Shrinks(1) /\ 1 \in 1..Len(Pending) /\ Pending[1] = j /\ IsRowJob(1)
        /\ j.thread \in ThreadIds /\ cache[OwnerOf(j.thread)] # 0
    BY <1>4, RowThread DEF Carries, IsRowJob
  <2>2. \A i \in ThreadIds : dbStatus'[i] = IF i = j.thread THEN j.status ELSE dbStatus[i]
    BY <1>1, <1>4
  <2>3. /\ j.status = "resolved" => mem[j.thread].status # "active"
        /\ dbStatus[j.thread] = "resolved" => j.status = "resolved"
    BY <2>1 DEF Closing
  <2>4. ASSUME NEW n \in 1..Len(Pending'), Pending'[n].kind \in {"thread", "turn"}
        PROVE  /\ Pending'[n].status = "resolved" => mem[Pending'[n].thread].status # "active"
               /\ dbStatus'[Pending'[n].thread] = "resolved" => Pending'[n].status = "resolved"
    <3>1. n + 1 \in 1..Len(Pending) /\ Pending'[n] = Pending[n + 1] /\ 1 < n + 1
      BY <1>1, <2>1, PendingKept
    <3>2. Pending[n + 1].thread \in ThreadIds
      BY <2>4, <3>1, RowThread DEF IsRowJob
    <3>3. Pending[n + 1].thread = j.thread /\ j.status = "resolved" => Pending[n + 1].status = "resolved"
      BY <2>1, <2>4, <3>1 DEF Closing, IsRowJob
    <3>4. /\ Pending[n + 1].status = "resolved" => mem[Pending[n + 1].thread].status # "active"
          /\ dbStatus[Pending[n + 1].thread] = "resolved" => Pending[n + 1].status = "resolved"
      BY <2>4, <3>1 DEF Closing, IsRowJob
    <3> QED
      BY <2>2, <3>1, <3>2, <3>3, <3>4
  <2>5. \A i \in ThreadIds : dbStatus'[i] = "resolved" => mem[i].status # "active"
    BY <2>2, <2>3 DEF Closing
  <2>6. ASSUME NEW r \in Callers, call[r].pc \in {"turns", "install"}, call[r].thread # 0,
               cache[call[r].session] = 0
        PROVE  call[r].found.status = dbStatus'[call[r].thread]
    <3>1. OwnerOf(call[r].thread) = call[r].session /\ call[r].thread \in 0..MaxThreads
      BY <2>6 DEF StoreInv, ReadsCurrent, ReadCurrent, TypeOK, ProcessType, Call
    <3>2. call[r].thread \in ThreadIds /\ call[r].thread # j.thread
      BY <2>1, <2>6, <3>1, StoreAssumption DEF ThreadIds
    <3> QED
      BY <2>2, <2>6, <3>2 DEF Closing
  <2>7. \A r \in Callers : call[r].op = "get"
    BY DEF Closing
  <2> HIDE DEF Thread, Stamped
  <2>8. Closing'
    BY <1>2, <2>1, <2>4, <2>5, <2>6, <2>7 DEF Closing, IsRowJob
  <2> QED
    BY <2>2, <2>3, <2>8
<1>5. ASSUME NEW j \in Job, Carries(j) PROVE Shrinks(1)
  BY <1>5 DEF Carries
<1> QED
  BY <1>3, <1>4, <1>5 DEF Carries

\* A step that adds jobs, of callers and of the lifespan.
LEMMA ClosingGrows ==
  ASSUME StoreInv, Closing, NEW jobs \in Seq(Job), Grows(jobs), UNCHANGED dbStatus,
         \A k \in 1..Len(born) : mem'[k].status = "active" =>
           mem[k].status = "active" \/ (cache[OwnerOf(k)] = 0 /\ dbStatus[k] # "resolved"),
         \A m \in 1..Len(jobs) : jobs[m].kind \in {"thread", "turn"} =>
           /\ jobs[m].status = "resolved" => mem'[jobs[m].thread].status # "active"
           /\ dbStatus[jobs[m].thread] = "resolved" => jobs[m].status = "resolved"
           /\ \A n \in 1..Len(Pending) :
                /\ IsRowJob(n) /\ Pending[n].thread = jobs[m].thread /\ Pending[n].status = "resolved"
                => jobs[m].status = "resolved"
           /\ \A l \in 1..Len(jobs) : l < m => jobs[l].thread # jobs[m].thread,
         \A r \in Callers :
           /\ call'[r].op = "get"
           /\ call'[r].pc \in {"turns", "install"} /\ call'[r].thread # 0 /\ cache'[call'[r].session] = 0 =>
                call'[r].found.status = dbStatus[call'[r].thread]
  PROVE  Closing'
<1>1. TypeOK /\ Len(Pending) \in Nat /\ Len(born) \in Nat
  BY PendingType, LenProperties DEF StoreInv, TypeOK, ProcessType
<1>2. ASSUME NEW n \in 1..Len(Pending')
      PROVE  \/ n \in 1..Len(Pending) /\ Pending'[n] = Pending[n]
             \/ n > Len(Pending) /\ n - Len(Pending) \in 1..Len(jobs) /\ Pending'[n] = jobs[n - Len(Pending)]
  BY <1>1, PendingGrown
<1>3. ASSUME NEW n \in 1..Len(Pending'), Pending'[n].kind \in {"thread", "turn"}
      PROVE  /\ Pending'[n].status = "resolved" => mem'[Pending'[n].thread].status # "active"
             /\ dbStatus[Pending'[n].thread] = "resolved" => Pending'[n].status = "resolved"
  <2>1. CASE n \in 1..Len(Pending) /\ Pending'[n] = Pending[n]
    <3>1. /\ Pending[n].thread \in 1..Len(born) /\ cache[OwnerOf(Pending[n].thread)] # 0
          /\ Pending[n].status = "resolved" => mem[Pending[n].thread].status # "active"
          /\ dbStatus[Pending[n].thread] = "resolved" => Pending[n].status = "resolved"
      BY <1>3, <2>1, RowThread DEF Closing, IsRowJob
    <3> QED
      BY <2>1, <3>1
  <2>2. CASE n - Len(Pending) \in 1..Len(jobs) /\ Pending'[n] = jobs[n - Len(Pending)]
    <3>1. PICK m \in 1..Len(jobs) : Pending'[n] = jobs[m]
      BY <2>2
    <3>2. jobs[m].kind \in {"thread", "turn"}
      BY <1>3, <3>1
    <3>3. /\ jobs[m].status = "resolved" => mem'[jobs[m].thread].status # "active"
          /\ dbStatus[jobs[m].thread] = "resolved" => jobs[m].status = "resolved"
      BY <3>2
    <3> QED
      BY <3>1, <3>3
  <2> QED
    BY <1>2, <2>1, <2>2
<1>4. ASSUME NEW m \in 1..Len(Pending'), NEW n \in 1..Len(Pending'), m < n,
             Pending'[m].kind \in {"thread", "turn"}, Pending'[n].kind \in {"thread", "turn"},
             Pending'[m].thread = Pending'[n].thread, Pending'[m].status = "resolved"
      PROVE  Pending'[n].status = "resolved"
  <2>1. CASE n \in 1..Len(Pending) /\ Pending'[n] = Pending[n]
    <3>1. m \in 1..Len(Pending) /\ Pending'[m] = Pending[m]
      BY <1>1, <1>2, <1>4, <2>1, SMTT(60)
    <3> QED
      BY <1>4, <2>1, <3>1 DEF Closing, IsRowJob
  <2>2. CASE n > Len(Pending) /\ n - Len(Pending) \in 1..Len(jobs) /\ Pending'[n] = jobs[n - Len(Pending)]
    <3>1. CASE m \in 1..Len(Pending) /\ Pending'[m] = Pending[m]
      BY <1>4, <2>2, <3>1, SMTT(60) DEF IsRowJob
    <3>2. CASE m > Len(Pending) /\ m - Len(Pending) \in 1..Len(jobs) /\ Pending'[m] = jobs[m - Len(Pending)]
      <4>1. m - Len(Pending) < n - Len(Pending)
        BY <1>1, <1>4
      <4> QED
        BY <1>4, <2>2, <3>2, <4>1, SMTT(60)
    <3> QED
      BY <1>2, <3>1, <3>2
  <2> QED
    BY <1>2, <2>1, <2>2
<1>5. ASSUME NEW i \in ThreadIds, dbStatus[i] = "resolved" PROVE mem'[i].status # "active"
  <2>1. i \in 1..Len(born)
    BY <1>1, <1>5 DEF StoreInv, UnbornBlank, Blank, ThreadIds
  <2> QED
    BY <1>5, <2>1 DEF Closing
<1> QED
  BY <1>3, <1>4, <1>5 DEF Closing, IsRowJob

\* A step that adds one job at most, a row job only if `row` says what it must.
LEMMA ClosingOne ==
  ASSUME StoreInv, Closing, UNCHANGED dbStatus,
         \/ UNCHANGED Pending
         \/ \E j \in Job :
              /\ Grows(<<j>>)
              /\ j.kind \in {"thread", "turn"} =>
                   /\ j.status = "resolved" => mem'[j.thread].status # "active"
                   /\ dbStatus[j.thread] = "resolved" => j.status = "resolved"
                   /\ \A n \in 1..Len(Pending) :
                        /\ IsRowJob(n) /\ Pending[n].thread = j.thread /\ Pending[n].status = "resolved"
                        => j.status = "resolved",
         \A k \in 1..Len(born) : mem'[k].status = "active" =>
           mem[k].status = "active" \/ (cache[OwnerOf(k)] = 0 /\ dbStatus[k] # "resolved"),
         \A r \in Callers :
           /\ call'[r].op = "get"
           /\ call'[r].pc \in {"turns", "install"} /\ call'[r].thread # 0 /\ cache'[call'[r].session] = 0 =>
                call'[r].found.status = dbStatus[call'[r].thread]
  PROVE  Closing'
<1>1. CASE UNCHANGED Pending
  <2> DEFINE jobs == <<>>
  <2>1. jobs \in Seq(Job) /\ Len(jobs) = 0
    OBVIOUS
  <2>2. Grows(jobs)
    BY <1>1, <2>1, PendingType DEF Grows, StoreInv
  <2> HIDE DEF jobs
  <2>3. \A m \in 1..Len(jobs) : FALSE
    BY <2>1
  <2> QED
    BY <2>1, <2>2, <2>3, ClosingGrows
<1>2. ASSUME NEW j \in Job, Grows(<<j>>),
             j.kind \in {"thread", "turn"} =>
               /\ j.status = "resolved" => mem'[j.thread].status # "active"
               /\ dbStatus[j.thread] = "resolved" => j.status = "resolved"
               /\ \A n \in 1..Len(Pending) :
                    /\ IsRowJob(n) /\ Pending[n].thread = j.thread /\ Pending[n].status = "resolved"
                    => j.status = "resolved"
      PROVE  Closing'
  <2> DEFINE jobs == <<j>>
  <2>1. /\ jobs \in Seq(Job) /\ Grows(jobs) /\ Len(jobs) = 1
        /\ \A m \in 1..Len(jobs) : jobs[m] = j
    BY <1>2
  <2> HIDE DEF jobs
  <2>2. \A l, m \in 1..Len(jobs) : ~ (l < m)
    BY <2>1
  <2> QED
    BY <1>2, <2>1, <2>2, ClosingGrows
<1> QED
  BY <1>1, <1>2

LEMMA ClosingMakes ==
  ASSUME StoreInv, Closing, NEW r \in Callers, NEW s \in Sessions, NEW old \in 0..MaxThreads,
         NEW b \in BOOLEAN, Makes(r, s, old, b)
  PROVE  Closing'
<1> DEFINE new == Len(born) + 1
<1>1. /\ TypeOK /\ Len(born) \in Nat /\ new \in ThreadIds
      /\ \A k \in 1..Len(born) : k \in ThreadIds /\ k # new
  <2>1. Len(born) \in Nat /\ new \in ThreadIds
    BY MakesGrows, LenProperties DEF StoreInv, TypeOK, ProcessType
  <2> QED
    BY <2>1, StoreAssumption DEF ThreadIds, StoreInv
<1>2. PICK jobs \in Seq(Job) :
        /\ Grows(jobs)
        /\ \A m \in 1..Len(jobs) :
             \/ jobs[m].thread = new /\ m = Len(jobs) /\ jobs[m].status = "active"
             \/ b /\ jobs[m].thread = old /\ m = 1 /\ jobs[m].status = "resolved"
  BY MakesGrows
<1>3. /\ UNCHANGED dbStatus /\ dbStatus[new] = "absent" /\ mem'[new] = NewThread
      /\ b => old \in 1..Len(born) /\ mem'[old].status = "resolved"
      /\ \A k \in 1..Len(born) : mem'[k].status = "active" => mem[k].status = "active"
  <2>1. UNCHANGED dbStatus /\ mem'[new] = NewThread
        /\ \A k \in 1..Len(born) : mem'[k].status = "active" => mem[k].status = "active"
    BY <1>1 DEF Makes, HandsOut, dbVars
  <2>2. dbStatus[new] = "absent"
    BY <1>1 DEF StoreInv, UnbornBlank, Blank
  <2>3. b => old \in 1..Len(born) /\ mem'[old].status = "resolved"
    BY DEF Makes, Closing
  <2> QED
    BY <2>1, <2>2, <2>3
<1>4. ASSUME NEW q \in Callers
      PROVE  /\ call'[q].op = "get"
             /\ call'[q].pc \in {"turns", "install"} /\ call'[q].thread # 0 /\ cache'[call'[q].session] = 0 =>
                  call'[q].found.status = dbStatus[call'[q].thread]
  <2>1. CASE q = r
    <3>1. call'[q].op = "get" /\ call'[q].pc = "hold"
      BY <1>1, <2>1 DEF Makes, HandsOut, Resume, Holding, TypeOK, ProcessType
    <3> QED
      BY <3>1
  <2>2. CASE q # r
    <3>1. call'[q] = call[q] /\ call[q].session \in Sessions
      BY <1>1, <2>2 DEF Makes, HandsOut, Resume, TypeOK, ProcessType, Call
    <3>2. cache'[call[q].session] = 0 => cache[call[q].session] = 0
      BY <1>1, <3>1 DEF Makes, HandsOut, TypeOK, ProcessType
    <3> QED
      BY <3>1, <3>2 DEF Closing
  <2> QED
    BY <2>1, <2>2
<1>5. ASSUME NEW m \in 1..Len(jobs)
      PROVE  /\ jobs[m].status = "resolved" => mem'[jobs[m].thread].status # "active"
             /\ dbStatus[jobs[m].thread] = "resolved" => jobs[m].status = "resolved"
             /\ \A n \in 1..Len(Pending) :
                  /\ IsRowJob(n) /\ Pending[n].thread = jobs[m].thread /\ Pending[n].status = "resolved"
                  => jobs[m].status = "resolved"
             /\ \A l \in 1..Len(jobs) : l < m => jobs[l].thread # jobs[m].thread
  <2> HIDE DEF new
  <2>1. CASE jobs[m].thread = new /\ m = Len(jobs) /\ jobs[m].status = "active"
    <3>1. \A n \in 1..Len(Pending) : IsRowJob(n) => Pending[n].thread # new
      BY <1>1, RowThread
    <3>2. \A l \in 1..Len(jobs) : l < m => jobs[l].thread # new
      <4> TAKE l \in 1..Len(jobs)
      <4> HAVE l < m
      <4>1. l # Len(jobs)
        BY <2>1
      <4>2. b /\ jobs[l].thread = old
        BY <1>2, <4>1
      <4> QED
        BY <1>1, <1>3, <4>2
    <3> QED
      BY <1>3, <2>1, <3>1, <3>2
  <2>2. CASE b /\ jobs[m].thread = old /\ m = 1 /\ jobs[m].status = "resolved"
    <3>1. \A l \in 1..Len(jobs) : ~ (l < m)
      BY <2>2
    <3> QED
      BY <1>3, <2>2, <3>1
  <2> QED
    BY <1>2, <2>1, <2>2
<1> HIDE DEF new
<1> QED
  BY <1>2, <1>3, <1>4, <1>5, ClosingGrows

LEMMA ClosingStep ==
  ASSUME DirectReset = {}, StoreInv, Closing, [Next]_vars
  PROVE  /\ Closing'
         /\ \A i \in ThreadIds : dbStatus[i] = "resolved" => dbStatus'[i] = "resolved"
<1>1. TypeOK /\ Len(born) \in Nat
  BY LenProperties DEF StoreInv, TypeOK, ProcessType
<1>2. CASE WriterStep
  BY <1>2, WriterCases, ClosingShrinks
<1>3. CASE RegisterPrompt \/ Close \/ SentinelAccepted \/ Drained \/ DrainTimesOut \/ UNCHANGED vars
  <2>1. UNCHANGED <<born, mem, cache, call, dbStatus>>
    BY <1>3, OtherCases DEF dbVars
  <2>2. /\ \A k \in 1..Len(born) : mem'[k].status = "active" => mem[k].status = "active"
        /\ \A r \in Callers :
             /\ call'[r].op = "get"
             /\ call'[r].pc \in {"turns", "install"} /\ call'[r].thread # 0 /\ cache'[call'[r].session] = 0 =>
                  call'[r].found.status = dbStatus[call'[r].thread]
    BY <2>1 DEF Closing
  <2>3. CASE Shrinks(0)
    BY <2>1, <2>3, ClosingShrinks
  <2>4. ASSUME NEW j \in Job, Grows(<<j>>), j.kind \in {"snapshot", "shutdown"} PROVE Closing'
    BY <2>1, <2>2, <2>4, ClosingOne
  <2> QED
    BY <1>3, <2>1, <2>3, <2>4, OtherCases
<1>4. CASE Restart
  <2>1. /\ Len(Pending') = 0 /\ UNCHANGED dbStatus
        /\ \A i \in ThreadIds : mem'[i].status = "absent"
        /\ \A r \in Callers : call'[r].pc = "idle" /\ call'[r].op = "get"
    BY <1>4 DEF Restart, Pending, dbVars, NoThread, IdleCall
  <2> QED
    BY <2>1 DEF Closing
<1>5. ASSUME NEW r \in Callers, CallerStep(r) PROVE Closing' /\ UNCHANGED dbStatus
  <2>1. CASE Looks(r)
    <3>1. /\ UNCHANGED <<born, mem, cache, dbStatus>> /\ UNCHANGED Pending
          /\ \A q \in Callers \ {r} : call'[q] = call[q]
      BY <2>1 DEF Looks, dbVars, Pending
    <3>2. /\ call'[r].op = "get"
          /\ call'[r].pc \in {"turns", "install"} /\ call'[r].thread # 0 /\ cache[call'[r].session] = 0 =>
               call'[r].found.status = dbStatus[call'[r].thread]
      BY <2>1 DEF Looks, Closing
    <3>3. \A q \in Callers :
            /\ call'[q].op = "get"
            /\ call'[q].pc \in {"turns", "install"} /\ call'[q].thread # 0 /\ cache'[call'[q].session] = 0 =>
                 call'[q].found.status = dbStatus[call'[q].thread]
      BY <3>1, <3>2 DEF Closing
    <3> QED
      BY <3>1, <3>3, ClosingOne
  <2>2. CASE Copies(r)
    <3> DEFINE i == call[r].thread
               s == call[r].session
    <3>1. /\ UNCHANGED <<born, dbStatus>> /\ UNCHANGED Pending
          /\ call[r].pc = "install" /\ i \in 1..Len(born) /\ cache[s] = 0
          /\ mem' = [mem EXCEPT ![i] = call[r].found] /\ cache' = [cache EXCEPT ![s] = i]
          /\ call' = [call EXCEPT ![r] = Holding(s, i)]
      BY <2>2 DEF Copies, HandsOut, Resume, dbVars, Pending
    <3>2. /\ OwnerOf(i) = s /\ call[r].found.status = dbStatus[i] /\ i \in ThreadIds
          /\ \A k \in 1..Len(born) : k \in ThreadIds
      <4>1. \A k \in 1..Len(born) : k \in ThreadIds
        BY <1>1, StoreAssumption DEF TypeOK, ProcessType, ThreadIds
      <4> QED
        BY <3>1, <4>1 DEF StoreInv, ReadsCurrent, ReadCurrent, Closing
    <3>3. \A k \in 1..Len(born) : k # i => mem'[k] = mem[k]
      <4> HIDE DEF Thread, i
      <4> QED
        BY <1>1, <3>1, <3>2 DEF TypeOK, ProcessType
    <3>4. mem'[i].status = dbStatus[i]
      <4> HIDE DEF i
      <4> QED
        BY <1>1, <3>1, <3>2 DEF TypeOK, ProcessType
    <3>5. ASSUME NEW k \in 1..Len(born), mem'[k].status = "active"
          PROVE  mem[k].status = "active" \/ (cache[OwnerOf(k)] = 0 /\ dbStatus[k] # "resolved")
      BY <3>1, <3>2, <3>3, <3>4, <3>5
    <3>6. ASSUME NEW q \in Callers
          PROVE  /\ call'[q].op = "get"
                 /\ call'[q].pc \in {"turns", "install"} /\ call'[q].thread # 0 /\ cache'[call'[q].session] = 0 =>
                      call'[q].found.status = dbStatus[call'[q].thread]
      <4>1. CASE q = r
        <5>1. call'[q].op = "get" /\ call'[q].pc = "hold"
          BY <1>1, <3>1, <4>1 DEF Holding, TypeOK, ProcessType
        <5> QED
          BY <5>1
      <4>2. CASE q # r
        <5>1. call'[q] = call[q] /\ call[q].session \in Sessions
          BY <1>1, <3>1, <4>2 DEF TypeOK, ProcessType, Call
        <5>2. cache'[call[q].session] = 0 => cache[call[q].session] = 0
          BY <1>1, <3>1, <5>1 DEF TypeOK, ProcessType
        <5> QED
          BY <5>1, <5>2 DEF Closing
      <4> QED
        BY <4>1, <4>2
    <3> HIDE DEF i, s
    <3> QED
      BY <3>1, <3>5, <3>6, ClosingOne
  <2>3. CASE AppendTurn(r)
    <3> DEFINE i == call[r].thread
    <3>1. /\ i \in 1..Len(born) /\ i \in ThreadIds /\ Served(i)
          /\ UNCHANGED <<cache, call, dbStatus>>
          /\ \A k \in ThreadIds : mem'[k].status = mem[k].status
          /\ \A k \in 1..Len(born) : k \in ThreadIds
      <4>1. \A k \in 1..Len(born) : k \in ThreadIds
        BY <1>1, StoreAssumption DEF TypeOK, ProcessType, ThreadIds
      <4> QED
        BY <2>3, <4>1, AppendGrows DEF dbVars
    <3>2. PICK j \in Job : Grows(<<j>>) /\ j.thread = i /\ j.status = mem[i].status
      BY <2>3, AppendGrows
    <3>3. mem[i].status \in {"active", "resolved"}
      BY <1>1, <3>1 DEF TypeOK, ProcessType, Served
    <3> HIDE DEF i
    <3>4. /\ j.status = "resolved" => mem'[j.thread].status # "active"
          /\ dbStatus[j.thread] = "resolved" => j.status = "resolved"
          /\ \A n \in 1..Len(Pending) :
               /\ IsRowJob(n) /\ Pending[n].thread = j.thread /\ Pending[n].status = "resolved"
               => j.status = "resolved"
      BY <3>1, <3>2, <3>3 DEF Closing
    <3>5. /\ \A k \in 1..Len(born) : mem'[k].status = "active" => mem[k].status = "active"
          /\ \A q \in Callers :
               /\ call'[q].op = "get"
               /\ call'[q].pc \in {"turns", "install"} /\ call'[q].thread # 0 /\ cache'[call'[q].session] = 0 =>
                    call'[q].found.status = dbStatus[call'[q].thread]
      BY <3>1 DEF Closing
    <3> QED
      BY <3>1, <3>2, <3>4, <3>5, ClosingOne
  <2>4. CASE RecordFeedback(r)
    <3>1. /\ UNCHANGED <<mem, cache, dbStatus>> /\ call' = [call EXCEPT ![r] = IdleCall]
      BY <2>4, FeedbackGrows DEF dbVars
    <3>2. PICK j \in Job : Grows(<<j>>) /\ j.kind = "feedback"
      BY <2>4, FeedbackGrows
    <3>3. \A q \in Callers : call'[q] = call[q] \/ (call'[q].pc = "idle" /\ call'[q].op = "get")
      BY <1>1, <3>1 DEF IdleCall, TypeOK, ProcessType
    <3>4. \A q \in Callers :
            /\ call'[q].op = "get"
            /\ call'[q].pc \in {"turns", "install"} /\ call'[q].thread # 0 /\ cache'[call'[q].session] = 0 =>
                 call'[q].found.status = dbStatus[call'[q].thread]
      BY <3>1, <3>3 DEF Closing
    <3> QED
      BY <3>1, <3>2, <3>4, ClosingOne
  <2>5. ASSUME NEW s \in Sessions, NEW old \in 0..MaxThreads, NEW b \in BOOLEAN, Makes(r, s, old, b)
        PROVE  Closing' /\ UNCHANGED dbStatus
    BY <2>5, ClosingMakes DEF Makes, HandsOut, dbVars
  <2> QED
    BY <1>5, <2>1, <2>2, <2>3, <2>4, <2>5, CallerCases
<1>6. Restart => UNCHANGED dbStatus
  BY DEF Restart, dbVars
<1>7. RegisterPrompt \/ Close \/ SentinelAccepted \/ Drained \/ DrainTimesOut \/ UNCHANGED vars
        => UNCHANGED dbStatus
  BY OtherCases DEF dbVars
<1> QED
  BY <1>2, <1>3, <1>4, <1>5, <1>6, <1>7 DEF Next

LEMMA InitClosing == Init => Closing
<1> SUFFICES ASSUME Init PROVE Closing
  OBVIOUS
<1>1. Len(Pending) = 0
  BY DEF Init, Pending
<1>2. (\A r \in Callers : call[r].op = "get" /\ call[r].pc = "idle") /\ \A i \in ThreadIds : dbStatus[i] = "absent"
  BY DEF Init, IdleCall
<1> QED
  BY <1>1, <1>2 DEF Closing

\* A closed thread is never made active again, when no route resets a session whose thread it
\* has not fetched first.
THEOREM StaysClosed ==
  ASSUME DirectReset = {}
  PROVE  Spec => ClosedStaysClosed
<1>1. StoreInv /\ Closing /\ [Next]_vars => Closing'
  BY ClosingStep
<1>2. Spec => []Closing
  BY InitClosing, <1>1, StoreInvariant, PTL DEF Spec
<1>3. StoreInv /\ Closing /\ [Next]_vars =>
        [\A i \in ThreadIds : dbStatus[i] = "resolved" => dbStatus'[i] = "resolved"]_vars
  BY ClosingStep
<1> QED
  BY <1>2, <1>3, StoreInvariant, PTL DEF Spec, ClosedStaysClosed

LEMMA HandsOutStep ==
  ASSUME StoreInv, [Next]_vars, NEW r \in Callers, call'[r].pc = "hold", call[r] # call'[r]
  PROVE  call'[r].thread = cache'[call'[r].session]
<1>1. TypeOK
  BY DEF StoreInv
<1>2. CASE WriterStep \/ RegisterPrompt \/ Close \/ SentinelAccepted \/ Drained \/ DrainTimesOut \/ UNCHANGED vars
  BY <1>2, WriterCases, OtherCases
<1>3. CASE Restart
  BY <1>3 DEF Restart, IdleCall
<1>4. ASSUME NEW q \in Callers, CallerStep(q) PROVE call'[r].thread = cache'[call'[r].session]
  <2>1. CASE Looks(q)
    BY <2>1 DEF Looks
  <2>2. ASSUME NEW s \in Sessions, NEW i, HandsOut(q, s, i)
        PROVE  call'[r].thread = cache'[call'[r].session]
    <3>1. call'[r] = Holding(s, i) /\ cache'[s] = i
      BY <1>1, <2>2 DEF HandsOut, Resume, TypeOK, ProcessType
    <3> QED
      BY <3>1 DEF Holding
  <2>3. CASE Copies(q)
    <3>1. call[q].session \in Sessions
      BY <1>1 DEF TypeOK, ProcessType, Call
    <3> QED
      BY <2>2, <2>3, <3>1 DEF Copies
  <2>4. CASE AppendTurn(q) \/ RecordFeedback(q)
    BY <1>1, <2>4 DEF AppendTurn, RecordFeedback, IdleCall, TypeOK, ProcessType
  <2> QED
    BY <1>4, <2>1, <2>2, <2>3, <2>4, CallerCases DEF Makes
<1> QED
  BY <1>2, <1>3, <1>4 DEF Next

\* Whoever comes out of the store holds the thread the cache serves at that moment.
THEOREM HandedOut == Spec => HandsOutCached
<1>1. StoreInv /\ [Next]_vars =>
        [\A r \in Callers : call'[r].pc = "hold" /\ call[r] # call'[r] =>
           call'[r].thread = cache'[call'[r].session]]_vars
  BY HandsOutStep
<1> QED
  BY <1>1, StoreInvariant, PTL DEF Spec, HandsOutCached

-----------------------------------------------------------------------------
(* Every write is accounted for.                                           *)

\* The positions of the writes among `jobs`.
Counted(jobs) == {n \in DOMAIN jobs : jobs[n].kind # "shutdown"}

LEMMA CountedFinite ==
  ASSUME NEW jobs \in Seq(Job)
  PROVE  /\ IsFiniteSet(Counted(jobs)) /\ Counted(jobs) \subseteq 1..Len(jobs)
         /\ Writes(jobs) = Cardinality(Counted(jobs)) /\ Writes(jobs) \in Nat
<1>1. Len(jobs) \in Nat /\ DOMAIN jobs = 1..Len(jobs)
  BY LenProperties
<1>2. Counted(jobs) \in SUBSET (1..Len(jobs)) /\ IsFiniteSet(1..Len(jobs))
  BY <1>1, FS_Interval DEF Counted
<1>3. IsFiniteSet(Counted(jobs))
  BY <1>2, FS_Subset
<1> QED
  BY <1>2, <1>3, FS_CardinalityType DEF Writes, Counted

LEMMA NoWrites ==
  ASSUME NEW jobs \in Seq(Job), \A n \in 1..Len(jobs) : jobs[n].kind = "shutdown"
  PROVE  Writes(jobs) = 0
<1>1. Counted(jobs) = {}
  BY CountedFinite DEF Counted
<1> QED
  BY <1>1, CountedFinite, FS_EmptySet

LEMMA OnlyWrites ==
  ASSUME NEW jobs \in Seq(Job), \A n \in 1..Len(jobs) : jobs[n].kind # "shutdown"
  PROVE  Writes(jobs) = Len(jobs)
<1>1. Len(jobs) \in Nat /\ DOMAIN jobs = 1..Len(jobs)
  BY LenProperties
<1>2. Counted(jobs) = 1..Len(jobs)
  BY <1>1 DEF Counted
<1>3. Cardinality(1..Len(jobs)) = Len(jobs)
  BY <1>1, UpTo, Zenon
<1> QED
  BY <1>2, <1>3, CountedFinite

\* The writes of a concatenation are the writes of its parts.
LEMMA WritesConcat ==
  ASSUME NEW a \in Seq(Job), NEW b \in Seq(Job)
  PROVE  Writes(a \o b) = Writes(a) + Writes(b)
<1> DEFINE A == Counted(a)
           B == Counted(b)
           C == Counted(a \o b)
           D == C \ A
           f == [n \in B |-> n + Len(a)]
<1>1. /\ a \o b \in Seq(Job) /\ Len(a) \in Nat /\ Len(b) \in Nat /\ Len(a \o b) = Len(a) + Len(b)
      /\ \A n \in 1..Len(a) : (a \o b)[n] = a[n]
      /\ \A n \in (Len(a) + 1)..(Len(a) + Len(b)) : (a \o b)[n] = b[n - Len(a)]
      /\ DOMAIN a = 1..Len(a) /\ DOMAIN b = 1..Len(b) /\ DOMAIN (a \o b) = 1..(Len(a) + Len(b))
  <2>1. a \o b \in Seq(Job) /\ Len(a \o b) = Len(a) + Len(b)
    BY PendingShape
  <2>2. DOMAIN a = 1..Len(a) /\ DOMAIN b = 1..Len(b) /\ DOMAIN (a \o b) = 1..Len(a \o b)
    BY <2>1, LenProperties
  <2> QED
    BY <2>1, <2>2, PendingShape
<1>2. \A n \in 1..Len(a) : n \in C <=> n \in A
  BY <1>1 DEF Counted
<1>3. A \subseteq C /\ A \subseteq 1..Len(a)
  BY <1>1, <1>2 DEF Counted
<1>4. \A n : n \in D <=> n - Len(a) \in B /\ n \in (Len(a) + 1)..(Len(a) + Len(b))
  <2> TAKE n
  <2>1. ASSUME n \in D PROVE n - Len(a) \in B /\ n \in (Len(a) + 1)..(Len(a) + Len(b))
    <3>1. n \in 1..(Len(a) + Len(b)) /\ (a \o b)[n].kind # "shutdown" /\ n \notin A
      BY <1>1, <2>1 DEF Counted
    <3>2. n \notin 1..Len(a)
      BY <1>2, <2>1
    <3>3. n \in (Len(a) + 1)..(Len(a) + Len(b)) /\ n - Len(a) \in 1..Len(b)
      BY <1>1, <3>1, <3>2
    <3> QED
      BY <1>1, <3>1, <3>3 DEF Counted
  <2>2. ASSUME n - Len(a) \in B, n \in (Len(a) + 1)..(Len(a) + Len(b)) PROVE n \in D
    <3>1. (a \o b)[n] = b[n - Len(a)] /\ b[n - Len(a)].kind # "shutdown"
      BY <1>1, <2>2 DEF Counted
    <3>2. n \in 1..(Len(a) + Len(b)) /\ n \notin 1..Len(a)
      BY <1>1, <2>2
    <3> QED
      BY <1>1, <1>3, <3>1, <3>2 DEF Counted
  <2> QED
    BY <2>1, <2>2
<1>5. /\ IsFiniteSet(A) /\ IsFiniteSet(B) /\ IsFiniteSet(C) /\ B \subseteq 1..Len(b)
      /\ Writes(a) = Cardinality(A) /\ Writes(b) = Cardinality(B) /\ Writes(a \o b) = Cardinality(C)
  BY <1>1, CountedFinite
<1> HIDE DEF A, B, C
<1>6. f \in Bijection(B, D)
  <2>1. \A n \in B : n \in Nat /\ f[n] = n + Len(a) /\ f[n] \in D
    <3> TAKE n \in B
    <3>1. n \in 1..Len(b) /\ (n + Len(a)) - Len(a) = n
      BY <1>1, <1>5
    <3>2. n + Len(a) \in (Len(a) + 1)..(Len(a) + Len(b))
      BY <1>1, <3>1
    <3> QED
      BY <1>4, <3>1, <3>2
  <2>2. \A d \in D : d - Len(a) \in B /\ f[d - Len(a)] = d
    BY <1>1, <1>4
  <2>3. \A m, n \in B : f[m] = f[n] => m = n
    BY <1>1, <2>1
  <2>4. f \in [B -> D]
    BY <2>1
  <2> HIDE DEF f, D
  <2>5. f \in Surjection(B, D)
    BY <2>2, <2>4, Fun_IsSurj
  <2>6. f \in Injection(B, D)
    BY <2>3, <2>4, Fun_IsInj
  <2> QED
    BY <2>5, <2>6 DEF Bijection
<1>7. Cardinality(D) = Cardinality(B)
  BY <1>5, <1>6, FS_Bijection DEF ExistsBijection
<1>8. Cardinality(D) = Cardinality(C) - Cardinality(A)
  <2>1. C \cap A = A
    BY <1>3
  <2>2. Cardinality(C \ A) = Cardinality(C) - Cardinality(C \cap A)
    BY <1>5, FS_Difference
  <2> QED
    BY <2>1, <2>2
<1>9. Cardinality(A) \in Nat /\ Cardinality(B) \in Nat /\ Cardinality(C) \in Nat
  BY <1>5, FS_CardinalityType
<1> QED
  BY <1>5, <1>7, <1>8, <1>9

\* What is pending is what the writer has taken, and what waits.
LEMMA WritesPending ==
  ASSUME TypeOK
  PROVE  /\ Writes(Pending) = Writes(batch) + Writes(queue)
         /\ Writes(batch) \in Nat /\ Writes(queue) \in Nat /\ Writes(Pending) \in Nat
BY WritesConcat, CountedFinite, PendingType DEF Pending, TypeOK, PipelineType

\* What a full queue refuses is dropped and counted.
LEMMA EnqueueAccounts ==
  ASSUME TypeOK, NEW jobs \in Seq(Job), Enqueue(jobs), UNCHANGED batch,
         \A m \in 1..Len(jobs) : jobs[m].kind # "shutdown"
  PROVE  (dropped' + Writes(Pending)') - owed' = (dropped + Writes(Pending)) - owed
<1> DEFINE n == IF Len(jobs) <= Room THEN Len(jobs) ELSE Room
           add == SubSeq(jobs, 1, n)
<1>1. n \in 0..Len(jobs) /\ Len(jobs) \in Nat
  BY StoreAssumption, LenProperties DEF TypeOK, PipelineType, Room
<1>2. add \in Seq(Job) /\ Len(add) = n /\ \A m \in 1..n : add[m] = jobs[m]
  <2>1. \A m \in 1..n : jobs[m] \in Job
    BY <1>1, ElementOfSeq
  <2> HIDE DEF n
  <2> QED
    BY <1>1, <2>1, SubSeqProperties
<1>3. /\ queue' = queue \o add /\ batch' = batch
      /\ dropped' = dropped + (Len(jobs) - n) /\ owed' = owed + Len(jobs)
  BY DEF Enqueue, CountDropped
<1> HIDE DEF add, n
<1>4. batch \in Seq(Job) /\ queue \in Seq(Job) /\ dropped \in Nat /\ owed \in Int
  BY DEF TypeOK, PipelineType
<1>5. Pending' = Pending \o add
  <2>1. batch \o (queue \o add) = (batch \o queue) \o add
    <3>1. Associate(batch, queue, add)
      BY <1>2, <1>4, JobsAssociate, Zenon
    <3> QED
      BY ONLY <3>1 DEF Associate
  <2> QED
    BY <1>3, <2>1 DEF Pending
<1>6. Writes(add) = n
  BY <1>1, <1>2, OnlyWrites
<1>7. Writes(Pending)' = Writes(Pending) + n /\ Writes(Pending) \in Nat
  <2>1. Writes(Pending)' = Writes(Pending \o add)
    BY <1>5 DEF Writes
  <2> QED
    BY <1>2, <1>6, <2>1, WritesConcat, WritesPending, PendingType
<1> QED
  BY <1>1, <1>3, <1>4, <1>7, SMTT(60)

\* The job the writer settles leaves what is pending.
LEMMA NextJobAccounts ==
  ASSUME TypeOK, NextJob
  PROVE  /\ Head(batch).kind = "shutdown" => Writes(Pending)' = Writes(Pending)
         /\ Head(batch).kind # "shutdown" => Writes(Pending)' = Writes(Pending) - 1
         /\ \A n \in 1..Len(batch') : \E m \in 1..Len(batch) : batch'[n] = batch[m]
         /\ Head(batch) \in Job
<1>1. batch \in Seq(Job) /\ queue \in Seq(Job) /\ batch # <<>> /\ batch' = Tail(batch) /\ queue' = queue
  BY DEF NextJob, TypeOK, PipelineType
<1>2. /\ Tail(batch) \in Seq(Job) /\ Len(Tail(batch)) = Len(batch) - 1 /\ Len(batch) \in Nat \ {0}
      /\ \A n \in 1..Len(Tail(batch)) : Tail(batch)[n] = batch[n + 1]
      /\ Head(batch) \in Job
  BY <1>1, HeadTailProperties, EmptySeq, LenProperties
<1>3. PICK j \in Job : j = Head(batch)
  BY <1>2
<1>4. batch = <<j>> \o Tail(batch)
  <2>1. /\ <<j>> \in Seq(Job) /\ Len(<<j>>) = 1 /\ <<j>>[1] = j
        /\ batch[1] = j
    BY <1>1, <1>3, HeadTailProperties
  <2>2. /\ <<j>> \o Tail(batch) \in Seq(Job) /\ Len(<<j>> \o Tail(batch)) = Len(batch)
        /\ (<<j>> \o Tail(batch))[1] = j
        /\ \A n \in 2..Len(batch) : (<<j>> \o Tail(batch))[n] = Tail(batch)[n - 1]
    BY <1>2, <2>1, PendingShape
  <2>3. \A n \in 2..Len(batch) : Tail(batch)[n - 1] = batch[n]
    BY <1>2
  <2>4. \A n \in 1..Len(batch) : batch[n] = (<<j>> \o Tail(batch))[n]
    BY <1>2, <2>1, <2>2, <2>3
  <2> QED
    BY <1>1, <2>2, <2>4, SeqEqual
<1>5. Writes(<<j>>) = IF j.kind = "shutdown" THEN 0 ELSE 1
  <2> DEFINE one == <<j>>
  <2>1. one \in Seq(Job) /\ Len(one) = 1 /\ \A n \in 1..Len(one) : one[n] = j
    OBVIOUS
  <2> HIDE DEF one
  <2>2. Writes(one) = IF j.kind = "shutdown" THEN 0 ELSE 1
    BY <2>1, NoWrites, OnlyWrites
  <2> QED
    BY <2>2 DEF one
<1>6. Writes(batch) = Writes(<<j>>) + Writes(batch')
  <2>1. <<j>> \in Seq(Job)
    OBVIOUS
  <2>2. Writes(<<j>> \o Tail(batch)) = Writes(<<j>>) + Writes(Tail(batch))
    BY <1>2, <2>1, WritesConcat
  <2> QED
    BY <1>1, <1>4, <2>2
<1>7. /\ Writes(Pending) = Writes(batch) + Writes(queue) /\ Writes(batch) \in Nat /\ Writes(queue) \in Nat
      /\ Writes(Pending)' = Writes(batch') + Writes(queue) /\ Writes(batch') \in Nat
  <2>1. Writes(Pending)' = Writes(batch' \o queue)
    BY <1>1 DEF Writes, Pending
  <2> QED
    BY <1>1, <1>2, <2>1, WritesPending, WritesConcat, CountedFinite
<1>8. \A n \in 1..Len(batch') : n + 1 \in 1..Len(batch) /\ batch'[n] = batch[n + 1]
  BY <1>1, <1>2
<1> QED
  BY <1>2, <1>3, <1>5, <1>6, <1>7, <1>8, SMTT(60)

\* What a caller or the registration of a prompt offers is writes, never the sentinel.
LEMMA Offers ==
  ASSUME StoreInv, RegisterPrompt \/ \E r \in Callers : CallerStep(r)
  PROVE  /\ UNCHANGED <<writer, batch, taken, stopSeen, server>>
         /\ \/ UNCHANGED <<queue, dropped, owed>>
            \/ \E jobs \in Seq(Job) :
                 Enqueue(jobs) /\ \A m \in 1..Len(jobs) : jobs[m].kind # "shutdown"
<1>1. CASE RegisterPrompt
  <2>1. build \in Hashes
    BY DEF StoreInv, TypeOK, ProcessType
  <2>2. PICK j \in Job : j = SnapshotJob(build)
    BY <2>1, FixedJobTypes
  <2>3. j.kind # "shutdown" /\ Enqueue(<<j>>)
    BY <1>1, <2>2 DEF RegisterPrompt, SnapshotJob
  <2>4. <<j>> \in Seq(Job) /\ \A m \in 1..Len(<<j>>) : <<j>>[m].kind # "shutdown"
    BY <2>3
  <2> QED
    BY <1>1, <2>3, <2>4 DEF RegisterPrompt, WriterIdles
<1>2. ASSUME NEW r \in Callers, CallerStep(r)
      PROVE  /\ UNCHANGED <<writer, batch, taken, stopSeen, server>>
             /\ \/ UNCHANGED <<queue, dropped, owed>>
                \/ \E jobs \in Seq(Job) :
                     Enqueue(jobs) /\ \A m \in 1..Len(jobs) : jobs[m].kind # "shutdown"
  <2>1. UNCHANGED <<writer, batch, taken, stopSeen, server>>
    BY <1>2, ZenonT(60) DEF CallerStep, Enter, RowArrives, TurnsArrive, Install, Leave, AppendTurn, RecordFeedback,
                WriterIdles, pipeVars
  <2>2. CASE RowArrives(r) \/ TurnsArrive(r) \/ Leave(r)
    BY <2>1, <2>2, ZenonT(60) DEF RowArrives, TurnsArrive, Leave, pipeVars
  <2>3. CASE AppendTurn(r)
    <3>1. PICK j \in Job : Enqueue(<<j>>) /\ j.kind = "turn"
      BY <2>3, AppendGrows
    <3>2. <<j>> \in Seq(Job) /\ \A m \in 1..Len(<<j>>) : <<j>>[m].kind # "shutdown"
      BY <3>1
    <3> QED
      BY <2>1, <3>1, <3>2
  <2>4. CASE RecordFeedback(r)
    <3>1. PICK j \in Job : Enqueue(<<j>>) /\ j.kind = "feedback"
      BY <2>4, FeedbackGrows
    <3>2. <<j>> \in Seq(Job) /\ \A m \in 1..Len(<<j>>) : <<j>>[m].kind # "shutdown"
      BY <3>1
    <3> QED
      BY <2>1, <3>1, <3>2
  <2>5. ASSUME NEW s \in Sessions, NEW old \in 0..MaxThreads, NEW b \in BOOLEAN, Makes(r, s, old, b)
        PROVE  \E jobs \in Seq(Job) :
                 Enqueue(jobs) /\ \A m \in 1..Len(jobs) : jobs[m].kind # "shutdown"
    <3>1. PICK jobs \in Seq(Job) : Enqueue(jobs) /\ \A m \in 1..Len(jobs) : jobs[m].kind = "thread"
      BY <2>5, MakesGrows
    <3> QED
      BY <3>1
  <2>6. CASE \E s \in Sessions : Enter(r, s)
    <3>1. PICK s \in Sessions : Enter(r, s)
      BY <2>6
    <3>2. CASE \E op \in {"get", "reset"} : GetCached(r, s) \/ AwaitRow(r, op, s)
      BY <2>1, <3>2 DEF GetCached, AwaitRow, NoEnqueue
    <3>3. CASE ResetCached(r, s)
      <4>1. PICK jobs : Create(s, jobs)
        BY <3>3 DEF ResetCached
      <4>2. ~ Looks(r)
        <5>1. born' # born
          BY <4>1, LenProperties DEF Create, StoreInv, TypeOK, ProcessType
        <5> QED
          BY <5>1 DEF Looks
      <4> QED
        BY <2>1, <2>5, <3>1, <4>2, EnterCases
    <3> QED
      BY <3>1, <3>2, <3>3 DEF Enter
  <2>7. CASE Install(r)
    <3>1. CASE NoEnqueue
      BY <2>1, <3>1 DEF NoEnqueue
    <3>2. CASE \E s, jobs : Create(s, jobs)
      <4>1. ~ Looks(r) /\ ~ Copies(r)
        <5>1. born' # born
          BY <3>2, LenProperties DEF Create, StoreInv, TypeOK, ProcessType
        <5> QED
          BY <5>1 DEF Looks, Copies
      <4> QED
        BY <2>1, <2>5, <2>7, <4>1, InstallCases
    <3> QED
      BY <2>7, <3>1, <3>2 DEF Install, InstallGet, InstallReset
  <2> QED
    BY <1>2, <2>2, <2>3, <2>4, <2>6, <2>7, SMTT(60) DEF CallerStep
<1> QED
  BY <1>1, <1>2

\* What is owed stays covered when it grows no more than what covers it.
Covered == owed <= dropped + Writes(Pending)

LEMMA StaysCovered ==
  ASSUME Accounts, owed \in Int, dropped \in Int, Writes(Pending) \in Int,
         owed' \in Int, dropped' \in Int, Writes(Pending)' \in Int,
         (dropped' + Writes(Pending)') - owed' >= (dropped + Writes(Pending)) - owed
  PROVE  Covered'
<1>1. Covered
  BY DEF Covered, Accounts
<1>2. dropped + Writes(Pending) \in Int /\ dropped' + Writes(Pending)' \in Int
  BY SumType, Zenon
<1>3. PICK c \in Int, o \in Int, cc \in Int, oo \in Int :
        /\ c = dropped + Writes(Pending) /\ o = owed
        /\ cc = dropped' + Writes(Pending)' /\ oo = owed'
  BY <1>2, Zenon
<1>4. cc - oo >= c - o
  BY <1>3, Zenon
<1>5. o <= c => oo <= cc
  BY <1>4
<1> QED
  BY <1>1, <1>3, <1>5, Zenon DEF Covered

\* The jobs of a queue that was offered writes: those it held, and writes.
LEMMA QueueOffered ==
  ASSUME TypeOK, NEW jobs \in Seq(Job), Enqueue(jobs),
         \A m \in 1..Len(jobs) : jobs[m].kind # "shutdown", NEW n \in 1..Len(queue')
  PROVE  (n \in 1..Len(queue) /\ queue'[n] = queue[n]) \/ queue'[n].kind # "shutdown"
<1> DEFINE k == IF Len(jobs) <= Room THEN Len(jobs) ELSE Room
           add == SubSeq(jobs, 1, k)
<1>1. k \in 0..Len(jobs) /\ Len(jobs) \in Nat
  BY StoreAssumption, LenProperties DEF TypeOK, PipelineType, Room
<1>2. add \in Seq(Job) /\ Len(add) = k /\ \A m \in 1..k : add[m] = jobs[m]
  <2>1. \A m \in 1..k : jobs[m] \in Job
    BY <1>1, ElementOfSeq
  <2> HIDE DEF k
  <2> QED
    BY <1>1, <2>1, SubSeqProperties
<1>3. queue' = queue \o add /\ queue \in Seq(Job) /\ Len(queue) \in Nat
  BY LenProperties DEF Enqueue, TypeOK, PipelineType
<1> HIDE DEF add, k
<1>4. PICK a \in Nat, b \in Nat : a = Len(queue) /\ b = Len(add)
  BY <1>1, <1>2, <1>3
<1>5. /\ Len(queue \o add) = a + b
      /\ \A m \in 1..a + b : (queue \o add)[m] = IF m <= a THEN queue[m] ELSE add[m - a]
  BY <1>2, <1>3, <1>4, ConcatProperties, ZenonT(60)
<1>6. n \in 1..a + b /\ queue'[n] = IF n <= a THEN queue[n] ELSE add[n - a]
  BY <1>3, <1>5, Zenon
<1>7. n \in 1..a \/ (~ (n <= a) /\ n - a \in 1..b)
  BY ONLY a \in Nat, b \in Nat, <1>6
<1>8. CASE n \in 1..a
  <2>1. n <= a
    BY <1>8
  <2> QED
    BY <1>4, <1>6, <1>8, <2>1, Zenon
<1>9. CASE ~ (n <= a) /\ n - a \in 1..b
  <2>1. queue'[n] = add[n - a] /\ n - a \in 1..Len(jobs)
    BY <1>1, <1>2, <1>4, <1>6, <1>9
  <2> QED
    BY <1>2, <1>4, <1>9, <2>1, Zenon
<1> QED
  BY <1>7, <1>8, <1>9, Zenon

LEMMA OffersKeep ==
  ASSUME StoreInv, StoreInv', WritesInv, RegisterPrompt \/ \E r \in Callers : CallerStep(r)
  PROVE  Accounts' /\ OneSentinel'
<1>1. UNCHANGED <<writer, batch, taken, stopSeen, server>> /\ TypeOK
  BY Offers DEF WritesInv
<1>2. CASE UNCHANGED <<queue, dropped, owed>>
  <2>1. UNCHANGED Pending /\ Writes(Pending)' = Writes(Pending) /\ Writes(batch)' = Writes(batch)
    BY <1>1, <1>2 DEF Pending, Writes
  <2> QED
    BY <1>1, <1>2, <2>1 DEF WritesInv, Accounts, OneSentinel, IsShutdown
<1>3. ASSUME NEW jobs \in Seq(Job), Enqueue(jobs), \A m \in 1..Len(jobs) : jobs[m].kind # "shutdown"
      PROVE  Accounts' /\ OneSentinel'
  <2>1. (dropped' + Writes(Pending)') - owed' = (dropped + Writes(Pending)) - owed
    BY <1>1, <1>3, EnqueueAccounts
  <2>2. /\ dropped \in Nat /\ owed \in Int /\ Writes(Pending) \in Nat
        /\ dropped' \in Int /\ owed' \in Int /\ Writes(Pending)' \in Nat
    <3>1. Writes(Pending)' \in Nat
      <4>1. Pending' \in Seq(Job)
        BY PendingShape DEF Pending, StoreInv, TypeOK, PipelineType
      <4> QED
        BY <4>1, CountedFinite DEF Writes
    <3> QED
      BY <1>1, <3>1, WritesPending DEF StoreInv, TypeOK, PipelineType
  <2>3. Accounts'
    <3>1. Writes(batch)' = Writes(batch) /\ Accounts
      BY <1>1 DEF Writes, WritesInv
    <3>2. (dropped' + Writes(Pending)') - owed' >= (dropped + Writes(Pending)) - owed
      <4>1. PICK a \in Int, b \in Int :
              a = (dropped' + Writes(Pending)') - owed' /\ b = (dropped + Writes(Pending)) - owed
        BY <2>2
      <4> QED
        BY <2>1, <4>1
    <3>3. Covered'
      BY <2>2, <3>1, <3>2, StaysCovered
    <3> QED
      BY <1>1, <3>1, <3>3, Zenon DEF Accounts, Covered
  <2>4. Grows(jobs)
    BY <1>1, <1>3, EnqueueGrows
  <2>5. ASSUME NEW n \in 1..Len(Pending'), Pending'[n].kind = "shutdown"
        PROVE  n \in 1..Len(Pending) /\ Pending'[n] = Pending[n]
    BY <1>1, <1>3, <2>4, <2>5, PendingGrown
  <2>6. \A n \in 1..Len(queue') :
          (n \in 1..Len(queue) /\ queue'[n] = queue[n]) \/ queue'[n].kind # "shutdown"
    BY <1>1, <1>3, QueueOffered
  <2>7. OneSentinel'
    BY <1>1, <2>5, <2>6 DEF WritesInv, OneSentinel, IsShutdown
  <2> QED
    BY <2>3, <2>7
<1> QED
  BY <1>2, <1>3, Offers

\* A step that settles pending jobs, or none, keeps the sentinel where it is.
LEMMA SentinelKept ==
  ASSUME TypeOK, OneSentinel, NEW k \in Nat, Shrinks(k), UNCHANGED <<server, stopSeen, queue>>,
         writer' = writer \/ (writer' = "writing"),
         \A n \in 1..Len(batch') : \E m \in 1..Len(batch) : batch'[n] = batch[m]
  PROVE  OneSentinel'
<1>1. \A n \in 1..Len(Pending') : n + k \in 1..Len(Pending) /\ Pending'[n] = Pending[n + k]
  BY PendingKept
<1>2. \A m, n \in 1..Len(Pending') : IsShutdown(m)' /\ IsShutdown(n)' => m = n
  <2> TAKE m, n \in 1..Len(Pending')
  <2> HAVE IsShutdown(m)' /\ IsShutdown(n)'
  <2>1. m + k = n + k
    BY <1>1, ZenonT(60) DEF OneSentinel, IsShutdown
  <2>2. m \in Int /\ n \in Int
    OBVIOUS
  <2> QED
    BY <2>1, <2>2
<1>3. \A n \in 1..Len(Pending') : IsShutdown(n)' => IsShutdown(n + k)
  BY <1>1 DEF IsShutdown
<1> QED
  BY <1>1, <1>2, <1>3 DEF OneSentinel

\* The sentinel is queued once.
LEMMA SentinelQueued ==
  ASSUME TypeOK, OneSentinel, server \in {"up", "closing"}, server' = "draining",
         queue' = Append(queue, Shutdown), UNCHANGED <<batch, stopSeen, writer>>
  PROVE  OneSentinel' /\ Writes(Pending)' = Writes(Pending) /\ Writes(batch)' = Writes(batch)
<1>1. PICK j \in Job : j = Shutdown
  BY FixedJobTypes
<1>2. j.kind = "shutdown" /\ <<j>> \in Seq(Job)
  BY <1>1 DEF Shutdown
<1>3. queue \in Seq(Job) /\ batch \in Seq(Job) /\ Pending \in Seq(Job) /\ Len(Pending) \in Nat
  BY PendingType DEF TypeOK, PipelineType
<1>4. Pending' = Pending \o <<j>>
  <2>1. queue' = queue \o <<j>>
    BY <1>1, <1>3, AppendIsConcat
  <2> QED
    BY <1>2, <1>3, <2>1, ConcatAssociative, SMTT(60) DEF Pending
<1>5. Writes(Pending)' = Writes(Pending)
  <2> DEFINE one == <<j>>
  <2>1. one \in Seq(Job) /\ \A n \in 1..Len(one) : one[n] = j
    OBVIOUS
  <2>2. Writes(Pending)' = Writes(Pending \o one)
    BY <1>4 DEF Writes
  <2> HIDE DEF one
  <2>3. Writes(one) = 0
    BY <1>2, <2>1, NoWrites
  <2> QED
    BY <1>3, <2>1, <2>2, <2>3, WritesConcat, CountedFinite
<1>6. /\ Len(Pending') = Len(Pending) + 1
      /\ \A n \in 1..Len(Pending) : Pending'[n] = Pending[n]
  <2>1. Len(<<j>>) = 1
    OBVIOUS
  <2> QED
    BY <1>2, <1>3, <1>4, <2>1, PendingShape
<1>7. \A n \in 1..Len(Pending) : Pending[n].kind # "shutdown"
  BY DEF OneSentinel, IsShutdown
<1>8. \A n \in 1..Len(Pending') : Pending'[n].kind = "shutdown" => n = Len(Pending) + 1
  <2> SUFFICES ASSUME NEW n \in 1..Len(Pending'), n # Len(Pending) + 1
               PROVE  Pending'[n].kind # "shutdown"
    OBVIOUS
  <2>1. n \in 1..Len(Pending)
    BY <1>3, <1>6
  <2> QED
    BY <1>6, <1>7, <2>1, Zenon
<1>9. stopSeen = FALSE /\ writer \notin {"stopped", "cancelled"}
  BY DEF OneSentinel
<1>10. \A n \in 1..Len(batch) : batch[n].kind # "shutdown"
  BY <1>9 DEF OneSentinel
<1>11. OneSentinel'
  BY <1>8, <1>9, <1>10 DEF OneSentinel, IsShutdown
<1>12. Writes(batch)' = Writes(batch)
  BY DEF Writes
<1> QED
  BY <1>5, <1>11, <1>12

\* The lifespan neither carries out nor counts a write.
LEMMA LifeKeeps ==
  ASSUME TypeOK, Accounts, OneSentinel,
         Close \/ SentinelAccepted \/ Drained \/ DrainTimesOut \/ UNCHANGED vars
  PROVE  Accounts' /\ OneSentinel'
<1>1. UNCHANGED <<batch, taken, stopSeen, dropped, owed>>
  BY DEF Close, SentinelAccepted, Drained, DrainTimesOut, LifeOnly, vars, pipeVars
<1>2. CASE UNCHANGED queue
  <2>1. UNCHANGED Pending /\ Writes(Pending)' = Writes(Pending) /\ Writes(batch)' = Writes(batch)
    BY <1>1, <1>2 DEF Pending, Writes
  <2>2. \/ UNCHANGED <<server, writer>>
        \/ server = "up" /\ server' = "closing" /\ UNCHANGED writer
        \/ server' = "down" /\ (UNCHANGED writer \/ writer' = "cancelled")
    BY <1>2 DEF Close, SentinelAccepted, Drained, DrainTimesOut, vars, pipeVars, LifeOnly
  <2>3. Accounts'
    BY <1>1, <2>1, <2>2 DEF Accounts
  <2>4. OneSentinel'
    BY <1>1, <1>2, <2>1, <2>2 DEF OneSentinel, IsShutdown
  <2> QED
    BY <2>3, <2>4
<1>3. CASE /\ server \in {"up", "closing"} /\ server' = "draining"
           /\ queue' = Append(queue, Shutdown) /\ UNCHANGED writer
  <2>1. OneSentinel' /\ Writes(Pending)' = Writes(Pending) /\ Writes(batch)' = Writes(batch)
    BY <1>1, <1>3, SentinelQueued
  <2> QED
    BY <1>1, <1>3, <2>1 DEF Accounts
<1> QED
  BY <1>2, <1>3 DEF Close, SentinelAccepted, Drained, DrainTimesOut, vars, pipeVars, LifeOnly

\* A fresh process owes nothing.
LEMMA FreshAccounts ==
  ASSUME queue = <<>>, batch = <<>>, dropped = 0, owed = 0, stopSeen = FALSE, writer = "idle"
  PROVE  Accounts /\ OneSentinel
<1>1. <<>> \in Seq(Job) /\ Len(<<>>) = 0 /\ <<>> \o <<>> = <<>>
  BY EmptySeq
<1>2. Writes(<<>>) = 0
  <2>1. \A n \in 1..Len(<<>>) : FALSE
    BY <1>1
  <2> QED
    BY <1>1, <2>1, NoWrites
<1>3. Pending = <<>>
  BY <1>1 DEF Pending
<1> QED
  BY <1>1, <1>2, <1>3 DEF Accounts, OneSentinel

\* The writer takes over what waits: the same jobs are pending.
LEMMA TakeKeeps ==
  ASSUME TypeOK, Accounts, OneSentinel, TakeBatch
  PROVE  Accounts' /\ OneSentinel'
<1> DEFINE n == IF Len(queue) <= BatchMax THEN Len(queue) ELSE BatchMax
<1>1. /\ queue \in Seq(Job) /\ Len(queue) \in Nat /\ n \in 0..Len(queue)
      /\ batch = <<>> /\ owed \in Int /\ dropped \in Nat
  BY StoreAssumption, LenProperties DEF TypeOK, PipelineType, TakeBatch, Accounts
<1>2. /\ batch' = SubSeq(queue, 1, n) /\ queue' = SubSeq(queue, n + 1, Len(queue))
      /\ taken' = Writes(SubSeq(queue, 1, n)) /\ writer = "idle" /\ writer' = "acquiring"
      /\ stopSeen' = (\E m \in 1..n : queue[m].kind = "shutdown")
      /\ UNCHANGED <<dropped, owed, server>>
  BY DEF TakeBatch, Taken, WriterOnly
<1> HIDE DEF n
<1>3. /\ batch' \in Seq(Job) /\ Len(batch') = n /\ \A m \in 1..n : batch'[m] = queue[m]
      /\ queue' \in Seq(Job) /\ Len(queue') = Len(queue) - n
      /\ \A m \in 1..Len(queue') : queue'[m] = queue[n + m] /\ n + m \in 1..Len(queue)
  <2>1. \A m \in 1..Len(queue) : queue[m] \in Job
    BY <1>1, ElementOfSeq
  <2>2. \A m \in 1..n : queue[m] \in Job
    BY <1>1, <2>1
  <2>3. batch' \in Seq(Job) /\ Len(batch') = n /\ \A m \in 1..n : batch'[m] = queue[m]
    BY <1>1, <1>2, <2>2, SubSeqProperties
  <2>4. \A m \in (n + 1)..Len(queue) : queue[m] \in Job
    BY <1>1, <2>1
  <2>5. /\ queue' \in Seq(Job) /\ Len(queue') = Len(queue) - n
        /\ \A m \in 1..Len(queue') : queue'[m] = queue[n + m] /\ n + m \in 1..Len(queue)
    BY <1>1, <1>2, <2>4, SubSeqProperties
  <2> QED
    BY <2>3, <2>5
<1>4. Pending = queue /\ Pending' = queue
  <2>1. batch' \o queue' = queue
    <3>1. SubSeq(queue, 1, Len(queue)) = queue
      BY <1>1, SubSeqFull
    <3>2. 1 \in 1..Len(queue) + 1 /\ n \in (1 - 1)..Len(queue) /\ Len(queue) \in n..Len(queue)
      BY <1>1
    <3> QED
      BY <1>1, <1>2, <3>1, <3>2, ConcatAdjacentSubSeq
  <2> QED
    BY <1>1, <2>1 DEF Pending
<1>5. Writes(Pending)' = Writes(Pending) /\ Writes(batch)' = taken'
  BY <1>2, <1>4 DEF Writes
<1>6. Accounts'
  BY <1>1, <1>2, <1>5 DEF Accounts
<1>7. \A m, k \in 1..Len(queue) : queue[m].kind = "shutdown" /\ queue[k].kind = "shutdown" => m = k
  BY <1>4 DEF OneSentinel, IsShutdown
<1>8. server \in {"up", "closing"} => \A m \in 1..Len(queue) : queue[m].kind # "shutdown"
  BY <1>4 DEF OneSentinel, IsShutdown
<1>9. \A m \in 1..Len(queue') : \A k \in 1..n :
        k \in 1..Len(queue) /\ n + m \in 1..Len(queue) /\ k # n + m
  BY <1>1, <1>3
<1>10. stopSeen' => \A m \in 1..Len(queue') : queue'[m].kind # "shutdown"
  BY <1>2, <1>3, <1>7, <1>9, ZenonT(60)
<1>11. server \in {"up", "closing"} => stopSeen' = FALSE
  BY <1>1, <1>2, <1>8
<1>12. \A m \in 1..Len(batch') : batch'[m].kind = "shutdown" => stopSeen'
  BY <1>2, <1>3
<1> QED
  BY <1>2, <1>4, <1>6, <1>7, <1>8, <1>10, <1>11, <1>12 DEF OneSentinel, IsShutdown

\* The end of a batch with `lost` writes left, or counted without need.
LEMMA EndKeeps ==
  ASSUME TypeOK, Accounts, OneSentinel, EndBatch,
         NEW lost \in Nat, dropped' = dropped + lost, Writes(batch) <= lost
  PROVE  Accounts' /\ OneSentinel'
<1>1. /\ batch' = <<>> /\ stopSeen' = FALSE /\ UNCHANGED <<queue, owed, server>>
      /\ writer' = IF stopSeen THEN "stopped" ELSE "idle"
  BY DEF EndBatch, WriterOnly, WriterAfterBatch
<1>2. /\ Writes(Pending) = Writes(batch) + Writes(queue)
      /\ Writes(batch) \in Nat /\ Writes(queue) \in Nat /\ owed \in Int /\ dropped \in Nat
  BY WritesPending DEF TypeOK, PipelineType
<1>3. Pending' = queue
  BY <1>1, EmptySeq DEF Pending, TypeOK, PipelineType
<1>4. Writes(Pending)' = Writes(queue)
  BY <1>3 DEF Writes
<1>5. Accounts'
  <2>1. PICK a \in Nat, b \in Nat, o \in Int, d \in Nat :
          a = Writes(batch) /\ b = Writes(queue) /\ o = owed /\ d = dropped
    BY <1>2
  <2>2. o <= d + (a + b)
    BY <1>2, <2>1, Zenon DEF Accounts
  <2>3. a <= lost
    BY <2>1, Zenon
  <2>4. o <= (d + lost) + b
    BY <2>2, <2>3
  <2>5. owed' = o /\ dropped' = d + lost /\ Writes(Pending)' = b
    BY <1>1, <1>4, <2>1, Zenon
  <2>6. Covered'
    BY <2>4, <2>5, Zenon DEF Covered
  <2>7. writer' \in {"idle", "stopped"} /\ batch' = <<>>
    BY <1>1
  <2> QED
    BY <2>6, <2>7 DEF Accounts, Covered
<1>6. Shrinks(Len(batch)) /\ Len(batch) \in Nat
  BY EndBatchShrinks, LenProperties DEF TypeOK, PipelineType, EndBatch
<1>7. \A n \in 1..Len(Pending') : n + Len(batch) \in 1..Len(Pending) /\ Pending'[n] = Pending[n + Len(batch)]
  BY <1>6, PendingKept
<1>8. \A m, n \in 1..Len(Pending') : IsShutdown(m)' /\ IsShutdown(n)' => m = n
  <2> TAKE m, n \in 1..Len(Pending')
  <2> HAVE IsShutdown(m)' /\ IsShutdown(n)'
  <2>1. m + Len(batch) = n + Len(batch)
    BY <1>7, ZenonT(60) DEF OneSentinel, IsShutdown
  <2> QED
    BY <1>6, <2>1
<1>9. server \in {"up", "closing"} =>
        writer' \notin {"stopped", "cancelled"} /\ \A n \in 1..Len(Pending') : ~ IsShutdown(n)'
  BY <1>1, <1>7, SMTT(60), ZenonT(60) DEF OneSentinel, IsShutdown
<1>10. writer' = "stopped" => \A n \in 1..Len(queue) : queue[n].kind # "shutdown"
  BY <1>1 DEF OneSentinel
<1>11. \A n \in 1..Len(batch') : FALSE
  BY <1>1
<1> QED
  BY <1>1, <1>5, <1>8, <1>9, <1>10, <1>11 DEF OneSentinel

LEMMA WriterAccounts ==
  ASSUME TypeOK, Accounts, OneSentinel, WriterStep
  PROVE  Accounts' /\ OneSentinel'
<1>1. /\ Writes(Pending) \in Nat /\ owed \in Int /\ dropped \in Nat /\ taken \in Nat
      /\ batch \in Seq(Job)
  BY WritesPending DEF TypeOK, PipelineType
<1>2. CASE TakeBatch
  BY <1>2, TakeKeeps
<1>3. CASE SkipBatch \/ AcquireFails
  <2>1. /\ EndBatch /\ taken = Writes(batch)
        /\ dropped' = dropped + taken
    BY <1>1, <1>3 DEF SkipBatch, AcquireFails, Accounts
  <2> QED
    BY <1>1, <2>1, EndKeeps
<1>4. CASE Release \/ ReleaseFails
  <2>1. Writes(batch) = 0
    <3>1. batch = <<>> /\ Len(<<>>) = 0 /\ \A n \in 1..Len(<<>>) : FALSE
      BY <1>4, EmptySeq DEF Release, ReleaseFails
    <3> QED
      BY <1>1, <3>1, NoWrites
  <2>2. PICK lost \in Nat : dropped' = dropped + lost
    <3>1. CASE Release
      <4>1. dropped' = dropped + 0
        BY <1>1, <3>1 DEF Release
      <4> QED
        BY <4>1
    <3>2. CASE ReleaseFails
      BY <1>1, <3>2 DEF ReleaseFails
    <3> QED
      BY <1>4, <3>1, <3>2
  <2>3. EndBatch /\ Writes(batch) <= lost
    BY <1>4, <2>1 DEF Release, ReleaseFails
  <2> QED
    BY <2>2, <2>3, EndKeeps
<1>5. CASE Acquire
  <2>1. UNCHANGED <<Pending, batch, queue, taken, stopSeen, server, dropped, owed>>
        /\ writer = "acquiring" /\ writer' = "writing"
    BY <1>5 DEF Acquire, Pending, WriterOnly
  <2>2. Writes(Pending)' = Writes(Pending)
    BY <2>1 DEF Writes
  <2>3. OneSentinel'
    BY <2>1, SameShrinks, SentinelKept
  <2> QED
    BY <2>1, <2>2, <2>3 DEF Accounts
<1>6. CASE NextJob /\ (SkipSentinel \/ WriteJob \/ DropJob)
  <2>1. /\ UNCHANGED <<queue, writer, taken, stopSeen, server>> /\ writer = "writing"
        /\ Shrinks(1) /\ \A n \in 1..Len(batch') : \E m \in 1..Len(batch) : batch'[n] = batch[m]
    BY <1>6, NextJobAccounts, NextJobShrinks DEF NextJob, WriterOnly
  <2>2. OneSentinel'
    BY <2>1, SentinelKept
  <2>3. (dropped' + Writes(Pending)') - owed' >= (dropped + Writes(Pending)) - owed
        /\ dropped' \in Int /\ owed' \in Int /\ Writes(Pending)' \in Int
    <3>0. PICK d \in Int, o \in Int, w \in Int : d = dropped /\ o = owed /\ w = Writes(Pending)
      BY <1>1
    <3>1. CASE SkipSentinel
      <4>1. dropped' = d /\ owed' = o /\ Writes(Pending)' = w
        BY <1>6, <3>0, <3>1, NextJobAccounts DEF SkipSentinel
      <4> QED
        BY <3>0, <4>1
    <3>2. Head(batch).kind # "shutdown" => Writes(Pending)' = w - 1
      BY <1>6, <3>0, NextJobAccounts
    <3>3. CASE WriteJob
      <4>1. dropped' = d /\ owed' = o - 1 /\ Writes(Pending)' = w - 1
        BY <3>0, <3>2, <3>3 DEF WriteJob, Apply
      <4> QED
        BY <3>0, <4>1
    <3>4. CASE DropJob
      <4>1. dropped' = d + 1 /\ (owed' = o \/ owed' = o - 1) /\ Writes(Pending)' = w - 1
        BY <3>0, <3>2, <3>4 DEF DropJob
      <4> QED
        BY <3>0, <4>1
    <3> QED
      BY <1>6, <3>1, <3>3, <3>4
  <2>4. owed' <= dropped' + Writes(Pending)'
    <3>1. owed \in Int /\ dropped \in Int /\ Writes(Pending) \in Int
      BY <1>1
    <3>2. Covered'
      BY <2>3, <3>1, StaysCovered
    <3> QED
      BY <3>2 DEF Covered
  <2>5. Accounts'
    BY <2>1, <2>4 DEF Accounts
  <2> QED
    BY <2>2, <2>5
<1> QED
  BY <1>2, <1>3, <1>4, <1>5, <1>6 DEF WriterStep, WriterAlone, WriterAnswered, SkipSentinel, WriteJob, DropJob

\* Inductive, with the invariant of the store for the types and the jobs a caller offers.
LEMMA WritesInvariant == Spec => [](StoreInv /\ WritesInv)
<1>1. Init => Accounts /\ OneSentinel
  BY FreshAccounts DEF Init
<1>0. queue = <<>> /\ batch = <<>> /\ dropped = 0 /\ owed = 0 /\ stopSeen = FALSE /\ writer = "idle"
            => Accounts /\ OneSentinel
  BY FreshAccounts
<1>2. StoreInv /\ StoreInv' /\ Accounts /\ OneSentinel /\ [Next]_vars => Accounts' /\ OneSentinel'
  <2> SUFFICES ASSUME StoreInv, StoreInv', Accounts, OneSentinel, [Next]_vars
               PROVE  Accounts' /\ OneSentinel'
    OBVIOUS
  <2>1. TypeOK
    BY DEF StoreInv
  <2>2. CASE RegisterPrompt \/ \E r \in Callers : CallerStep(r)
    BY <2>1, <2>2, OffersKeep DEF WritesInv
  <2>3. CASE WriterStep
    BY <2>1, <2>3, WriterAccounts
  <2>4. CASE Close \/ SentinelAccepted \/ Drained \/ DrainTimesOut \/ UNCHANGED vars
    BY <2>1, <2>4, LifeKeeps
  <2>5. CASE Restart
    <3>1. (queue = <<>> /\ batch = <<>> /\ dropped = 0 /\ owed = 0 /\ stopSeen = FALSE /\ writer = "idle")'
      BY <2>5 DEF Restart
    <3> QED
      BY <1>0, <3>1, PTL
  <2> QED
    BY <2>2, <2>3, <2>4, <2>5 DEF Next
<1>3. StoreInv /\ Accounts /\ OneSentinel => StoreInv /\ WritesInv
  BY DEF StoreInv, WritesInv
<1> QED
  BY <1>1, <1>2, <1>3, StoreInvariant, PTL DEF Spec

\* No interleaving of callers, failures, a full queue, batches, shutdowns and restarts loses a
\* write without counting it.
THEOREM EveryDropCounted == Spec => []DropsCounted
<1>1. WritesInv => DropsCounted
  BY DEF WritesInv, Accounts, DropsCounted
<1> QED
  BY <1>1, WritesInvariant, PTL

\* Whatever fails, a writer that has stopped has settled all it took, and everything queued
\* before the sentinel: what was lost is counted, and no sentinel is left in the queue.
THEOREM StopDrains == Spec => []StopsDrained
<1>1. WritesInv => StopsDrained
  <2> SUFFICES ASSUME WritesInv, writer = "stopped"
               PROVE  /\ owed <= dropped + Writes(queue)
                      /\ \A n \in 1..Len(queue) : queue[n].kind # "shutdown"
    BY DEF StopsDrained
  <2>1. Pending = queue
    BY EmptySeq DEF Pending, WritesInv, Accounts, TypeOK, PipelineType
  <2> QED
    BY <2>1 DEF WritesInv, Accounts, OneSentinel
<1> QED
  BY <1>1, WritesInvariant, PTL

-----------------------------------------------------------------------------
(* The store implements ConversationLog. *)

\* Two facts beside the store's inductive invariant: a thread that is not served knows
\* nothing, and no queued write of a thread row writes "absent".
UnservedKnowsNothing == \A i \in ThreadIds : ~ Served(i) => mem[i].turns = {}
WritesPresence ==
  \A n \in 1..Len(Pending) : Pending[n].kind \in {"thread", "turn"} => Pending[n].status # "absent"
LogInv == StoreInv /\ UnservedKnowsNothing /\ WritesPresence

-----------------------------------------------------------------------------
(* What is pending keeps writing threads that are there.                   *)

LEMMA PresenceKept ==
  ASSUME TypeOK, WritesPresence, NEW k \in Nat, Shrinks(k)
  PROVE  WritesPresence'
<1> SUFFICES ASSUME NEW n \in 1..Len(Pending'), Pending'[n].kind \in {"thread", "turn"}
             PROVE  Pending'[n].status # "absent"
  BY DEF WritesPresence
<1>1. Len(Pending) \in Nat
  BY PendingType
<1>2. n + k \in 1..Len(Pending) /\ Pending'[n] = Pending[n + k]
  BY <1>1 DEF Shrinks
<1> QED
  BY <1>2 DEF WritesPresence

LEMMA PresenceAdded ==
  ASSUME TypeOK, WritesPresence, NEW jobs \in Seq(Job), Grows(jobs),
         \A m \in 1..Len(jobs) : jobs[m].kind \in {"thread", "turn"} => jobs[m].status # "absent"
  PROVE  WritesPresence'
<1> SUFFICES ASSUME NEW n \in 1..Len(Pending'), Pending'[n].kind \in {"thread", "turn"}
             PROVE  Pending'[n].status # "absent"
  BY DEF WritesPresence
<1>1. Len(Pending) \in Nat /\ Len(jobs) \in Nat
  BY PendingType, LenProperties
<1>2. CASE n \in 1..Len(Pending)
  BY <1>2 DEF Grows, WritesPresence
<1>3. CASE n \notin 1..Len(Pending)
  <2>1. n \in (Len(Pending) + 1)..Len(Pending') /\ n - Len(Pending) \in 1..Len(jobs)
    BY <1>1, <1>3 DEF Grows
  <2> QED
    BY <2>1 DEF Grows
<1> QED
  BY <1>2, <1>3

\* A step that queues one job.
LEMMA OneJobPresence ==
  ASSUME TypeOK, WritesPresence, NEW j \in Job, Enqueue(<<j>>), UNCHANGED batch,
         j.kind \in {"thread", "turn"} => j.status # "absent"
  PROVE  WritesPresence'
<1>1. <<j>> \in Seq(Job) /\ Len(<<j>>) = 1 /\ <<j>>[1] = j
  OBVIOUS
<1>2. Grows(<<j>>)
  BY <1>1, EnqueueGrows
<1>3. \A m \in 1..Len(<<j>>) : <<j>>[m].kind \in {"thread", "turn"} => <<j>>[m].status # "absent"
  BY <1>1
<1> QED
  BY <1>1, <1>2, <1>3, PresenceAdded

\* A step that leaves the pipeline alone.
LEMMA SamePresence ==
  ASSUME TypeOK, WritesPresence, UNCHANGED <<queue, batch>>
  PROVE  WritesPresence'
BY SMTT(60), ZenonT(60) DEF WritesPresence, Pending

\* A step that makes a thread.
LEMMA CreatePresence ==
  ASSUME TypeOK, WritesPresence, NEW s \in Sessions, NEW jobs \in Seq(Job), Create(s, jobs),
         UNCHANGED batch, Len(jobs) <= 1,
         \A m \in 1..Len(jobs) : jobs[m].status = "resolved"
  PROVE  WritesPresence'
<1> DEFINE row == ThreadJob(Len(born) + 1, "active", current)
           all == jobs \o <<row>>
<1>1. row \in Job /\ row.status = "active"
  <2>1. Len(born) + 1 \in 0..MaxThreads /\ current \in Prompt /\ "active" \in Statuses
    BY CreateType, StoreAssumption DEF TypeOK, ProcessType, ThreadIds
  <2>2. row \in Job
    BY <2>1, JobTypes
  <2> QED
    BY <2>2 DEF ThreadJob
<1>2. /\ <<row>> \in Seq(Job) /\ Len(<<row>>) = 1 /\ <<row>>[1] = row /\ Len(jobs) \in Nat
  BY <1>1, LenProperties
<1>3. /\ all \in Seq(Job) /\ Len(all) = Len(jobs) + 1
      /\ \A m \in 1..Len(jobs) : all[m] = jobs[m]
      /\ all[Len(jobs) + 1] = row
  <2> HIDE DEF row
  <2>1. /\ all \in Seq(Job) /\ Len(all) = Len(jobs) + 1
        /\ \A m \in 1..Len(jobs) : all[m] = jobs[m]
        /\ \A m \in (Len(jobs) + 1)..(Len(jobs) + 1) : all[m] = <<row>>[m - Len(jobs)]
    BY <1>2, PendingShape
  <2>2. (Len(jobs) + 1) - Len(jobs) = 1 /\ Len(jobs) + 1 \in (Len(jobs) + 1)..(Len(jobs) + 1)
    BY <1>2
  <2> QED
    BY <1>2, <2>1, <2>2
<1>4. Enqueue(all)
  BY DEF Create
<1> HIDE DEF all, row
<1>5. \A m \in 1..Len(all) : all[m].status # "absent"
  <2> TAKE m \in 1..Len(all)
  <2>1. m \in 1..Len(jobs) \/ m = Len(jobs) + 1
    BY <1>2, <1>3
  <2> QED
    BY <1>1, <1>3, <2>1
<1>6. Grows(all)
  BY <1>3, <1>4, EnqueueGrows
<1> QED
  BY <1>3, <1>5, <1>6, PresenceAdded

-----------------------------------------------------------------------------
(* What a step makes of the log.                                           *)

LEMMA QuietLog ==
  ASSUME UNCHANGED <<born, dbStatus, dbTurns>>,
         \A i \in ThreadIds : mem'[i].turns = mem[i].turns
           /\ (mem'[i].status = "absent" <=> mem[i].status = "absent")
  PROVE  UNCHANGED Log!vars
BY DEF Log!vars

\* A step of the log on one thread is a step of the log.
LEMMA ThreadOfLog ==
  ASSUME NEW i \in ThreadIds,
         Log!Say(i) \/ Log!KeepThread(i) \/ Log!KeepTurn(i) \/ Log!TakeUp(i)
  PROVE  Log!Next
<1>1. i \in DOMAIN [k \in ThreadIds |-> mem[k].turns]
  OBVIOUS
<1> QED
  BY <1>1 DEF Log!Next

\* A new thread is a conversation made, one the log knew nothing of.
LEMMA MakeLog ==
  ASSUME LogInv, NEW s \in Sessions, NEW jobs \in Seq(Job), Create(s, jobs), UNCHANGED dbVars,
         mem'[Len(born) + 1] = NewThread,
         \A k \in ThreadIds : k # Len(born) + 1 =>
           /\ mem'[k].turns = mem[k].turns
           /\ mem'[k].status = "absent" <=> mem[k].status = "absent"
  PROVE  Log!Next
<1> DEFINE new == Len(born) + 1
           own  == [i \in 1..Len(born) |-> born[i].session]
           own1 == [i \in 1..Len(born') |-> born'[i].session]
<1>1. /\ Len(born) \in Nat /\ new \in ThreadIds /\ Len(born') = new
      /\ born' = Append(born, [session |-> s, prompt |-> current])
      /\ born \in Seq([session : Sessions, prompt : Prompt])
  BY CreateType, LenProperties DEF Create, LogInv, StoreInv, TypeOK, ProcessType
<1>2. /\ \A i \in 1..Len(born) : born'[i] = born[i]
      /\ born'[new].session = s
      /\ \A i \in 1..Len(born) : born[i].session \in Sessions
  <2>1. \A i \in 1..Len(born) : born[i] \in [session : Sessions, prompt : Prompt]
    BY <1>1, ElementOfSeq
  <2> QED
    BY <1>1, <2>1, AppendProperties
<1>3. own1 = Append(own, s)
  <2>1. own \in Seq(Sessions) /\ Len(own) = Len(born)
    <3>1. own \in Seq(Sessions) /\ DOMAIN own = 1..Len(born)
      BY <1>1, <1>2, IsASeq
    <3> HIDE DEF own
    <3> QED
      BY <1>1, <3>1, LenProperties
  <2>2. own1 \in Seq(Sessions) /\ Len(own1) = new
    <3>1. \A i \in 1..new : born'[i].session \in Sessions
      BY <1>1, <1>2
    <3>2. own1 \in Seq(Sessions) /\ DOMAIN own1 = 1..new
      BY <1>1, <3>1, IsASeq
    <3> HIDE DEF own1
    <3> QED
      BY <1>1, <3>2, LenProperties
  <2>3. /\ Append(own, s) \in Seq(Sessions) /\ Len(Append(own, s)) = new
        /\ \A i \in 1..Len(born) : Append(own, s)[i] = own[i]
        /\ Append(own, s)[new] = s
    BY <1>1, <2>1, AppendProperties
  <2>4. \A i \in 1..new : own1[i] = Append(own, s)[i]
    <3> TAKE i \in 1..new
    <3>1. i \in 1..Len(born) \/ i = new
      BY <1>1
    <3> QED
      BY <1>1, <1>2, <2>3, <3>1
  <2> QED
    BY <2>2, <2>3, <2>4, SeqEqual, ZenonT(60)
<1>4. mem[new].turns = {} /\ mem[new].status = "absent" /\ mem'[new].turns = {}
      /\ mem'[new].status = "active"
  BY <1>1 DEF LogInv, StoreInv, UnbornBlank, Blank, UnservedKnowsNothing, Served, NewThread
<1>5. {i \in ThreadIds : mem'[i].status # "absent"} = {i \in ThreadIds : mem[i].status # "absent"} \cup {Len(own) + 1}
  BY <1>1, <1>4
<1>6. \A i \in ThreadIds : mem'[i].turns = mem[i].turns
  BY <1>4
<1>7. Log!Make(s)
  BY <1>3, <1>5, <1>6, ZenonT(60) DEF Log!Make, dbVars
<1>8. new \in DOMAIN own1 /\ own1[new] = s
  BY <1>1, <1>2
<1> QED
  BY <1>7, <1>8 DEF Log!Next

\* A turn appended in memory is a turn said, whatever the queue does with its row.
LEMMA AppendLog ==
  ASSUME LogInv, NEW r \in Callers, AppendTurn(r)
  PROVE  LogInv' /\ Log!Next
<1> DEFINE i    == call[r].thread
           turn == [seq |-> NextSeq(i), at |-> clock + 1]
           job  == TurnJob(i, mem[i].status, born[i].prompt, turn)
<1>1. /\ TypeOK /\ i \in ThreadIds /\ i \in 1..Len(born) /\ Served(i) /\ mem[i].last \in Nat
      /\ clock \in Nat /\ mem \in [ThreadIds -> Thread] /\ i \in 0..MaxThreads
  BY HeldThread, SMTT(60) DEF LogInv, StoreInv, AppendTurn, TypeOK, ProcessType
<1>2. turn \in Stamped /\ turn.seq = mem[i].last + 1
  BY <1>1 DEF NextSeq
<1>3. /\ mem' = [mem EXCEPT ![i].turns = @ \cup {turn}, ![i].last = turn.seq]
      /\ Enqueue(<<job>>) /\ UNCHANGED <<born, batch, dbStatus, dbTurns>>
  BY DEF AppendTurn, WriterIdles, dbVars
<1>4. /\ mem'[i].turns = mem[i].turns \cup {turn} /\ mem'[i].status = mem[i].status
      /\ \A k \in ThreadIds : k # i => mem'[k] = mem[k]
  <2> HIDE DEF turn, i
  <2> QED
    BY <1>1, <1>3
<1>5. UnservedKnowsNothing'
  BY <1>1, <1>4 DEF LogInv, UnservedKnowsNothing, Served
<1>6. WritesPresence'
  <2>1. born[i] \in [session : Sessions, prompt : Prompt]
    BY <1>1, ElementOfSeq DEF TypeOK, ProcessType
  <2>2. job \in Job /\ job.status = mem[i].status
    BY <1>1, <1>2, <2>1, JobTypes, SMTT(60), ZenonT(60) DEF TurnJob
  <2> HIDE DEF job
  <2> QED
    BY <1>1, <1>3, <2>2, OneJobPresence DEF LogInv, Served
<1>7. PICK n \in ThreadIds : n = i
  BY <1>1
<1>8. Log!Say(n)
  <2>1. \A t \in mem[i].turns : t.seq < turn.seq
    <3> TAKE t \in mem[i].turns
    <3>1. t.seq <= mem[i].last /\ t.seq \in Nat
      BY <1>1 DEF LogInv, StoreInv, LastIsLast
    <3> QED
      BY <1>1, <1>2, <3>1, SMTT(60)
  <2>2. /\ [k \in ThreadIds |-> mem'[k].turns]
             = [[k \in ThreadIds |-> mem[k].turns] EXCEPT ![i] = @ \cup {turn}]
        /\ turn \in mem'[i].turns
    BY <1>1, <1>4
  <2>3. {k \in ThreadIds : mem'[k].status # "absent"} = {k \in ThreadIds : mem[k].status # "absent"}
    BY <1>4
  <2> HIDE DEF turn, i
  <2> QED
    BY <1>1, <1>3, <1>7, <2>1, <2>2, <2>3 DEF Log!Say, Log!Behind, Served
<1>9. StoreInv'
  BY AppendKeeps DEF LogInv
<1> QED
  BY <1>5, <1>6, <1>8, <1>9, ThreadOfLog, SMTT(60) DEF LogInv

\* A thread upsert is a thread kept.
LEMMA UpsertLog ==
  ASSUME LogInv, NEW j \in Job, j.kind \in {"thread", "turn"}, JobSound(j), j.status # "absent",
         UpsertThread(j), UNCHANGED <<born, mem>>
  PROVE  /\ j.thread \in 1..Len(born) /\ j.thread \in ThreadIds
         /\ {i \in ThreadIds : dbStatus'[i] # "absent"}
              = {i \in ThreadIds : dbStatus[i] # "absent"} \cup {j.thread}
<1>1. j.thread \in 1..Len(born) /\ j.thread \in ThreadIds
  BY LenProperties, StoreAssumption
  DEF Job, JobSound, LogInv, StoreInv, TypeOK, ProcessType, ThreadIds
<1> QED
  BY <1>1 DEF UpsertThread, LogInv, StoreInv, TypeOK, DatabaseType

\* The writer keeps threads and turns, one statement at a time, or does nothing to the log.
LEMMA WriterLog ==
  ASSUME LogInv, WriterStep
  PROVE  LogInv' /\ (Log!Next \/ UNCHANGED Log!vars)
<1> DEFINE j == Head(batch)
<1>1. TypeOK /\ StoreInv' /\ WritesPresence /\ Len(batch) \in Nat /\ Len(Pending) \in Nat
  BY WriterKeeps, PendingType, LenProperties DEF LogInv, StoreInv, TypeOK, PipelineType
<1>2. UNCHANGED <<born, mem>> /\ UnservedKnowsNothing'
  BY DEF WriterStep, WriterAlone, WriterAnswered, TakeBatch, SkipBatch, EndBatch, Acquire, AcquireFails, SkipSentinel, WriteJob,
         DropJob, Release, ReleaseFails, NextJob, WriterOnly, procVars, LogInv,
         UnservedKnowsNothing, Served
<1>3. ASSUME \E k \in Nat : Shrinks(k) PROVE LogInv'
  BY <1>1, <1>2, <1>3, PresenceKept DEF LogInv
<1>4. ASSUME UNCHANGED <<dbStatus, dbTurns>> PROVE UNCHANGED Log!vars
  BY <1>2, <1>4, QuietLog
<1>5. ASSUME NextJob
      PROVE  /\ j \in Job /\ JobSound(j) /\ Shrinks(1)
             /\ j.kind \in {"thread", "turn"} => j.status # "absent"
  BY <1>1, <1>5, NextJobShrinks, PendingType DEF LogInv, StoreInv, JobsSound, WritesPresence
<1>6. CASE TakeBatch
  BY <1>1, <1>3, <1>4, <1>6, TakeBatchShrinks DEF TakeBatch, dbVars
<1>7. CASE SkipBatch \/ AcquireFails \/ Release \/ ReleaseFails
  BY <1>1, <1>3, <1>4, <1>7, EndBatchShrinks
  DEF SkipBatch, AcquireFails, Release, ReleaseFails, EndBatch, dbVars
<1>8. CASE Acquire
  <2>1. UNCHANGED Pending /\ UNCHANGED <<dbStatus, dbTurns>>
    BY <1>8 DEF Acquire, Pending, dbVars
  <2> QED
    BY <1>1, <1>3, <1>4, <2>1, SameShrinks
<1>9. CASE SkipSentinel
  BY <1>3, <1>4, <1>5, <1>9 DEF SkipSentinel, dbVars
<1> HIDE DEF j
<1>10. ASSUME NextJob, j.kind \in {"thread", "turn"}, UpsertThread(j), UNCHANGED dbTurns
       PROVE  Log!Next
  <2>1. /\ j.thread \in 1..Len(born) /\ j.thread \in ThreadIds
        /\ {i \in ThreadIds : dbStatus'[i] # "absent"}
             = {i \in ThreadIds : dbStatus[i] # "absent"} \cup {j.thread}
    BY <1>2, <1>5, <1>10, UpsertLog
  <2>2. PICK k \in ThreadIds : k = j.thread
    BY <2>1
  <2>3. Log!KeepThread(k)
    BY <1>2, <1>10, <2>1, <2>2 DEF Log!KeepThread, Log!Threads
  <2> QED
    BY <2>3, ThreadOfLog
<1>11. ASSUME NextJob, j.kind = "turn", UpsertThread(j), InsertTurn(j)
       PROVE  Log!Next
  <2> DEFINE i == j.thread
             row == [seq |-> j.seq, at |-> j.at]
  <2>1. /\ i \in 1..Len(born) /\ i \in ThreadIds
        /\ {k \in ThreadIds : dbStatus'[k] # "absent"}
             = {k \in ThreadIds : dbStatus[k] # "absent"} \cup {i}
    BY <1>2, <1>5, <1>11, UpsertLog
  <2>2. row \in mem[i].turns /\ \A t \in dbTurns[i] : t.seq < j.seq
    BY <1>5, <1>11 DEF JobSound
  <2>3. Served(i)
    BY <2>1, <2>2 DEF LogInv, UnservedKnowsNothing
  <2>4. dbTurns' = [dbTurns EXCEPT ![i] = @ \cup {row}]
    <3>1. \A t \in dbTurns[i] : t.seq \in Nat /\ j.seq \in Nat
      BY <1>1, <1>5, <1>11, <2>1 DEF TypeOK, DatabaseType, Job
    <3> QED
      BY <1>11, <2>2, <3>1 DEF InsertTurn
  <2>5. row.seq = j.seq
    OBVIOUS
  <2> HIDE DEF row, i
  <2>6. PICK k \in ThreadIds : k = i
    BY <2>1
  <2>7. Log!KeepTurn(k)
    BY <1>2, <2>1, <2>2, <2>3, <2>4, <2>5, <2>6 DEF Log!KeepTurn, Log!Behind, Served
  <2> QED
    BY <2>7, ThreadOfLog
<1>12. ASSUME NextJob, Apply(j) PROVE LogInv' /\ (Log!Next \/ UNCHANGED Log!vars)
  BY <1>3, <1>4, <1>5, <1>10, <1>11, <1>12 DEF Apply
<1>13. CASE WriteJob
  BY <1>12, <1>13 DEF WriteJob, j
<1>14. CASE DropJob
  <2>1. /\ NextJob
        /\ UNCHANGED dbVars \/ ApplyInPart(j) \/ Apply(j)
    BY <1>14 DEF DropJob, j
  <2>2. CASE UNCHANGED dbVars
    BY <1>3, <1>4, <1>5, <2>1, <2>2 DEF dbVars
  <2>3. CASE ApplyInPart(j)
    BY <1>3, <1>4, <1>5, <1>10, <2>1, <2>3 DEF ApplyInPart
  <2> QED
    BY <1>12, <2>1, <2>2, <2>3
<1> QED
  BY <1>6, <1>7, <1>8, <1>9, <1>13, <1>14 DEF WriterStep, WriterAlone, WriterAnswered

\* What a step of the log, or of none, keeps of the two extra facts.
LEMMA QuietKeeps ==
  ASSUME LogInv, StoreInv', WritesPresence', UNCHANGED <<born, mem, dbStatus, dbTurns>>
  PROVE  LogInv' /\ UNCHANGED Log!vars
<1>1. UnservedKnowsNothing'
  BY DEF LogInv, UnservedKnowsNothing, Served
<1>2. UNCHANGED Log!vars
  BY QuietLog
<1> QED
  BY <1>1, <1>2 DEF LogInv

\* A thread made for session s, after the jobs that close the one it replaces.
LEMMA CreateLog ==
  ASSUME LogInv, StoreInv', NEW s \in Sessions, NEW jobs \in Seq(Job), Create(s, jobs),
         UNCHANGED <<batch, dbVars>>, Len(jobs) <= 1,
         \A m \in 1..Len(jobs) : jobs[m].status = "resolved",
         mem'[Len(born) + 1] = NewThread,
         \A k \in ThreadIds : k # Len(born) + 1 =>
           /\ mem'[k].turns = mem[k].turns
           /\ mem'[k].status = "absent" <=> mem[k].status = "absent"
  PROVE  LogInv' /\ Log!Next
<1>1. WritesPresence'
  BY CreatePresence DEF LogInv, StoreInv
<1>2. UnservedKnowsNothing'
  BY DEF LogInv, UnservedKnowsNothing, Served, NewThread
<1>3. Log!Next
  BY MakeLog
<1> QED
  BY <1>1, <1>2, <1>3 DEF LogInv

\* The closing job of a reset, or none.
LEMMA CloseJobsShape ==
  ASSUME TypeOK, NEW i \in 0..MaxThreads, NEW b \in BOOLEAN, b => i \in 1..Len(born),
         NEW jobs, jobs = IF b THEN <<ThreadJob(i, "resolved", born[i].prompt)>> ELSE <<>>
  PROVE  jobs \in Seq(Job) /\ Len(jobs) <= 1 /\ \A m \in 1..Len(jobs) : jobs[m].status = "resolved"
<1>1. jobs \in Seq(Job)
  BY CloseJobs
<1>2. ThreadJob(i, "resolved", born[i].prompt).status = "resolved"
  BY DEF ThreadJob
<1> QED
  BY <1>1, <1>2

LEMMA EnterLog ==
  ASSUME LogInv, NEW r \in Callers, NEW s \in Sessions, Enter(r, s)
  PROVE  LogInv' /\ (Log!Next \/ UNCHANGED Log!vars)
<1>1. TypeOK /\ StoreInv' /\ WritesPresence /\ UNCHANGED <<batch, dbVars>>
  BY EnterKeeps DEF LogInv, StoreInv, Enter, WriterIdles
<1>2. ASSUME NoEnqueue, UNCHANGED <<born, mem>> PROVE LogInv' /\ UNCHANGED Log!vars
  BY <1>1, <1>2, SamePresence, QuietKeeps DEF NoEnqueue, dbVars
<1>3. CASE GetCached(r, s) \/ AwaitRow(r, "get", s) \/ AwaitRow(r, "reset", s)
  BY <1>2, <1>3 DEF GetCached, AwaitRow
<1>4. CASE ResetCached(r, s)
  <2> DEFINE old == cache[s]
             new == Len(born) + 1
             b == mem[old].status = "active"
             jobs == IF b THEN <<ThreadJob(old, "resolved", born[old].prompt)>> ELSE <<>>
  <2>1. /\ old \in 0..MaxThreads /\ old # 0 /\ old \in 1..Len(born) /\ old \in ThreadIds
        /\ mem \in [ThreadIds -> Thread] /\ Len(born) \in Nat /\ Served(old)
    <3>1. old \in 0..MaxThreads /\ old # 0 /\ mem \in [ThreadIds -> Thread] /\ Len(born) \in Nat
      BY <1>1, <1>4, LenProperties DEF ResetCached, TypeOK, ProcessType
    <3>2. old <= Len(born) /\ Served(old)
      BY <1>4, <3>1 DEF ResetCached, TypeOK, IdsBorn, LogInv, StoreInv, CacheServes
    <3> HIDE DEF old
    <3> QED
      BY <3>1, <3>2, StoreAssumption DEF ThreadIds
  <2>2. Create(s, jobs) /\ mem' = [Resolved(old) EXCEPT ![new] = NewThread]
    BY <1>4 DEF ResetCached
  <2>3. jobs \in Seq(Job) /\ Len(jobs) <= 1 /\ \A m \in 1..Len(jobs) : jobs[m].status = "resolved"
    <3> HIDE DEF old, b
    <3> QED
      BY <1>1, <2>1, CloseJobsShape, ZenonT(60)
  <2> HIDE DEF jobs
  <2>4. new \in ThreadIds
    BY <1>1, <2>2, <2>3, CreateType
  <2>5. /\ mem'[new] = NewThread
        /\ \A k \in ThreadIds : k # new =>
             /\ mem'[k].turns = mem[k].turns
             /\ mem'[k].status = "absent" <=> mem[k].status = "absent"
    <3> HIDE DEF new, old
    <3> QED
      BY <2>1, <2>2, <2>4, SMTT(60) DEF Resolved, Served
  <2> QED
    BY <1>1, <2>2, <2>3, <2>5, CreateLog, SMTT(60)
<1> QED
  BY <1>3, <1>4 DEF Enter

LEMMA InstallLog ==
  ASSUME LogInv, NEW r \in Callers, Install(r)
  PROVE  LogInv' /\ (Log!Next \/ UNCHANGED Log!vars)
<1> DEFINE s == call[r].session
           i == call[r].thread
           new == Len(born) + 1
<1>1. /\ TypeOK /\ StoreInv' /\ WritesPresence /\ UNCHANGED <<batch, dbVars>>
      /\ s \in Sessions /\ i \in 0..MaxThreads /\ i <= Len(born) /\ call[r].pc = "install"
      /\ mem \in [ThreadIds -> Thread] /\ Len(born) \in Nat
  BY InstallKeeps, LenProperties, ZenonT(60)
  DEF LogInv, StoreInv, Install, WriterIdles, TypeOK, ProcessType, IdsBorn, Call
<1>2. ASSUME NoEnqueue, UNCHANGED <<born, mem>> PROVE LogInv' /\ UNCHANGED Log!vars
  BY <1>1, <1>2, SamePresence, QuietKeeps DEF NoEnqueue, dbVars
<1>3. ASSUME Existing(s) = 0, i # 0, mem' = [mem EXCEPT ![i] = call[r].found], NoEnqueue, UNCHANGED born
      PROVE  LogInv' /\ Log!Next
  <2>1. /\ i \in ThreadIds /\ i \in 1..Len(born) /\ cache[s] = 0
        /\ OwnerOf(i) = s /\ call[r].found.status # "absent" /\ IsNewestRow(s, i)
        /\ call[r].found.turns = dbTurns[i]
    BY <1>1, <1>3, StoreAssumption, SMTT(60) DEF LogInv, StoreInv, ReadsCurrent, ReadCurrent, ThreadIds, Existing
  <2>2. /\ mem'[i] = call[r].found /\ \A k \in ThreadIds : k # i => mem'[k] = mem[k]
    BY <1>1, <1>3, <2>1
  <2>3. UnservedKnowsNothing' /\ WritesPresence'
    BY <1>1, <1>3, <2>1, <2>2, SamePresence DEF LogInv, UnservedKnowsNothing, Served, NoEnqueue
  <2>4. PICK k \in ThreadIds : k = i
    BY <2>1
  <2>5. Log!TakeUp(k)
    <3>1. ASSUME NEW j \in 1..Len(born), born[j].session = born[k].session
          PROVE  /\ ~ Served(j)
                 /\ j > k => dbStatus[j] = "absent"
      <4>1. OwnerOf(j) = s
        BY <2>1, <2>4, <3>1 DEF OwnerOf
      <4>2. ~ Served(j)
        BY <2>1, <4>1 DEF LogInv, StoreInv, CacheServes
      <4>3. j > k => j \in (k + 1)..Len(born)
        BY <1>1, <2>1, <2>4
      <4> QED
        BY <2>1, <2>4, <4>1, <4>2, <4>3 DEF IsNewestRow
    <3>2. dbStatus[k] # "absent"
      BY <2>1, <2>4 DEF IsNewestRow
    <3>3. {m \in ThreadIds : mem'[m].status # "absent"} = {m \in ThreadIds : mem[m].status # "absent"} \cup {k}
      BY <2>1, <2>2, <2>4
    <3>4. [m \in ThreadIds |-> mem'[m].turns] = [[m \in ThreadIds |-> mem[m].turns] EXCEPT ![k] = dbTurns[k]]
      BY <2>1, <2>2, <2>4, ZenonT(60)
    <3> HIDE DEF i, s
    <3> QED
      BY <1>1, <1>3, <2>4, <3>1, <3>2, <3>3, <3>4, SMTT(60) DEF Log!TakeUp, Log!Threads, Served, dbVars
  <2> QED
    BY <1>1, <2>3, <2>5, ThreadOfLog, SMTT(60) DEF LogInv
<1>4. ASSUME NEW jobs \in Seq(Job), Len(jobs) <= 1, Create(s, jobs),
             \A m \in 1..Len(jobs) : jobs[m].status = "resolved",
             mem' = [mem EXCEPT ![new] = NewThread]
      PROVE  LogInv' /\ Log!Next
  <2>1. new \in ThreadIds
    BY <1>1, <1>4, CreateType
  <2>2. mem'[new] = NewThread /\ \A k \in ThreadIds : k # new => mem'[k] = mem[k]
    <3> HIDE DEF new, Thread
    <3> QED
      BY <1>1, <1>4, <2>1
  <2> HIDE DEF s
  <2> QED
    BY <1>1, <1>4, <2>2, CreateLog
<1>5. CASE InstallGet(r)
  <2>1. CASE Existing(s) # 0 /\ NoEnqueue /\ UNCHANGED <<born, mem>>
    BY <1>2, <2>1
  <2>2. CASE /\ Existing(s) = 0 /\ i # 0 /\ mem' = [mem EXCEPT ![i] = call[r].found]
             /\ NoEnqueue /\ UNCHANGED born
    BY <1>3, <2>2
  <2>3. CASE Create(s, <<>>) /\ mem' = [mem EXCEPT ![new] = NewThread]
    <3>1. <<>> \in Seq(Job) /\ Len(<<>>) <= 1 /\ \A m \in 1..Len(<<>>) : <<>>[m].status = "resolved"
      OBVIOUS
    <3> QED
      BY <1>4, <2>3, <3>1
  <2> QED
    BY <1>5, <2>1, <2>2, <2>3 DEF InstallGet
<1>6. CASE InstallReset(r)
  <2> DEFINE b == call[r].found.status = "active"
             jobs == IF b THEN <<ThreadJob(i, "resolved", born[i].prompt)>> ELSE <<>>
  <2>1. Create(s, jobs) /\ mem' = [mem EXCEPT ![new] = NewThread]
    BY <1>6 DEF InstallReset
  <2>2. b => i \in 1..Len(born)
    BY <1>1 DEF TypeOK, IdsBorn
  <2>3. jobs \in Seq(Job) /\ Len(jobs) <= 1 /\ \A m \in 1..Len(jobs) : jobs[m].status = "resolved"
    <3> HIDE DEF b, i
    <3> QED
      BY <1>1, <2>2, CloseJobsShape, ZenonT(60)
  <2> HIDE DEF jobs
  <2> QED
    BY <1>4, <2>1, <2>3
<1> QED
  BY <1>5, <1>6 DEF Install

-----------------------------------------------------------------------------
(* The other steps, and the theorem.                                       *)

LEMMA CallerLog ==
  ASSUME LogInv, NEW r \in Callers, CallerStep(r)
  PROVE  LogInv' /\ (Log!Next \/ UNCHANGED Log!vars)
<1>1. TypeOK /\ WritesPresence
  BY DEF LogInv, StoreInv
<1>2. CASE RowArrives(r) \/ TurnsArrive(r) \/ Leave(r)
  <2>1. StoreInv' /\ UNCHANGED <<queue, batch, born, mem, dbStatus, dbTurns>>
    BY <1>2, QueryKeeps, LeaveKeeps, ZenonT(60) DEF LogInv, RowArrives, TurnsArrive, Leave, pipeVars, dbVars
  <2> QED
    BY <1>1, <2>1, SamePresence, QuietKeeps, SMTT(60)
<1>3. CASE RecordFeedback(r)
  <2>1. StoreInv' /\ UNCHANGED <<batch, born, mem, dbStatus, dbTurns>>
    BY <1>3, FeedbackKeeps DEF LogInv, RecordFeedback, WriterIdles, dbVars
  <2>2. /\ call[r].thread \in 0..MaxThreads /\ mem[call[r].thread].last \in Nat /\ clock + 1 \in Nat
    BY <1>1, <1>3, HeldThread DEF RecordFeedback, LogInv, TypeOK, ProcessType
  <2>3. PICK anchor \in Anchors \cup ({mem[call[r].thread].last} \ {0}) :
          Enqueue(<<FeedbackJob(call[r].thread, anchor, clock + 1)>>)
    BY <1>3 DEF RecordFeedback
  <2>4. anchor \in Nat
    <3> DEFINE last == mem[call[r].thread].last
    <3>1. Anchors \subseteq Nat /\ anchor \in Anchors \cup {last} /\ last \in Nat
      BY <2>2, <2>3, StoreAssumption
    <3> HIDE DEF last
    <3> QED
      BY <3>1
  <2> DEFINE job == FeedbackJob(call[r].thread, anchor, clock + 1)
  <2>5. job \in Job /\ job.kind = "feedback"
    BY <2>2, <2>4, JobTypes, "active" \in Statuses, NoHash \in Prompt DEF FeedbackJob, Prompt
  <2> HIDE DEF job
  <2>6. WritesPresence'
    BY <1>1, <2>1, <2>3, <2>5, OneJobPresence DEF job
  <2> QED
    BY <2>1, <2>6, QuietKeeps
<1> QED
  BY <1>2, <1>3, EnterLog, InstallLog, AppendLog DEF CallerStep

LEMMA LifespanLog ==
  ASSUME LogInv, Close \/ SentinelAccepted \/ Drained \/ DrainTimesOut
  PROVE  LogInv' /\ UNCHANGED Log!vars
<1>1. TypeOK /\ WritesPresence /\ StoreInv' /\ UNCHANGED <<born, mem, batch, dbStatus, dbTurns>>
  BY CloseKeeps
  DEF LogInv, StoreInv, Close, SentinelAccepted, Drained, DrainTimesOut, LifeOnly, procVars, dbVars
<1>2. queue' = queue \/ queue' = Append(queue, Shutdown)
  BY DEF Close, SentinelAccepted, Drained, DrainTimesOut
<1>3. CASE queue' = queue
  BY <1>1, <1>3, SamePresence, QuietKeeps
<1>4. CASE queue' = Append(queue, Shutdown)
  <2>1. Grows(<<Shutdown>>) /\ <<Shutdown>> \in Seq(Job)
    BY <1>1, <1>4, CloseGrows, FixedJobTypes
  <2>2. \A m \in 1..Len(<<Shutdown>>) : <<Shutdown>>[m].kind \notin {"thread", "turn"}
    BY DEF Shutdown
  <2>3. WritesPresence'
    BY <1>1, <2>1, <2>2, PresenceAdded
  <2> QED
    BY <1>1, <2>3, QuietKeeps, SMTT(60)
<1> QED
  BY <1>2, <1>3, <1>4

LEMMA RestartLog ==
  ASSUME LogInv, Restart
  PROVE  LogInv' /\ Log!Next
<1>1. /\ StoreInv' /\ mem' = [i \in ThreadIds |-> NoThread] /\ queue' = <<>> /\ batch' = <<>>
      /\ UNCHANGED <<born, dbStatus, dbTurns>>
  BY RestartKeeps DEF LogInv, Restart, dbVars
<1>2. UnservedKnowsNothing'
  BY <1>1 DEF UnservedKnowsNothing, NoThread
<1>3. WritesPresence'
  BY <1>1 DEF WritesPresence, Pending
<1>4. Log!Forget
  BY <1>1 DEF Log!Forget, NoThread
<1> QED
  BY <1>1, <1>2, <1>3, <1>4 DEF LogInv, Log!Next

LEMMA RegisterLog ==
  ASSUME LogInv, RegisterPrompt
  PROVE  LogInv' /\ UNCHANGED Log!vars
<1>1. TypeOK /\ WritesPresence /\ StoreInv' /\ UNCHANGED <<born, mem, batch, dbStatus, dbTurns>>
  BY RegisterKeeps DEF LogInv, StoreInv, RegisterPrompt, WriterIdles, dbVars
<1>2. SnapshotJob(build) \in Job /\ SnapshotJob(build).kind = "snapshot"
  BY <1>1, FixedJobTypes DEF SnapshotJob, TypeOK, ProcessType
<1>3. WritesPresence'
  BY <1>1, <1>2, OneJobPresence DEF RegisterPrompt
<1> QED
  BY <1>1, <1>3, QuietKeeps

LEMMA LogStep == LogInv /\ [Next]_vars => LogInv' /\ [Log!Next]_(Log!vars)
<1> SUFFICES ASSUME LogInv, [Next]_vars PROVE LogInv' /\ (Log!Next \/ UNCHANGED Log!vars)
  OBVIOUS
<1>1. ASSUME NEW r \in Callers, CallerStep(r) PROVE LogInv' /\ (Log!Next \/ UNCHANGED Log!vars)
  BY <1>1, CallerLog
<1>2. CASE UNCHANGED vars
  <2>1. UNCHANGED <<queue, batch, born, mem, dbStatus, dbTurns>>
    BY <1>2 DEF vars, procVars, pipeVars, dbVars
  <2> QED
    BY <1>2, <2>1, StepStore, SamePresence, QuietKeeps DEF LogInv, StoreInv
<1> QED
  BY <1>1, <1>2, RegisterLog, WriterLog, LifespanLog, RestartLog DEF Next

LEMMA InitLog == Init => LogInv /\ Log!Init
<1> SUFFICES ASSUME Init PROVE LogInv /\ Log!Init
  OBVIOUS
<1>1. LogInv
  BY InitStore DEF Init, LogInv, UnservedKnowsNothing, WritesPresence, Pending, NoThread
<1>2. Log!Init
  BY DEF Init, Log!Init, NoThread
<1> QED
  BY <1>1, <1>2

\* The store implements the conversation log, for any number of sessions, callers and
\* threads, any queue and batch size and any of the faults: every step of it is a step of
\* the log or changes nothing that the log can see.
THEOREM StoreImplementsLog == Spec => KeepsTheLog
<1>1. Init => LogInv /\ Log!Init
  BY InitLog
<1>2. LogInv /\ [Next]_vars => LogInv' /\ [Log!Next]_(Log!vars)
  BY LogStep
<1> QED
  BY <1>1, <1>2, PTL DEF Spec, KeepsTheLog, Log!Spec

=============================================================================
