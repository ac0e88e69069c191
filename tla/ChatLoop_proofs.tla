--------------------------- MODULE ChatLoop_proofs ---------------------------
(* What the chat loop promises, for any requests, replies, tools and bounds: the model *)
(* API accepts what is replayed, expiry ends a turn, an answer is named by its anchor, *)
(* tickets are wanted and remembered.                                                  *)
EXTENDS ChatLoop, Transcript_proofs

-----------------------------------------------------------------------------
(* The state: threads hold fresh turns numbered by their positions, and a request's *)
(* locals fit where it is.                                                          *)

LogOK(l) ==
  /\ l \in [ThreadIds -> Seq(Turn)]
  /\ \A i \in ThreadIds : \A k \in DOMAIN l[i] : l[i][k].seq = k /\ Fresh(l[i][k])

Shaped(s) ==
  /\ s.pc \notin {"new", "over", "gone"} => s.thread \in ThreadIds
  /\ s.pc \in {"gathering", "reporting"} => Len(s.out) = Len(s.tools)
  /\ s.pc = "reporting" => s.told < Len(s.out) /\ \A n \in DOMAIN s.out : s.out[n] \in OutcomeKinds
  /\ s.pc = "filing" => Len(s.tools) = 1 /\ s.tools[1] = "ticket" /\ Len(s.out) = 1
  /\ s.pc # "reporting" => s.told = 0
  /\ s.pc \notin {"gathering", "reporting", "filing"} => Len(s.out) = 0

ReqOK(q) == q \in [Requests -> Locals] /\ \A r \in Requests : Shaped(q[r])

ChatInv ==
  /\ LogOK(log) /\ ReqOK(req)
  /\ current \in ThreadIds /\ named \subseteq ThreadIds
  /\ filed \in [ThreadIds -> Nat] /\ widget \in 0..MaxFlowEvents

LEMMA ChatInvTypes == ChatInv => TypeOK
  BY DEF ChatInv, TypeOK, LogOK, ReqOK

LEMMA NextSeqIs ==
  ASSUME NEW l, LogOK(l), NEW i \in ThreadIds
  PROVE  NextSeq(l[i]) = Len(l[i]) + 1 /\ Len(l[i]) \in Nat
<1>1. PICK turns \in Seq(Turn) : turns = l[i]
  BY DEF LogOK
<1>2. Len(turns) \in Nat /\ DOMAIN turns = 1..Len(turns) /\ (turns # <<>> => Len(turns) > 0)
      /\ (turns = <<>> => Len(turns) = 0)
  BY LenProperties, EmptySeq
<1>3. turns # <<>> => turns[Len(turns)].seq = Len(turns)
  BY <1>1, <1>2 DEF LogOK
<1> QED
  BY <1>1, <1>2, <1>3 DEF NextSeq, Last

\* A turn at the end of thread i.
Adds(l, i, t, m) ==
  /\ t \in Turn /\ Fresh(t) /\ t.seq = Len(l[i]) + 1
  /\ m = [l EXCEPT ![i] = Append(l[i], t)]

LEMMA Grow ==
  ASSUME NEW l, LogOK(l), NEW i \in ThreadIds, NEW t, NEW m, Adds(l, i, t, m)
  PROVE  /\ LogOK(m) /\ \A j \in ThreadIds : j # i => m[j] = l[j]
         /\ m[i] = Append(l[i], t) /\ Len(m[i]) = Len(l[i]) + 1 /\ m[i][Len(l[i]) + 1] = t
         /\ \A k \in 1..Len(l[i]) : m[i][k] = l[i][k]
<1>1. PICK turns \in Seq(Turn) : turns = l[i]
  BY DEF LogOK
<1>2. Len(turns) \in Nat /\ DOMAIN turns = 1..Len(turns)
  BY LenProperties
<1>3. PICK ext \in Seq(Turn) : ext = Append(turns, t)
  BY AppendProperties DEF Adds
<1>4. /\ Len(ext) = Len(turns) + 1 /\ ext[Len(turns) + 1] = t /\ DOMAIN ext = 1..Len(turns) + 1
      /\ \A k \in 1..Len(turns) : ext[k] = turns[k]
  <2>1. t \in Turn
    BY DEF Adds
  <2>2. Len(ext) = Len(turns) + 1 /\ DOMAIN ext = 1..Len(ext)
    BY <1>3, <2>1, AppendProperties, LenProperties
  <2> QED
    BY <1>3, <2>1, <2>2, AppendProperties
<1>5. m = [l EXCEPT ![i] = ext]
  BY <1>1, <1>3 DEF Adds
<1>6. m[i] = ext /\ \A j \in ThreadIds : j # i => m[j] = l[j]
  BY <1>5 DEF LogOK
<1>7. m \in [ThreadIds -> Seq(Turn)]
  BY <1>5 DEF LogOK
<1>8. \A k \in DOMAIN ext : ext[k].seq = k /\ Fresh(ext[k])
  <2> SUFFICES ASSUME NEW k \in 1..Len(turns) + 1
               PROVE  ext[k].seq = k /\ Fresh(ext[k])
    BY <1>4
  <2>1. CASE k = Len(turns) + 1
    BY <1>1, <1>4, <2>1 DEF Adds
  <2>2. CASE k \in 1..Len(turns)
    BY <1>1, <1>2, <1>4, <2>2 DEF LogOK
  <2> QED
    BY <1>2, <2>1, <2>2
<1>9. LogOK(m)
  <2>1. ASSUME NEW j \in ThreadIds, NEW k \in DOMAIN m[j]
        PROVE  m[j][k].seq = k /\ Fresh(m[j][k])
    <3>1. CASE j = i
      BY <1>6, <1>8, <2>1, <3>1
    <3>2. CASE j # i
      BY <1>6, <2>1, <3>2 DEF LogOK
    <3> QED
      BY <3>1, <3>2
  <2> QED
    BY <1>7, <2>1 DEF LogOK
<1> QED
  BY <1>1, <1>3, <1>4, <1>6, <1>9

LEMMA Move ==
  ASSUME NEW q, ReqOK(q), NEW r \in Requests, NEW s \in Locals, Shaped(s)
  PROVE  /\ ReqOK([q EXCEPT ![r] = s]) /\ [q EXCEPT ![r] = s][r] = s
         /\ \A o \in Requests : o # r => [q EXCEPT ![r] = s][o] = q[o]
  BY DEF ReqOK

\* The thread after one more turn.
LEMMA GrowMessages ==
  ASSUME NEW l, LogOK(l), NEW i \in ThreadIds, NEW t, NEW m, Adds(l, i, t, m)
  PROVE  /\ Messages[l[i]] \in Seq(Message)
         /\ Messages[m[i]] = Extend(t)[Messages[l[i]]]
<1>1. PICK turns \in Seq(Turn) : turns = l[i]
  BY DEF LogOK
<1>2. t \in Turn /\ m[i] = Append(turns, t)
  <2>1. t \in Turn
    BY DEF Adds
  <2>2. m[i] = Append(l[i], t)
    BY Grow
  <2> QED
    BY <1>1, <2>1, <2>2
<1> QED
  BY <1>1, <1>2, MessagesAppend

-----------------------------------------------------------------------------
(* The locals a step leaves a request with. *)

LEMMA NotArrivedIs ==
  /\ NotArrived \in Locals /\ Shaped(NotArrived) /\ NotArrived.pc = "new"
  /\ NotArrived.calls = 0 /\ NotArrived.ending = "none"
<1>1. <<>> \in Seq(ToolKinds) /\ <<>> \in Seq(CallStates) /\ Len(<<>>) = 0
  BY EmptySeq
<1>2. 0 \in Nat /\ 0 \in 0..MaxThreads
  BY ChatAssumption
<1>3. NotArrived \in Locals
  BY <1>1, <1>2 DEF NotArrived, Locals, Pcs, Sayings, Endings
<1>4. Shaped(NotArrived)
  BY <1>1 DEF NotArrived, Shaped
<1> QED
  BY <1>3, <1>4 DEF NotArrived

LEMMA LeftIs ==
  ASSUME NEW s \in Locals, NEW pc \in {"over", "gone"}
  PROVE  /\ Left(s, pc) \in Locals /\ Shaped(Left(s, pc)) /\ Left(s, pc).pc = pc
         /\ Left(s, pc).thread = s.thread /\ Left(s, pc).seq = s.seq
         /\ Left(s, pc).calls = 0 /\ Left(s, pc).ending = "none"
<1>1. Left(s, pc) = [NotArrived EXCEPT !.pc = pc, !.thread = s.thread, !.seq = s.seq]
  BY DEF Left
<1>2. s.thread \in 0..MaxThreads /\ s.seq \in Nat /\ pc \in Pcs
  BY DEF Locals, Pcs
<1>3. NotArrived \in Locals
  BY NotArrivedIs
<1>4. Left(s, pc) \in Locals
  BY <1>1, <1>2, <1>3, ZenonT(60) DEF Locals
<1>5. Left(s, pc).pc = pc /\ Left(s, pc).thread = s.thread /\ Left(s, pc).seq = s.seq
      /\ Left(s, pc).calls = 0 /\ Left(s, pc).ending = "none" /\ Left(s, pc).out = <<>>
      /\ Left(s, pc).told = 0
  BY <1>1 DEF NotArrived
<1>6. Len(Left(s, pc).out) = 0
  BY <1>5, EmptySeq
<1>7. Shaped(Left(s, pc))
  BY <1>5, <1>6 DEF Shaped
<1> QED
  BY <1>4, <1>5, <1>7

LEMMA EndedIs ==
  ASSUME NEW s \in Locals, NEW how \in Endings
  PROVE  /\ Ended(s, how) \in Locals /\ Shaped(Ended(s, how)) /\ Ended(s, how).pc = "over"
         /\ Ended(s, how).thread = s.thread /\ Ended(s, how).seq = s.seq
         /\ Ended(s, how).calls = 0 /\ Ended(s, how).ending = how
<1>1. PICK e \in Locals : e = Left(s, "over") /\ Shaped(e) /\ e.pc = "over"
                          /\ e.thread = s.thread /\ e.seq = s.seq /\ e.calls = 0
  BY LeftIs
<1>2. Ended(s, how) = [e EXCEPT !.ending = how]
  BY <1>1 DEF Ended
<1>3. [e EXCEPT !.ending = how] \in Locals
  BY <1>1, ZenonT(60) DEF Locals
<1> DEFINE f == [e EXCEPT !.ending = how]
<1>4. /\ f.pc = e.pc /\ f.thread = e.thread /\ f.seq = e.seq /\ f.calls = e.calls /\ f.ending = how
      /\ f.told = e.told /\ f.out = e.out /\ f.tools = e.tools
  BY <1>1 DEF Locals
<1> HIDE DEF f
<1>5. Shaped(f)
  BY <1>1, <1>4 DEF Shaped
<1> QED
  BY <1>1, <1>2, <1>3, <1>4, <1>5 DEF f

LEMMA DoneIs ==
  ASSUME NEW s \in Locals, NEW turns, NEW q \in Nat, Last(turns).seq = q
  PROVE  /\ Done(s, turns) \in Locals /\ Shaped(Done(s, turns)) /\ Done(s, turns).pc = "over"
         /\ Done(s, turns).thread = s.thread /\ Done(s, turns).seq = s.seq
         /\ Done(s, turns).calls = 0 /\ Done(s, turns).ending = "done"
         /\ Done(s, turns).lastSeq = q
<1>1. PICK e \in Locals : e = Ended(s, "done") /\ Shaped(e) /\ e.pc = "over"
                          /\ e.thread = s.thread /\ e.seq = s.seq /\ e.calls = 0 /\ e.ending = "done"
  BY EndedIs DEF Endings
<1>2. Done(s, turns) = [e EXCEPT !.lastSeq = q]
  BY <1>1 DEF Done
<1>3. [e EXCEPT !.lastSeq = q] \in Locals
  BY <1>1, ZenonT(60) DEF Locals
<1> DEFINE f == [e EXCEPT !.lastSeq = q]
<1>4. /\ f.pc = e.pc /\ f.thread = e.thread /\ f.seq = e.seq /\ f.calls = e.calls
      /\ f.ending = e.ending /\ f.lastSeq = q
      /\ f.told = e.told /\ f.out = e.out /\ f.tools = e.tools
  BY <1>1 DEF Locals
<1> HIDE DEF f
<1>5. Shaped(f)
  BY <1>1, <1>4 DEF Shaped
<1> QED
  BY <1>1, <1>2, <1>3, <1>4, <1>5 DEF f

LEMMA AskingIs ==
  ASSUME NEW s \in Locals, s.thread \in ThreadIds, NEW turns \in Seq(Turn)
  PROVE  /\ Asking(s, turns) \in Locals /\ Shaped(Asking(s, turns))
         /\ Asking(s, turns).pc = "asking" /\ Asking(s, turns).thread = s.thread
         /\ Asking(s, turns).mine = s.mine /\ Asking(s, turns).ending = s.ending
         /\ Asking(s, turns).accepted = WireValid[History(turns)]
         /\ Asking(s, turns).sentLen = Len(turns)
<1>1. PICK h \in Seq(Message) : h = History(turns)
  BY CuratedSame, MessagesTyped DEF History, MessagesForModel
<1>2. PICK ok \in BOOLEAN : ok = WireValid[h]
  BY DEF WireValid
<1>3. PICK no \in BOOLEAN : no = Forced(s.rounds)
  <2>1. Forced(s.rounds) \in BOOLEAN
    BY DEF Forced
  <2> QED
    BY <2>1
<1>4. PICK n \in Nat : n = Len(turns)
  BY LenProperties
<1>5. PICK tools \in Seq(ToolKinds), out \in Seq(CallStates) : tools = <<>> /\ out = <<>> /\ Len(out) = 0
  BY EmptySeq
<1>c. PICK c \in Nat : c = s.calls + 1
  <2>1. s.calls \in Nat
    BY DEF Locals
  <2> QED
    BY <2>1
<1>6. Asking(s, turns) =
        [s EXCEPT !.pc = "asking", !.calls = c, !.forced = no, !.accepted = ok,
                  !.sentLen = n, !.seq = 0, !.tools = tools, !.out = out, !.told = 0]
  BY <1>1, <1>2, <1>3, <1>4, <1>5, <1>c DEF Asking
<1>7. Asking(s, turns) \in Locals
  <2>1. PICK a \in Locals : a = [s EXCEPT !.pc = "asking", !.calls = c, !.forced = no]
    BY ZenonT(60) DEF Locals, Pcs
  <2>2. PICK b \in Locals : b = [a EXCEPT !.accepted = ok, !.sentLen = n, !.seq = 0]
    BY ZenonT(60) DEF Locals
  <2>3. PICK d \in Locals : d = [b EXCEPT !.tools = tools, !.out = out, !.told = 0]
    BY DEF Locals
  <2>4. Asking(s, turns) = d
    BY <1>6, <2>1, <2>2, <2>3, ZenonT(60) DEF Locals
  <2> QED
    BY <2>4
<1>8. /\ Asking(s, turns).pc = "asking" /\ Asking(s, turns).thread = s.thread
      /\ Asking(s, turns).mine = s.mine /\ Asking(s, turns).ending = s.ending
      /\ Asking(s, turns).accepted = ok /\ Asking(s, turns).out = out /\ Asking(s, turns).told = 0
      /\ Asking(s, turns).sentLen = n
  BY <1>6 DEF Locals
<1>9. Shaped(Asking(s, turns))
  BY <1>5, <1>8 DEF Shaped
<1> QED
  BY <1>1, <1>2, <1>4, <1>7, <1>8, <1>9

-----------------------------------------------------------------------------
(* What each action does to the log and to the request that takes it. *)

Moves(r, s) == s \in Locals /\ Shaped(s) /\ req' = [req EXCEPT ![r] = s]

\* Everything but where the request is and how its calls stand.
Same(s, before) ==
  /\ s.thread = before.thread /\ s.mine = before.mine /\ s.seq = before.seq
  /\ s.tools = before.tools /\ s.told = before.told /\ s.sentLen = before.sentLen
  /\ s.calls = before.calls /\ s.ending = before.ending

\* A model call of a request that stays on its thread.
Asks(s, before) ==
  /\ s.pc = "asking" /\ s.thread = before.thread /\ s.ending = before.ending
  /\ s.accepted = WireValid[History(log'[s.thread])] /\ s.sentLen = Len(log'[s.thread])

Submits(r, s) ==
  \E t, s2 :
    /\ Adds(log, s.thread, t, log') /\ t.kind = "user_text" /\ Tells(t, {})
    /\ Moves(r, s2) /\ Asks(s2, s) /\ s2.mine = t.seq

LEMMA SubmitDoes ==
  ASSUME ChatInv, NEW r \in Requests, NEW s \in Locals, s.thread \in ThreadIds, Submit(r, s)
  PROVE  Submits(r, s)
<1> DEFINE i == s.thread
           q == NextSeq(log[i])
           t == UserText(q, s.says)
           m == [s EXCEPT !.mine = q, !.reminder = Reminder(Append(log[i], t))]
<1>1. LogOK(log) /\ i \in ThreadIds /\ q = Len(log[i]) + 1 /\ q \in Nat /\ s.says \in Sayings
  <2>1. LogOK(log) /\ s.says \in Sayings
    BY DEF ChatInv, Locals
  <2>2. NextSeq(log[s.thread]) = Len(log[s.thread]) + 1 /\ Len(log[s.thread]) \in Nat
    BY <2>1, NextSeqIs, Zenon
  <2> QED
    BY <2>1, <2>2
<1>2. t \in Turn /\ Fresh(t) /\ t.seq = q /\ t.kind = "user_text" /\ Tells(t, {})
  <2>1. t = UserText(q, s.says) /\ q \in Nat /\ s.says \in Sayings
    BY <1>1
  <2> HIDE DEF q, t
  <2> QED
    BY <2>1, UserTextIs
<1>3. log' = [log EXCEPT ![i] = Append(log[i], t)]
      /\ req' = [req EXCEPT ![r] = Asking(m, Append(log[i], t))]
  BY DEF Submit, Appended
<1> HIDE DEF t
<1>4. Adds(log, i, t, log')
  BY <1>1, <1>2, <1>3 DEF Adds
<1>5. PICK turns \in Seq(Turn) : turns = Append(log[i], t) /\ log'[i] = turns
  <2>1. log[i] \in Seq(Turn) /\ log'[i] = Append(log[i], t)
    BY <1>1, <1>4, Grow, SMTT(60) DEF LogOK
  <2>2. Append(log[i], t) \in Seq(Turn)
    BY <1>2, <2>1, AppendProperties
  <2> QED
    BY <2>1, <2>2
<1>6. Reminder(turns) \in {"none", "watch", "offer"}
  BY DEF Reminder
<1>7. m \in Locals /\ m.thread = s.thread /\ m.mine = q /\ m.ending = s.ending
  BY <1>1, <1>5, <1>6 DEF Locals
<1> HIDE DEF m
<1>8. PICK s2 \in Locals : /\ s2 = Asking(m, turns) /\ Shaped(s2) /\ s2.pc = "asking"
                           /\ s2.thread = s.thread /\ s2.mine = q /\ s2.ending = s.ending
                           /\ s2.accepted = WireValid[History(turns)] /\ s2.sentLen = Len(turns)
  BY <1>1, <1>7, AskingIs
<1>9. Moves(r, s2) /\ Asks(s2, s) /\ s2.mine = t.seq
  BY <1>2, <1>3, <1>5, <1>8 DEF Moves, Asks
<1> QED
  BY <1>2, <1>4, <1>9 DEF Submits

LEMMA ArriveDoes ==
  ASSUME ChatInv, NEW r \in Requests, Arrive(r)
  PROVE  /\ req[r].pc = "new" /\ (Overlap \/ \A o \in Requests : ~ Served(o))
         /\ UNCHANGED <<current, named, filed, widget>>
         /\ \E s \in Locals :
              /\ s.thread = current /\ s.ending = "none"
              /\ \/ Submits(r, s)
                 \/ \E s2 : Moves(r, s2) /\ s2.pc = "naming" /\ Same(s2, s) /\ s2.calls = 0
                            /\ UNCHANGED log
<1>1. PICK says \in Texts :
        LET s == [NotArrived EXCEPT !.says = says, !.thread = current] IN
        /\ req[r].pc = "new" /\ (Overlap \/ \A o \in Requests : ~ Served(o))
        /\ \/ Submit(r, s)
           \/ req' = [req EXCEPT ![r] = [s EXCEPT !.pc = "naming"]] /\ UNCHANGED log
        /\ UNCHANGED <<current, named, filed, widget>>
  BY ZenonT(60) DEF Arrive
<1>2. says \in Sayings /\ current \in ThreadIds /\ current \in 0..MaxThreads
  BY ChatAssumption DEF ChatInv, ThreadIds
<1>3. PICK s : s = [NotArrived EXCEPT !.says = says, !.thread = current]
  OBVIOUS
<1>4. s \in Locals /\ s.thread = current /\ s.ending = "none" /\ s.calls = 0 /\ s.told = 0
      /\ s.out = <<>>
  BY <1>2, <1>3, NotArrivedIs, ZenonT(60) DEF Locals, NotArrived
<1>5. PICK s2 : s2 = [s EXCEPT !.pc = "naming"]
  OBVIOUS
<1>6. s2 \in Locals /\ s2.pc = "naming" /\ Same(s2, s) /\ s2.calls = 0 /\ s2.out = <<>>
  BY <1>4, <1>5, SMTT(60), ZenonT(60) DEF Locals, Pcs, Same
<1>7. Shaped(s2)
  <2>1. Len(s2.out) = 0
    BY <1>6, EmptySeq
  <2> QED
    BY <1>2, <1>4, <1>6, <2>1 DEF Shaped, Same
<1>8. CASE Submit(r, s)
  BY <1>1, <1>2, <1>3, <1>4, <1>8, SubmitDoes
<1>9. CASE req' = [req EXCEPT ![r] = s2] /\ UNCHANGED log
  BY <1>1, <1>4, <1>6, <1>7, <1>9 DEF Moves
<1> QED
  BY <1>1, <1>3, <1>5, <1>8, <1>9, SMTT(60)

LEMMA NameArrivesDoes ==
  ASSUME ChatInv, NEW r \in Requests, NameArrives(r)
  PROVE  /\ req[r].pc = "naming" /\ req[r] \in Locals /\ req[r].thread \in ThreadIds
         /\ named' = named \cup {req[r].thread} /\ UNCHANGED <<current, filed, widget>>
         /\ Submits(r, req[r])
<1>1. req[r] \in Locals /\ req[r].pc = "naming" /\ Submit(r, req[r])
      /\ named' = named \cup {req[r].thread} /\ UNCHANGED <<current, filed, widget>>
  BY DEF ChatInv, ReqOK, NameArrives
<1>2. req[r].thread \in ThreadIds
  BY <1>1 DEF ChatInv, ReqOK, Shaped
<1> QED
  BY <1>1, <1>2, SubmitDoes

\* A request that ends or is cancelled: nothing is left of it but where it ended.
Leaves(r, how) ==
  \E s2 : /\ Moves(r, s2) /\ s2.pc \in {"over", "gone"} /\ s2.calls = 0
          /\ s2.thread = req[r].thread /\ s2.seq = req[r].seq /\ s2.ending = how

LEMMA ModelFailsDoes ==
  ASSUME ChatInv, NEW r \in Requests, ModelFails(r)
  PROVE  /\ req[r].pc = "asking" /\ Leaves(r, "AGENT_UNAVAILABLE")
         /\ UNCHANGED <<log, current, named, filed, widget>>
<1>1. req[r] \in Locals /\ req[r].pc = "asking"
      /\ req' = [req EXCEPT ![r] = Ended(req[r], "AGENT_UNAVAILABLE")]
      /\ UNCHANGED <<log, current, named, filed, widget>>
  BY DEF ChatInv, ReqOK, ModelFails
<1>2. "AGENT_UNAVAILABLE" \in Endings
  BY DEF Endings
<1>3. PICK s2 \in Locals : /\ s2 = Ended(req[r], "AGENT_UNAVAILABLE") /\ Shaped(s2) /\ s2.pc = "over"
                          /\ s2.thread = req[r].thread /\ s2.seq = req[r].seq
                          /\ s2.calls = 0 /\ s2.ending = "AGENT_UNAVAILABLE"
  BY <1>1, <1>2, EndedIs
<1> QED
  BY <1>1, <1>3 DEF Leaves, Moves

LEMMA AbortDoes ==
  ASSUME ChatInv, NEW r \in Requests, Abort(r)
  PROVE  /\ "abort" \in Faults /\ Served(r) /\ Leaves(r, "none")
         /\ UNCHANGED <<log, current, named, filed, widget>>
<1>1. req[r] \in Locals /\ "abort" \in Faults /\ Served(r)
      /\ req' = [req EXCEPT ![r] = Left(req[r], "gone")]
      /\ UNCHANGED <<log, current, named, filed, widget>>
  BY DEF ChatInv, ReqOK, Abort
<1>2. PICK s2 \in Locals : /\ s2 = Left(req[r], "gone") /\ Shaped(s2) /\ s2.pc = "gone"
                          /\ s2.thread = req[r].thread /\ s2.seq = req[r].seq
                          /\ s2.calls = 0 /\ s2.ending = "none"
  BY <1>1, LeftIs
<1> QED
  BY <1>1, <1>2 DEF Leaves, Moves

\* A reply: the assistant's turn with its questions.
Says(t, reply) ==
  /\ Role(t) = "assistant" /\ t.kind \in {"assistant_text", "assistant_tool_use"}
  /\ (reply.text \/ reply.tools # <<>>) => t.content # <<>>
  /\ LeadsWithResults(t.content) /\ Ids(t.content, "tool_result") = {}
  /\ Ids(t.content, "tool_use") = {<<t.seq, n>> : n \in 1..Len(reply.tools)}

\* The answer is complete, and its anchor is the newest turn of the thread.
Finishes(s2, s) ==
  /\ s2.pc = "over" /\ s2.calls = 0 /\ s2.thread = s.thread /\ s2.ending = "done"
  /\ s2.lastSeq = Last(log'[s.thread]).seq

LEMMA ModelRepliesDoes ==
  ASSUME ChatInv, NEW r \in Requests, ModelReplies(r)
  PROVE  /\ req[r].pc = "asking" /\ req[r] \in Locals /\ req[r].thread \in ThreadIds
         /\ UNCHANGED <<current, named, filed, widget>>
         /\ \E reply \in Replies : \E t, s2 :
              /\ Adds(log, req[r].thread, t, log') /\ Says(t, reply) /\ Moves(r, s2)
              /\ s2.seq = t.seq
              /\ \/ /\ RunsTools(reply) /\ s2.pc = "starting" /\ s2.tools = reply.tools
                    /\ s2.thread = req[r].thread /\ s2.mine = req[r].mine
                    /\ s2.sentLen = req[r].sentLen
                    /\ s2.calls = req[r].calls /\ s2.ending = req[r].ending
                 \/ ~ RunsTools(reply) /\ Finishes(s2, req[r])
<1>1. PICK reply \in Replies :
        LET s == req[r]
            q == NextSeq(log[s.thread])
            turns == Append(log[s.thread], Assistant(q, reply.text, reply.tools, reply.says))
            replied == [s EXCEPT !.seq = q, !.tools = reply.tools]
        IN /\ s.pc = "asking" /\ Appended(s.thread, turns)
           /\ req' = [req EXCEPT ![r] =
                IF RunsTools(reply)
                THEN [replied EXCEPT !.pc = "starting", !.rounds = @ + 1]
                ELSE Done(replied, turns)]
           /\ UNCHANGED <<current, named, filed, widget>>
  BY ZenonT(60) DEF ModelReplies
<1> DEFINE s == req[r]
           i == s.thread
           q == NextSeq(log[i])
           t == Assistant(q, reply.text, reply.tools, reply.says)
           replied == [s EXCEPT !.seq = q, !.tools = reply.tools]
<1>2. /\ s.pc = "asking" /\ s \in Locals /\ i \in ThreadIds /\ Len(s.out) = 0 /\ s.told = 0
      /\ LogOK(log) /\ q = Len(log[i]) + 1 /\ q \in Nat
  <2>1. s.pc = "asking" /\ s \in Locals /\ Shaped(s) /\ LogOK(log)
    BY <1>1 DEF ChatInv, ReqOK
  <2>2. i \in ThreadIds /\ Len(s.out) = 0 /\ s.told = 0
    BY <2>1 DEF Shaped
  <2> HIDE DEF s
  <2> QED
    BY <2>1, <2>2, NextSeqIs
<1>3. reply.text \in BOOLEAN /\ reply.tools \in Seq(ToolKinds) /\ reply.says \in Sayings
  BY ChatAssumption DEF IsReply
<1>4. t \in Turn /\ Fresh(t) /\ t.seq = q /\ Says(t, reply)
  <2> HIDE DEF q
  <2>0. t = Assistant(q, reply.text, reply.tools, reply.says) /\ q \in Nat
    BY <1>2
  <2> HIDE DEF t
  <2>1. /\ t \in Turn /\ Fresh(t) /\ t.seq = q /\ Role(t) = "assistant"
        /\ t.kind \in {"assistant_text", "assistant_tool_use"}
        /\ reply.text \/ reply.tools # <<>> => t.content # <<>>
        /\ LeadsWithResults(t.content) /\ Ids(t.content, "tool_result") = {}
        /\ Ids(t.content, "tool_use") = {<<q, n>> : n \in 1..Len(reply.tools)}
    <3>1. PICK text \in BOOLEAN, tools \in Seq(ToolKinds), says \in Sayings :
            text = reply.text /\ tools = reply.tools /\ says = reply.says
      BY <1>3
    <3>2. t = Assistant(q, text, tools, says) /\ q \in Nat
          /\ text \in BOOLEAN /\ tools \in Seq(ToolKinds) /\ says \in Sayings
      BY <2>0, <3>1
    <3>3. IsReplyTurn(t, q, text, tools)
      BY ONLY <3>2, AssistantIs, Zenon
    <3> QED
      BY <3>1, <3>3 DEF IsReplyTurn
  <2> QED
    BY <2>1 DEF Says
<1>5. /\ log' = [log EXCEPT ![i] = Append(log[i], t)]
      /\ req' = [req EXCEPT ![r] =
           IF RunsTools(reply) THEN [replied EXCEPT !.pc = "starting", !.rounds = @ + 1]
           ELSE Done(replied, Append(log[i], t))]
      /\ UNCHANGED <<current, named, filed, widget>>
  BY <1>1 DEF Appended
<1> HIDE DEF t
<1>6. Adds(log, i, t, log')
  BY <1>2, <1>4, <1>5, SMTT(60) DEF Adds
<1>7. PICK turns \in Seq(Turn) : turns = Append(log[i], t) /\ log'[i] = turns /\ Last(turns).seq = q
  <2>1. /\ log[i] \in Seq(Turn) /\ log'[i] = Append(log[i], t)
        /\ Len(log'[i]) = Len(log[i]) + 1 /\ log'[i][Len(log[i]) + 1] = t
    BY <1>2, <1>6, Grow, SMTT(60) DEF LogOK
  <2>2. Append(log[i], t) \in Seq(Turn)
    BY <1>4, <2>1, AppendProperties
  <2> QED
    BY <1>4, <2>1, <2>2 DEF Last
<1> HIDE DEF q
<1>8. replied \in Locals /\ replied.thread = i /\ replied.seq = q /\ replied.tools = reply.tools
      /\ replied.mine = s.mine /\ replied.calls = s.calls /\ replied.ending = s.ending
      /\ replied.out = s.out /\ replied.told = s.told /\ replied.sentLen = s.sentLen
  <2> HIDE DEF s
  <2> QED
    BY <1>2, <1>3, ZenonT(60) DEF Locals
<1> HIDE DEF replied
<1>9. CASE RunsTools(reply)
  <2>1. PICK s2 : s2 = [replied EXCEPT !.pc = "starting", !.rounds = @ + 1]
    OBVIOUS
  <2>2. s2 \in Locals
    <3>1. PICK rounds \in Nat : rounds = replied.rounds + 1
      <4>1. replied.rounds \in Nat
        BY <1>8 DEF Locals
      <4> QED
        BY <4>1
    <3>2. s2 = [replied EXCEPT !.pc = "starting", !.rounds = rounds]
      BY <2>1, <3>1
    <3> QED
      BY <1>8, <3>2, ZenonT(60) DEF Locals, Pcs
  <2>3. /\ s2.pc = "starting" /\ s2.tools = reply.tools /\ s2.thread = i /\ s2.mine = s.mine
        /\ s2.calls = s.calls /\ s2.ending = s.ending /\ s2.seq = q
        /\ s2.out = s.out /\ s2.told = s.told /\ s2.sentLen = s.sentLen
    BY <1>8, <2>1 DEF Locals
  <2>4. Shaped(s2)
    BY <1>2, <2>3, SMTT(60) DEF Shaped
  <2>5. req' = [req EXCEPT ![r] = s2] /\ UNCHANGED <<current, named, filed, widget>>
    BY <1>5, <1>9, <2>1
  <2>6. Moves(r, s2)
    BY <2>2, <2>4, <2>5 DEF Moves
  <2> HIDE DEF s
  <2>7. s2.seq = t.seq /\ RunsTools(reply) /\ s2.pc = "starting" /\ s2.tools = reply.tools
    BY <1>4, <1>9, <2>3, SMTT(60)
  <2> HIDE DEF i
  <2> QED
    BY <1>2, <1>4, <1>5, <1>6, <2>3, <2>6, <2>7 DEF s, i
<1>10. CASE ~ RunsTools(reply)
  <2>1. PICK s2 \in Locals : /\ s2 = Done(replied, turns) /\ Shaped(s2) /\ s2.pc = "over"
                             /\ s2.thread = i /\ s2.seq = q /\ s2.calls = 0
                             /\ s2.ending = "done" /\ s2.lastSeq = q
    BY <1>2, <1>7, <1>8, DoneIs, SMTT(60)
  <2>2. Moves(r, s2) /\ Finishes(s2, s)
    BY <1>5, <1>7, <1>10, <2>1 DEF Moves, Finishes
  <2> QED
    BY <1>2, <1>4, <1>5, <1>6, <1>10, <2>1, <2>2, SMTT(60)
<1> QED
  BY <1>9, <1>10

LEMMA DispatchDoes ==
  ASSUME ChatInv, NEW r \in Requests, Dispatch(r)
  PROVE  /\ req[r].pc = "starting" /\ UNCHANGED <<log, current, named, filed, widget>>
         /\ \E s2 : /\ Moves(r, s2) /\ s2.pc = "gathering" /\ Same(s2, req[r])
                    /\ \A n \in 1..Len(s2.out) :
                         /\ s2.out[n] \in {"running", "refused"}
                         /\ s2.tools[n] = "ticket" /\ s2.out[n] = "running"
                              => UserInitiated(log[s2.thread])
<1> DEFINE s == req[r]
           i == s.thread
           out == [n \in DOMAIN s.tools |->
                     IF Allowed(s.tools[n], log[i]) THEN "running" ELSE "refused"]
           s2 == [s EXCEPT !.pc = "gathering", !.out = out]
<1>1. /\ s.pc = "starting" /\ s \in Locals /\ Shaped(s)
      /\ req' = [req EXCEPT ![r] = s2]
      /\ UNCHANGED <<log, current, named, filed, widget>>
  BY DEF Dispatch, ChatInv, ReqOK
<1> HIDE DEF s
<1>2. i \in ThreadIds /\ s.told = 0
  BY <1>1 DEF Shaped
<1>3. PICK tools \in Seq(ToolKinds) : tools = s.tools
  BY <1>1 DEF Locals
<1>4. Len(tools) \in Nat /\ DOMAIN tools = 1..Len(tools)
  BY LenProperties
<1>5. out \in Seq(CallStates) /\ Len(out) = Len(tools)
      /\ \A n \in 1..Len(out) : out[n] = IF Allowed(tools[n], log[i]) THEN "running" ELSE "refused"
  <2>1. out \in [1..Len(tools) -> CallStates] /\ DOMAIN out = 1..Len(tools)
    BY <1>3, <1>4 DEF CallStates
  <2>2. out \in Seq(CallStates) /\ Len(out) = Len(tools)
    <3> HIDE DEF out
    <3> QED
      BY <1>4, <2>1
  <2> QED
    BY <1>3, <1>4, <2>2
<1> HIDE DEF out
<1>6. s2 \in Locals
  BY <1>1, <1>5 DEF Locals, Pcs
<1>7. s2.pc = "gathering" /\ s2.out = out /\ Same(s2, s) /\ s2.thread = i /\ s2.tools = tools
  BY <1>1, <1>3 DEF Locals, Same
<1> HIDE DEF s2
<1>8. Shaped(s2)
  BY <1>2, <1>3, <1>5, <1>7 DEF Shaped, Same
<1>9. \A n \in 1..Len(s2.out) :
        /\ s2.out[n] \in {"running", "refused"}
        /\ s2.tools[n] = "ticket" /\ s2.out[n] = "running" => UserInitiated(log[s2.thread])
  BY <1>5, <1>7 DEF Allowed
<1> QED
  BY <1>1, <1>6, <1>7, <1>8, <1>9 DEF Moves, s

\* One call of the round changes its state.
Settles(s2, s, n, how) ==
  /\ Same(s2, s) /\ Len(s2.out) = Len(s.out) /\ n \in 1..Len(s.out) /\ s2.out[n] = how
  /\ \A k \in 1..Len(s.out) : k # n => s2.out[k] = s.out[k]

LEMMA SettlesIs ==
  ASSUME NEW s \in Locals, Shaped(s), s.pc \in {"gathering", "filing"},
         NEW n \in DOMAIN s.out, NEW how \in CallStates
  PROVE  LET s2 == [s EXCEPT !.out = [@ EXCEPT ![n] = how]] IN
         s2 \in Locals /\ Shaped(s2) /\ s2.pc = s.pc /\ Settles(s2, s, n, how)
<1>1. PICK out \in Seq(CallStates) : out = s.out
  BY DEF Locals
<1>2. n \in 1..Len(out) /\ DOMAIN out = 1..Len(out) /\ Len(out) \in Nat
  BY <1>1, LenProperties
<1>3. PICK o \in Seq(CallStates) : /\ o = [out EXCEPT ![n] = how] /\ Len(o) = Len(out)
                                   /\ \A k \in 1..Len(out) : o[k] = IF k = n THEN how ELSE out[k]
  <2>1. /\ [out EXCEPT ![n] = how] \in Seq(CallStates) /\ Len([out EXCEPT ![n] = how]) = Len(out)
        /\ \A k \in 1..Len(out) : [out EXCEPT ![n] = how][k] = IF k = n THEN how ELSE out[k]
    BY <1>2, ExceptSeq
  <2> QED
    BY <2>1
<1>4. PICK s2 : s2 = [s EXCEPT !.out = o]
  OBVIOUS
<1>5. s2 \in Locals /\ s2.out = o /\ s2.pc = s.pc /\ Same(s2, s)
  BY <1>4, ZenonT(60) DEF Locals, Same
<1>6. Shaped(s2)
  BY <1>1, <1>3, <1>5 DEF Shaped, Same
<1>7. Settles(s2, s, n, how)
  BY <1>1, <1>2, <1>3, <1>5 DEF Settles
<1> QED
  BY <1>1, <1>3, <1>4, <1>5, <1>6, <1>7

LEMMA FilesDoes ==
  ASSUME ChatInv, NEW r \in Requests, NEW n, Files(r, n)
  PROVE  /\ req[r].pc = "gathering" /\ req[r].thread \in ThreadIds
         /\ n \in 1..Len(req[r].out) /\ req[r].tools[n] = "ticket" /\ req[r].out[n] = "running"
         /\ filed' = [filed EXCEPT ![req[r].thread] = @ + 1]
         /\ UNCHANGED <<log, current, named, widget>>
         /\ \E s2 : Moves(r, s2) /\ s2.pc = "gathering" /\ Settles(s2, req[r], n, "filed")
<1> DEFINE s == req[r]
           s2 == [s EXCEPT !.out = [@ EXCEPT ![n] = "filed"]]
<1>1. /\ s.pc = "gathering" /\ n \in DOMAIN s.out /\ s.tools[n] = "ticket"
      /\ s.out[n] = "running" /\ s \in Locals /\ Shaped(s)
      /\ filed' = [filed EXCEPT ![s.thread] = @ + 1]
      /\ UNCHANGED <<log, current, named, widget>>
  BY DEF Files, ChatInv, ReqOK
<1>2. req' = [req EXCEPT ![r] = s2]
  BY DEF Files
<1>3. s2 \in Locals /\ Shaped(s2) /\ s2.pc = s.pc /\ Settles(s2, s, n, "filed")
  <2>1. "filed" \in CallStates
    BY DEF CallStates
  <2> HIDE DEF s
  <2> QED
    BY <1>1, <2>1, SettlesIs
<1>4. s.thread \in ThreadIds
  BY <1>1 DEF Shaped
<1>5. n \in 1..Len(s.out)
  BY <1>3 DEF Settles
<1> HIDE DEF s2
<1> QED
  BY <1>1, <1>2, <1>3, <1>4, <1>5 DEF Moves

LEMMA ToolEndsDoes ==
  ASSUME ChatInv, NEW r \in Requests, NEW n, ToolEnds(r, n)
  PROVE  /\ req[r].pc = "gathering" /\ req[r].thread \in ThreadIds
         /\ UNCHANGED <<log, current, named, filed, widget>>
         /\ \E s2 : \E how \in OutcomeKinds :
              /\ Moves(r, s2) /\ Settles(s2, req[r], n, how)
              /\ MayEnd(req[r].tools[n], req[r].out[n], how)
              /\ s2.pc \in {"gathering", "reporting"}
<1> DEFINE s == req[r]
<1>1. PICK how \in OutcomeKinds :
        LET out == [s.out EXCEPT ![n] = how]
            all == \A k \in DOMAIN out : out[k] \in OutcomeKinds
        IN /\ s.pc = "gathering" /\ n \in DOMAIN s.out
           /\ MayEnd(s.tools[n], s.out[n], how)
           /\ req' = [req EXCEPT ![r].out = out,
                                 ![r].pc = IF all THEN "reporting" ELSE @]
           /\ UNCHANGED <<log, current, named, filed, widget>>
  BY DEF ToolEnds
<1>2. s \in Locals /\ Shaped(s) /\ s.pc = "gathering" /\ n \in DOMAIN s.out /\ how \in CallStates
  BY <1>1 DEF ChatInv, ReqOK, CallStates
<1>3. s.thread \in ThreadIds
  BY <1>2 DEF Shaped
<1>4. PICK a \in Locals : /\ a = [s EXCEPT !.out = [@ EXCEPT ![n] = how]]
                          /\ Shaped(a) /\ a.pc = s.pc /\ Settles(a, s, n, how)
  <2> HIDE DEF s
  <2> QED
    BY <1>2, SettlesIs
<1>5. PICK pc \in {"gathering", "reporting"} :
        /\ req' = [req EXCEPT ![r] = [a EXCEPT !.pc = pc]]
        /\ pc = "reporting" => \A k \in DOMAIN a.out : a.out[k] \in OutcomeKinds
  <2>1. a.out = [s.out EXCEPT ![n] = how] /\ a = [s EXCEPT !.out = a.out]
    BY <1>2, <1>4 DEF Locals
  <2>2. CASE \A k \in DOMAIN a.out : a.out[k] \in OutcomeKinds
    <3>1. req' = [req EXCEPT ![r].out = a.out, ![r].pc = "reporting"]
      BY <1>1, <2>1, <2>2
    <3>2. req' = [req EXCEPT ![r] = [a EXCEPT !.pc = "reporting"]]
      BY <2>1, <3>1
    <3> QED
      BY <2>2, <3>2
  <2>3. CASE ~ \A k \in DOMAIN a.out : a.out[k] \in OutcomeKinds
    <3>1. req' = [req EXCEPT ![r].out = a.out, ![r].pc = @]
      BY <1>1, <2>1, <2>3
    <3>2. req' = [req EXCEPT ![r] = [a EXCEPT !.pc = "gathering"]]
      BY <1>2, <1>4, <2>1, <3>1, ZenonT(60) DEF Locals
    <3> QED
      BY <3>2
  <2> QED
    BY <2>2, <2>3
<1>6. PICK s2 : s2 = [a EXCEPT !.pc = pc]
  OBVIOUS
<1>7. s2 \in Locals /\ s2.pc = pc /\ Same(s2, a) /\ s2.out = a.out
  BY <1>6, ZenonT(60) DEF Locals, Pcs, Same
<1>8. Settles(s2, s, n, how)
  BY <1>4, <1>7 DEF Settles, Same
<1>9. Shaped(s2)
  <2>1. Len(a.out) = Len(a.tools) /\ a.told = 0 /\ n \in 1..Len(a.out) /\ a.thread \in ThreadIds
    BY <1>2, <1>4 DEF Shaped, Settles
  <2>2. Len(a.out) \in Nat /\ 0 < Len(a.out)
    <3>1. a.out \in Seq(CallStates)
      BY DEF Locals
    <3> QED
      BY <2>1, <3>1, LenProperties
  <2> QED
    BY <1>5, <1>7, <2>1, <2>2 DEF Shaped, Same
<1> QED
  BY <1>1, <1>3, <1>5, <1>6, <1>7, <1>8, <1>9 DEF Moves

\* The memo of a ticket, or of a widget's report.
Notes(t, tool) == t.kind = "flow_event" /\ t.tool = tool /\ Tells(t, {})

\* One result, and the memo of a ticket that was raised.
Results(t, s, n) ==
  /\ t.kind = "tool_result" /\ t.tool = s.tools[n] /\ Tells(t, {<<s.seq, n>>})
  /\ FirstId(t) = <<s.seq, n>>
Raised(s, n) == s.tools[n] = "ticket" /\ s.out[n] = "ok"

LEMMA RecordedIs ==
  ASSUME ChatInv, NEW r \in Requests, req[r].pc = "reporting",
         NEW n, n \in 1..Len(req[r].out),
         log' = [log EXCEPT ![req[r].thread] = Recorded(req[r], n, @)]
  PROVE  \E t, m :
           /\ Adds(log, req[r].thread, t, m) /\ Results(t, req[r], n)
           /\ \/ ~ Raised(req[r], n) /\ log' = m
              \/ /\ Raised(req[r], n)
                 /\ \E u : /\ Adds(m, req[r].thread, u, log') /\ Notes(u, "ticket")
                           /\ FirstId(u) = <<req[r].seq, n>>
<1> DEFINE s == req[r]
           i == s.thread
           q == NextSeq(log[i])
           t == ToolResult(q, <<s.seq, n>>, s.tools[n], Failed(s.out[n]))
           m == [log EXCEPT ![i] = Append(log[i], t)]
           u == FlowEvent(q + 1, <<s.seq, n>>, "ticket")
<1>1. s \in Locals /\ Shaped(s) /\ s.pc = "reporting" /\ LogOK(log)
  BY DEF ChatInv, ReqOK
<1>2. i \in ThreadIds /\ Len(s.out) = Len(s.tools) /\ s.seq \in Nat
      /\ s.tools \in Seq(ToolKinds) /\ s.out \in Seq(CallStates) /\ n \in Nat
  <2>1. Len(s.out) \in Nat
    BY <1>1, LenProperties DEF Locals
  <2> HIDE DEF s
  <2> QED
    BY <1>1, <2>1 DEF Shaped, Locals
<1>3. s.tools[n] \in ToolKinds /\ s.out[n] \in OutcomeKinds
  <2>1. n \in 1..Len(s.tools) /\ n \in DOMAIN s.out
    BY <1>2, LenProperties
  <2> HIDE DEF s
  <2> QED
    BY <1>1, <1>2, <2>1, ElementOfSeq DEF Shaped
<1>4. PICK tool \in ToolKinds, err \in BOOLEAN, id \in BlockIds :
        tool = s.tools[n] /\ err = Failed(s.out[n]) /\ id = <<s.seq, n>>
  <2>1. Failed(s.out[n]) \in BOOLEAN
    BY DEF Failed
  <2> HIDE DEF s
  <2> QED
    BY <1>2, <1>3, <2>1 DEF BlockIds
<1>5. q = Len(log[i]) + 1 /\ q \in Nat
  <2> HIDE DEF s
  <2> QED
    BY <1>1, <1>2, NextSeqIs
<1>6. t = ToolResult(q, id, tool, err) /\ u = FlowEvent(q + 1, id, "ticket") /\ q + 1 \in Nat
  <2> HIDE DEF s, q
  <2>1. PICK p \in Nat : p = q
    BY <1>5, Zenon
  <2>2. q + 1 \in Nat
    <3>1. p + 1 \in Nat
      BY ONLY p \in Nat, SMTT(60)
    <3> QED
      BY <2>1, <3>1, Zenon
  <2> QED
    BY <1>4, <2>2, Zenon
<1>7. Recorded(s, n, log[i]) =
        Append(log[i], t) \o (IF Raised(s, n) THEN <<u>> ELSE <<>>)
  BY DEF Recorded, ResultTurn, Raised, Failed
<1>8. log' = [log EXCEPT ![i] = Recorded(s, n, log[i])]
  OBVIOUS
<1> HIDE DEF q, t, u, s
<1>9. /\ t \in Turn /\ Fresh(t) /\ t.seq = q /\ t.kind = "tool_result" /\ t.tool = tool
      /\ Tells(t, {id}) /\ FirstId(t) = id
  <2>1. PICK p \in Nat : p = q
    BY <1>5
  <2>2. PICK x : x = ToolResult(p, id, tool, err)
    OBVIOUS
  <2>3. x \in Turn /\ Fresh(x) /\ x.seq = p /\ FirstId(x) = id
        /\ x.kind = "tool_result" /\ x.tool = tool /\ Tells(x, {id})
    <3>1. p \in Nat /\ id \in BlockIds /\ tool \in ToolKinds /\ err \in BOOLEAN
      OBVIOUS
    <3> QED
      BY ONLY <2>2, <3>1, ToolResultIs
  <2>4. t = x
    BY <1>6, <2>1, <2>2
  <2> QED
    BY <2>1, <2>3, <2>4
<1>10. u \in Turn /\ Fresh(u) /\ u.seq = q + 1 /\ Notes(u, "ticket") /\ FirstId(u) = id
  BY <1>6, FlowEventIs DEF Notes
<1>11. Adds(log, i, t, m) /\ Results(t, s, n)
  BY <1>4, <1>5, <1>9 DEF Adds, Results
<1> HIDE DEF m
<1>12. LogOK(m) /\ m[i] = Append(log[i], t) /\ Len(m[i]) = q /\ m[i] \in Seq(Turn)
  <2>1. LogOK(m) /\ m[i] = Append(log[i], t) /\ Len(m[i]) = Len(log[i]) + 1
    BY <1>1, <1>2, <1>11, Grow, SMTT(60)
  <2> QED
    BY <1>2, <1>5, <2>1 DEF LogOK
<1>13. CASE ~ Raised(s, n)
  <2>1. Recorded(s, n, log[i]) = m[i]
    BY <1>7, <1>12, <1>13, ConcatEmptySeq
  <2>2. log' = m
    BY <1>8, <1>12, <2>1 DEF m
  <2> QED
    BY <1>11, <1>13, <2>2 DEF s
<1>14. CASE Raised(s, n)
  <2>1. Recorded(s, n, log[i]) = Append(m[i], u)
    <3>1. Append(m[i], u) = m[i] \o <<u>>
      BY <1>10, <1>12, AppendIsConcat
    <3> QED
      BY <1>7, <1>12, <1>14, <3>1
  <2>2. log' = [m EXCEPT ![i] = Append(m[i], u)]
    BY <1>1, <1>2, <1>8, <1>12, <2>1 DEF m, LogOK
  <2>3. Adds(m, i, u, log')
    BY <1>10, <1>12, <2>2 DEF Adds
  <2> QED
    BY <1>4, <1>10, <1>11, <1>14, <2>3 DEF s
<1> QED
  BY <1>13, <1>14

LEMMA ReportDoes ==
  ASSUME ChatInv, NEW r \in Requests, Report(r)
  PROVE  LET s == req[r]
             n == s.told + 1
         IN
         /\ s.pc = "reporting" /\ s \in Locals /\ s.thread \in ThreadIds
         /\ n \in 1..Len(s.out) /\ UNCHANGED <<current, named, filed, widget>>
         /\ log' = [log EXCEPT ![s.thread] = Recorded(s, n, @)]
         /\ \E s2 :
              /\ Moves(r, s2)
              /\ \/ /\ n < Len(s.out) /\ s2.pc = "reporting" /\ s2.told = n /\ s2.out = s.out
                    /\ s2.tools = s.tools /\ s2.thread = s.thread /\ s2.mine = s.mine
                    /\ s2.seq = s.seq /\ s2.sentLen = s.sentLen
                    /\ s2.calls = s.calls /\ s2.ending = s.ending
                 \/ n = Len(s.out) /\ Finishes(s2, s) /\ s2.seq = s.seq
                 \/ /\ n = Len(s.out) /\ s2.pc = "over" /\ s2.calls = 0
                    /\ s2.ending = "AUTH_EXPIRED" /\ s2.thread = s.thread
                 \/ n = Len(s.out) /\ Asks(s2, s) /\ s2.mine = s.mine /\ ~ Expired(s)
<1> DEFINE s == req[r]
           n == s.told + 1
           i == s.thread
           turns == Recorded(s, n, log[i])
           reported == [s EXCEPT !.told = n]
<1>1. /\ s.pc = "reporting" /\ n \in DOMAIN s.out
      /\ log' = [log EXCEPT ![i] = turns]
      /\ req' = [req EXCEPT ![r] =
                   IF n < Len(s.out) THEN reported ELSE AfterRound(reported, turns)]
      /\ UNCHANGED <<current, named, filed, widget>>
  BY DEF Report, Appended
<1>2. s \in Locals /\ Shaped(s) /\ LogOK(log)
  BY DEF ChatInv, ReqOK
<1>3. i \in ThreadIds /\ n \in 1..Len(s.out) /\ Len(s.out) \in Nat
  <2>1. s.out \in Seq(CallStates) /\ i \in ThreadIds
    BY <1>1, <1>2, SMTT(60) DEF Shaped, Locals
  <2> HIDE DEF s
  <2> QED
    BY <1>1, <2>1, LenProperties
<1>4. log'[i] = turns /\ turns \in Seq(Turn) /\ Last(turns).seq \in Nat
  <2>1. \E t, m : /\ Adds(log, i, t, m)
                  /\ \/ log' = m
                     \/ \E u : Adds(m, i, u, log')
    <3>1. req[r].pc = "reporting" /\ n \in 1..Len(req[r].out)
          /\ log' = [log EXCEPT ![req[r].thread] = Recorded(req[r], n, @)]
      BY <1>1, <1>3
    <3> HIDE DEF n
    <3> QED
      BY <3>1, RecordedIs
  <2>2. PICK t, m : Adds(log, i, t, m) /\ (log' = m \/ \E u : Adds(m, i, u, log'))
    BY <2>1
  <2>3. LogOK(m) /\ Len(m[i]) = Len(log[i]) + 1
    BY <1>2, <1>3, <2>2, Grow
  <2>4. LogOK(log') /\ Len(log'[i]) > 0
    <3>1. Len(log[i]) \in Nat
      BY <1>2, <1>3, NextSeqIs
    <3>2. CASE log' = m
      BY <2>3, <3>1, <3>2
    <3>3. CASE \E u : Adds(m, i, u, log')
      <4>1. LogOK(log') /\ Len(log'[i]) = Len(m[i]) + 1
        <5>1. PICK u : Adds(m, i, u, log')
          BY <3>3
        <5>2. PICK k \in ThreadIds : k = i
          BY <1>3
        <5>3. LogOK(m) /\ Adds(m, k, u, log')
          BY <2>3, <5>1, <5>2
        <5>4. LogOK(log') /\ Len(log'[k]) = Len(m[k]) + 1
          BY ONLY <5>3, Grow
        <5> QED
          BY <5>2, <5>4
      <4> QED
        BY <2>3, <3>1, <4>1
    <3> QED
      BY <2>2, <3>2, <3>3
  <2>5. log'[i] = turns
    BY <1>1, <1>2, <1>3 DEF LogOK
  <2>6. PICK x \in Seq(Turn) : x = turns
    BY <1>3, <2>4, <2>5 DEF LogOK
  <2>7. x[Len(x)] \in Turn
    BY <2>4, <2>5, <2>6, LenProperties, ElementOfSeq
  <2> QED
    BY <2>5, <2>6, <2>7 DEF Last, Turn
<1> HIDE DEF turns
<1>5. /\ reported \in Locals /\ reported.told = n /\ reported.pc = s.pc /\ reported.out = s.out
      /\ reported.tools = s.tools /\ reported.thread = i /\ reported.mine = s.mine
      /\ reported.seq = s.seq /\ reported.sentLen = s.sentLen
      /\ reported.calls = s.calls /\ reported.ending = s.ending
  <2>1. n \in Nat
    BY <1>3
  <2> HIDE DEF s, n
  <2> QED
    BY <1>2, <2>1 DEF Locals
<1> HIDE DEF reported
<1>6. CASE n < Len(s.out)
  <2>1. Shaped(reported)
    BY <1>1, <1>2, <1>3, <1>5, <1>6 DEF Shaped
  <2>2. Moves(r, reported)
    BY <1>1, <1>5, <1>6, <2>1 DEF Moves
  <2> QED
    BY <1>1, <1>2, <1>3, <1>5, <1>6, <2>2 DEF turns
<1>7. CASE ~ (n < Len(s.out))
  <2>1. n = Len(s.out) /\ req' = [req EXCEPT ![r] = AfterRound(reported, turns)]
    BY <1>1, <1>3, <1>7, SMTT(60)
  <2>2. CASE CardsOnly(reported)
    <3>1. PICK q \in Nat : Last(turns).seq = q
      BY <1>4
    <3>2. PICK s2 \in Locals : /\ s2 = Done(reported, turns) /\ Shaped(s2) /\ s2.pc = "over"
                               /\ s2.thread = i /\ s2.seq = s.seq /\ s2.calls = 0
                               /\ s2.ending = "done" /\ s2.lastSeq = q
      BY <1>5, <3>1, DoneIs
    <3>3. Moves(r, s2) /\ Finishes(s2, s)
      BY <1>4, <2>1, <2>2, <3>1, <3>2 DEF AfterRound, Moves, Finishes
    <3> QED
      BY <1>1, <1>2, <1>3, <2>1, <3>2, <3>3 DEF turns
  <2>3. CASE ~ CardsOnly(reported) /\ Expired(reported)
    <3>1. "AUTH_EXPIRED" \in Endings
      BY DEF Endings
    <3>2. PICK s2 \in Locals : /\ s2 = Ended(reported, "AUTH_EXPIRED") /\ Shaped(s2)
                               /\ s2.pc = "over" /\ s2.calls = 0 /\ s2.ending = "AUTH_EXPIRED"
                               /\ s2.thread = i
      BY <1>5, <3>1, EndedIs
    <3>3. Moves(r, s2)
      BY <2>1, <2>3, <3>2 DEF AfterRound, AfterExpiry, Moves
    <3> QED
      BY <1>1, <1>2, <1>3, <2>1, <3>2, <3>3 DEF turns
  <2>4. CASE ~ CardsOnly(reported) /\ ~ Expired(reported)
    <3>1. PICK x \in Seq(Turn) : x = turns
      BY <1>4
    <3>2. PICK s2 \in Locals : /\ s2 = Asking(reported, x) /\ Shaped(s2) /\ s2.pc = "asking"
                               /\ s2.thread = i /\ s2.mine = s.mine /\ s2.ending = s.ending
                               /\ s2.accepted = WireValid[History(x)] /\ s2.sentLen = Len(x)
      BY <1>3, <1>5, AskingIs
    <3>3. Moves(r, s2) /\ Asks(s2, s)
      BY <1>4, <2>1, <2>4, <3>1, <3>2 DEF AfterRound, Moves, Asks
    <3>4. ~ Expired(s)
      BY <1>5, <2>4 DEF Expired
    <3> QED
      BY <1>1, <1>2, <1>3, <2>1, <3>2, <3>3, <3>4 DEF turns
  <2> QED
    BY <2>2, <2>3, <2>4
<1> QED
  BY <1>6, <1>7

-----------------------------------------------------------------------------

LEMMA HelpArrivesDoes ==
  ASSUME ChatInv, NEW r \in Requests, HelpArrives(r)
  PROVE  /\ req[r].pc = "new" /\ UNCHANGED <<log, current, named, filed, widget>>
         /\ \E s2 : /\ Moves(r, s2) /\ s2.pc = "filing" /\ s2.thread = current
                    /\ s2.out[1] = "running" /\ s2.calls = 0 /\ s2.ending = "none"
<1> DEFINE tools == <<"ticket">>
           out == <<"running">>
<1>1. /\ req[r].pc = "new" /\ UNCHANGED <<log, current, named, filed, widget>>
      /\ req' = [req EXCEPT ![r] = [NotArrived EXCEPT !.pc = "filing", !.thread = current,
                                                      !.tools = tools, !.out = out]]
  BY DEF HelpArrives
<1>2. tools \in Seq(ToolKinds) /\ Len(tools) = 1 /\ tools[1] = "ticket"
  BY DEF ToolKinds
<1>3. out \in Seq(CallStates) /\ Len(out) = 1 /\ out[1] = "running"
  BY DEF CallStates
<1> HIDE DEF tools, out
<1>4. current \in ThreadIds /\ current \in 0..MaxThreads
  BY ChatAssumption DEF ChatInv, ThreadIds
<1>5. PICK s2 : s2 = [NotArrived EXCEPT !.pc = "filing", !.thread = current,
                                        !.tools = tools, !.out = out]
  OBVIOUS
<1>6. s2 \in Locals
  BY <1>2, <1>3, <1>4, <1>5, NotArrivedIs, ZenonT(60) DEF Locals, Pcs
<1>7. /\ s2.pc = "filing" /\ s2.thread = current /\ s2.tools = tools /\ s2.out = out
      /\ s2.told = 0 /\ s2.calls = 0 /\ s2.ending = "none"
  BY <1>5 DEF NotArrived
<1>8. Shaped(s2)
  BY <1>2, <1>3, <1>4, <1>7 DEF Shaped
<1> QED
  BY <1>1, <1>3, <1>5, <1>6, <1>7, <1>8 DEF Moves

LEMMA HelpFilesDoes ==
  ASSUME ChatInv, NEW r \in Requests, HelpFiles(r)
  PROVE  /\ req[r].pc = "filing" /\ req[r].out[1] = "running" /\ req[r].thread \in ThreadIds
         /\ filed' = [filed EXCEPT ![req[r].thread] = @ + 1]
         /\ UNCHANGED <<log, current, named, widget>>
         /\ \E s2 : Moves(r, s2) /\ s2.pc = "filing" /\ Settles(s2, req[r], 1, "filed")
<1> DEFINE s == req[r]
           done == <<"filed">>
<1>1. /\ s.pc = "filing" /\ s.out = <<"running">> /\ req' = [req EXCEPT ![r].out = done]
      /\ filed' = [filed EXCEPT ![s.thread] = @ + 1]
      /\ UNCHANGED <<log, current, named, widget>>
  BY DEF HelpFiles
<1>2. s \in Locals /\ Shaped(s) /\ s.thread \in ThreadIds
  BY <1>1 DEF ChatInv, ReqOK, Shaped
<1>3. done \in Seq(CallStates) /\ Len(done) = 1 /\ done[1] = "filed"
  BY DEF CallStates
<1>4. Len(s.out) = 1 /\ s.out[1] = "running"
  BY <1>1
<1> HIDE DEF s, done
<1>5. PICK s2 : s2 = [s EXCEPT !.out = done]
  OBVIOUS
<1>6. s2 \in Locals /\ s2.pc = s.pc /\ s2.out = done /\ Same(s2, s)
  BY <1>2, <1>3, <1>5 DEF Locals, Same
<1>7. Shaped(s2) /\ Settles(s2, s, 1, "filed")
  BY <1>1, <1>2, <1>3, <1>4, <1>6 DEF Shaped, Same, Settles
<1>8. req' = [req EXCEPT ![r] = s2]
  BY <1>1, <1>5 DEF s
<1> QED
  BY <1>1, <1>2, <1>4, <1>6, <1>7, <1>8 DEF Moves, s

LEMMA HelpEndsDoes ==
  ASSUME ChatInv, NEW r \in Requests, HelpEnds(r)
  PROVE  /\ req[r].pc = "filing" /\ req[r].thread \in ThreadIds
         /\ UNCHANGED <<current, named, filed, widget>>
         /\ \/ /\ req[r].out[1] = "filed" /\ Leaves(r, "ticket")
               /\ \E t : Adds(log, req[r].thread, t, log') /\ Notes(t, "ticket")
            \/ /\ UNCHANGED log /\ Leaves(r, "no_ticket")
               /\ req[r].out[1] \in {"filed", "ok"} => "late" \in Faults
<1> DEFINE s == req[r]
           i == s.thread
           q == NextSeq(log[i])
           t == FlowEvent(q, <<q, 1>>, "ticket")
<1>1. PICK how \in {"ok", "failed"} :
        /\ s.pc = "filing" /\ MayEnd("ticket", s.out[1], how)
        /\ IF how = "ok" THEN log' = [log EXCEPT ![i] = Append(log[i], t)] ELSE UNCHANGED log
        /\ req' = [req EXCEPT ![r] = Ended(s, IF how = "ok" THEN "ticket" ELSE "no_ticket")]
        /\ UNCHANGED <<current, named, filed, widget>>
  BY DEF HelpEnds, Appended
<1>2. s \in Locals /\ i \in ThreadIds /\ LogOK(log)
  BY <1>1, SMTT(60) DEF ChatInv, ReqOK, Shaped
<1>3. CASE how = "ok"
  <2>1. PICK p \in Nat : p = q /\ p = Len(log[i]) + 1
    <3> HIDE DEF s
    <3> QED
      BY <1>2, NextSeqIs
  <2>2. PICK id \in BlockIds : id = <<p, 1>>
    BY DEF BlockIds
  <2>3. PICK u : u = FlowEvent(p, id, "ticket")
    OBVIOUS
  <2>4. u \in Turn /\ Fresh(u) /\ u.seq = p /\ Notes(u, "ticket")
    BY <2>3, FlowEventIs DEF Notes
  <2>5. t = u
    BY <2>1, <2>2, <2>3
  <2>6. log' = [log EXCEPT ![i] = Append(log[i], u)]
    BY <1>1, <1>3, <2>5
  <2>7. Adds(log, i, u, log')
    BY <2>1, <2>4, <2>6 DEF Adds
  <2>8. s.out[1] = "filed"
    BY <1>1, <1>3 DEF MayEnd
  <2>9. req' = [req EXCEPT ![r] = Ended(s, "ticket")] /\ "ticket" \in Endings
    BY <1>1, <1>3 DEF Endings
  <2> HIDE DEF t
  <2>10. PICK s2 \in Locals : /\ s2 = Ended(s, "ticket") /\ Shaped(s2) /\ s2.pc = "over"
                              /\ s2.thread = s.thread /\ s2.seq = s.seq
                              /\ s2.calls = 0 /\ s2.ending = "ticket"
    <3> HIDE DEF s
    <3> QED
      BY <1>2, <2>9, EndedIs
  <2>11. Leaves(r, "ticket")
    BY <2>9, <2>10 DEF Leaves, Moves
  <2> QED
    BY <1>1, <1>2, <2>4, <2>7, <2>8, <2>11
<1>4. CASE how # "ok"
  <2>1. req' = [req EXCEPT ![r] = Ended(s, "no_ticket")] /\ "no_ticket" \in Endings /\ UNCHANGED log
    BY <1>1, <1>4 DEF Endings
  <2>2. s.out[1] \in {"filed", "ok"} => "late" \in Faults
    BY <1>1, <1>4 DEF MayEnd
  <2>3. PICK s2 \in Locals : /\ s2 = Ended(s, "no_ticket") /\ Shaped(s2) /\ s2.pc = "over"
                             /\ s2.thread = s.thread /\ s2.seq = s.seq
                             /\ s2.calls = 0 /\ s2.ending = "no_ticket"
    <3> HIDE DEF s
    <3> QED
      BY <1>2, <2>1, EndedIs
  <2>4. Leaves(r, "no_ticket")
    BY <2>1, <2>3 DEF Leaves, Moves
  <2> QED
    BY <1>1, <1>2, <2>1, <2>2, <2>4
<1> QED
  BY <1>3, <1>4, SMTT(60)

LEMMA RecordFlowEventDoes ==
  ASSUME ChatInv, RecordFlowEvent
  PROVE  /\ widget' \in 0..MaxFlowEvents /\ UNCHANGED <<current, named, req, filed>>
         /\ \E t : Adds(log, current, t, log') /\ Notes(t, "none")
<1>1. current \in ThreadIds /\ LogOK(log) /\ widget \in 0..MaxFlowEvents
  BY DEF ChatInv
<1>2. PICK q \in Nat : q = NextSeq(log[current]) /\ q = Len(log[current]) + 1
  BY <1>1, NextSeqIs
<1>3. PICK id \in BlockIds : id = <<q, 0>>
  BY DEF BlockIds
<1>4. PICK t : t = FlowEvent(q, id, "none")
  OBVIOUS
<1>5. t \in Turn /\ Fresh(t) /\ t.seq = q /\ Notes(t, "none")
  BY <1>4, FlowEventIs DEF Notes
<1>6. log' = [log EXCEPT ![current] = Append(log[current], t)]
  BY <1>2, <1>3, <1>4 DEF RecordFlowEvent, Appended
<1>7. Adds(log, current, t, log')
  BY <1>2, <1>5, <1>6 DEF Adds
<1>8. widget' \in 0..MaxFlowEvents /\ UNCHANGED <<current, named, req, filed>>
  BY <1>1, ChatAssumption DEF RecordFlowEvent
<1> QED
  BY <1>5, <1>7, <1>8

LEMMA CrashDoes ==
  ASSUME ChatInv, Crash
  PROVE  /\ "crash" \in Faults /\ UNCHANGED <<filed, widget>>
         /\ LogOK(log') /\ ReqOK(req') /\ current' \in ThreadIds /\ named' = {}
         /\ \A r \in Requests : \/ ~ Served(r) /\ req'[r] = req[r]
                                \/ /\ Served(r) /\ req'[r].pc = "gone" /\ req'[r].calls = 0
                                   /\ req'[r].ending = "none"
<1>1. PICK c \in 1..current : \E n \in 0..Len(log[c]) :
        /\ current' = c
        /\ log' = [t \in DOMAIN log |-> IF t < c THEN log[t]
                                        ELSE IF t = c THEN SubSeq(log[c], 1, n) ELSE <<>>]
  BY DEF Crash
<1>2. PICK n \in 0..Len(log[c]) :
        /\ current' = c
        /\ log' = [t \in DOMAIN log |-> IF t < c THEN log[t]
                                        ELSE IF t = c THEN SubSeq(log[c], 1, n) ELSE <<>>]
  BY <1>1
<1>3. c \in ThreadIds /\ LogOK(log) /\ ReqOK(req)
  BY ChatAssumption DEF ChatInv, ThreadIds
<1>4. PICK turns \in Seq(Turn) : turns = log[c]
  BY <1>3 DEF LogOK
<1>5. Len(turns) \in Nat /\ DOMAIN turns = 1..Len(turns)
  BY LenProperties
<1>6. PICK some \in Seq(Turn) : /\ some = SubSeq(turns, 1, n) /\ Len(some) = n
                                /\ \A k \in 1..n : some[k] = turns[k]
  <2>1. \A k \in 1..n : turns[k] \in Turn
    BY <1>4, <1>5, ElementOfSeq
  <2>2. n \in Int /\ n >= 0 /\ n - 1 + 1 = n /\ \A k \in 1..n : 1 + k - 1 = k
    BY <1>4, <1>5
  <2>3. /\ SubSeq(turns, 1, n) \in Seq(Turn)
        /\ Len(SubSeq(turns, 1, n)) = IF 1 <= n THEN n - 1 + 1 ELSE 0
        /\ \A k \in 1..(n - 1 + 1) : SubSeq(turns, 1, n)[k] = turns[1 + k - 1]
    BY <2>1, <2>2, SubSeqProperties, SMTT(60)
  <2>4. Len(SubSeq(turns, 1, n)) = n /\ \A k \in 1..n : SubSeq(turns, 1, n)[k] = turns[k]
    BY <2>2, <2>3
  <2> QED
    BY <2>3, <2>4
<1>7. PICK e \in Seq(Turn) : e = <<>> /\ Len(e) = 0
  BY EmptySeq
<1>8. log' = [t \in ThreadIds |-> IF t < c THEN log[t] ELSE IF t = c THEN some ELSE e]
  BY <1>2, <1>3, <1>4, <1>6, <1>7 DEF LogOK
<1>9. log' \in [ThreadIds -> Seq(Turn)]
  BY <1>3, <1>8 DEF LogOK
<1>10. ASSUME NEW j \in ThreadIds, NEW k \in DOMAIN log'[j]
       PROVE  log'[j][k].seq = k /\ Fresh(log'[j][k])
  <2>1. CASE j < c
    BY <1>3, <1>8, <1>10, <2>1 DEF LogOK
  <2>2. CASE j = c
    <3>1. k \in DOMAIN some /\ log'[j][k] = some[k]
      BY <1>8, <1>10, <2>2
    <3>2. k \in 1..n
      BY <1>6, <3>1, LenProperties
    <3>3. some[k] = turns[k] /\ k \in DOMAIN turns
      BY <1>4, <1>5, <1>6, <3>2
    <3> QED
      BY <1>3, <1>4, <3>1, <3>3 DEF LogOK
  <2>3. CASE ~ (j < c) /\ j # c
    <3>1. k \in DOMAIN e
      BY <1>8, <1>10, <2>3
    <3>2. k \in 1..0
      BY <1>7, <3>1, LenProperties
    <3> QED
      BY <3>2
  <2> QED
    BY <2>1, <2>2, <2>3
<1>11. LogOK(log')
  BY <1>9, <1>10 DEF LogOK
<1>12. \A r \in Requests : Left(req[r], "gone") \in Locals /\ Shaped(Left(req[r], "gone"))
         /\ Left(req[r], "gone").pc = "gone" /\ Left(req[r], "gone").calls = 0
         /\ Left(req[r], "gone").ending = "none"
  <2>1. \A r \in Requests : req[r] \in Locals
    BY <1>3 DEF ReqOK
  <2> QED
    BY <2>1, LeftIs
<1>13. req' = [r \in Requests |-> IF Served(r) THEN Left(req[r], "gone") ELSE req[r]]
       /\ named' = {} /\ UNCHANGED <<filed, widget>> /\ "crash" \in Faults
  BY DEF Crash
<1>14. ReqOK(req')
  <2>1. \A r \in Requests : req'[r] = Left(req[r], "gone") \/ req'[r] = req[r]
    BY <1>13
  <2>2. \A r \in Requests : req'[r] \in Locals /\ Shaped(req'[r])
    BY <1>3, <1>12, <2>1 DEF ReqOK
  <2>3. req' \in [Requests -> Locals]
    BY <1>13, <2>2
  <2> QED
    BY <2>2, <2>3 DEF ReqOK
<1>15. \A r \in Requests : \/ ~ Served(r) /\ req'[r] = req[r]
                           \/ /\ Served(r) /\ req'[r].pc = "gone" /\ req'[r].calls = 0
                              /\ req'[r].ending = "none"
  BY <1>12, <1>13
<1> QED
  BY <1>2, <1>3, <1>11, <1>13, <1>14, <1>15

-----------------------------------------------------------------------------
(* Types. *)

LEMMA ChatInvInit == Init => ChatInv
<1> SUFFICES ASSUME Init PROVE ChatInv
  OBVIOUS
<1>1. <<>> \in Seq(Turn) /\ DOMAIN <<>> = {}
  BY EmptySeq
<1>2. LogOK(log)
  BY <1>1 DEF Init, LogOK
<1>3. ReqOK(req)
  BY NotArrivedIs DEF Init, ReqOK
<1>4. current \in ThreadIds /\ named \subseteq ThreadIds
  BY ChatAssumption DEF Init, ThreadIds
<1>5. filed \in [ThreadIds -> Nat] /\ widget \in 0..MaxFlowEvents
  BY ChatAssumption DEF Init
<1> QED
  BY <1>2, <1>3, <1>4, <1>5 DEF ChatInv

\* A step of one request that leaves the other requests alone.
LEMMA MovesOK ==
  ASSUME ReqOK(req), NEW r \in Requests, NEW s, Moves(r, s)
  PROVE  /\ ReqOK(req') /\ req'[r] = s /\ s \in Locals /\ Shaped(s)
         /\ \A o \in Requests : o # r => req'[o] = req[o]
<1>1. s \in Locals /\ Shaped(s) /\ req' = [req EXCEPT ![r] = s]
  BY DEF Moves
<1>2. ReqOK([req EXCEPT ![r] = s])
  BY <1>1, Move
<1>3. ReqOK(req')
  BY <1>1, <1>2
<1>4. req'[r] = s /\ \A o \in Requests : o # r => req'[o] = req[o]
  BY <1>1 DEF ReqOK
<1> QED
  BY <1>1, <1>3, <1>4

LEMMA AddsOK ==
  ASSUME LogOK(log), NEW i \in ThreadIds, NEW t, Adds(log, i, t, log')
  PROVE  LogOK(log')
  BY Grow

LEMMA SubmitsOK ==
  ASSUME ChatInv, NEW r \in Requests, NEW s, s.thread \in ThreadIds, Submits(r, s)
  PROVE  LogOK(log') /\ ReqOK(req')
<1>1. PICK t, s2 : Adds(log, s.thread, t, log') /\ Moves(r, s2)
  BY DEF Submits
<1> QED
  BY <1>1, AddsOK, MovesOK DEF ChatInv

LEMMA LeavesOK ==
  ASSUME ChatInv, NEW r \in Requests, NEW how, Leaves(r, how)
  PROVE  ReqOK(req')
<1>1. PICK s2 : Moves(r, s2)
  BY DEF Leaves
<1> QED
  BY <1>1, MovesOK DEF ChatInv

LEMMA RecordedOK ==
  ASSUME ChatInv, NEW r \in Requests, req[r].pc = "reporting",
         NEW n, n \in 1..Len(req[r].out),
         log' = [log EXCEPT ![req[r].thread] = Recorded(req[r], n, @)]
  PROVE  LogOK(log')
<1>1. LogOK(log) /\ req[r].thread \in ThreadIds
  BY DEF ChatInv, ReqOK, Shaped
<1>2. PICK i \in ThreadIds : i = req[r].thread
  BY <1>1
<1>3. PICK t, m : Adds(log, i, t, m) /\ (log' = m \/ \E u : Adds(m, i, u, log'))
  BY <1>2, RecordedIs
<1>4. LogOK(m)
  BY <1>1, <1>3, Grow
<1>5. CASE log' = m
  BY <1>4, <1>5
<1>6. ASSUME NEW u, Adds(m, i, u, log') PROVE LogOK(log')
  BY <1>4, <1>6, Grow
<1> QED
  BY <1>3, <1>5, <1>6

LEMMA FiledOK ==
  ASSUME filed \in [ThreadIds -> Nat], NEW i \in ThreadIds, filed' = [filed EXCEPT ![i] = @ + 1]
  PROVE  filed' \in [ThreadIds -> Nat]
  OBVIOUS

LEMMA ChatInvStep == ChatInv /\ [Next]_vars => ChatInv'
<1> SUFFICES ASSUME ChatInv, [Next]_vars PROVE ChatInv'
  OBVIOUS
<1>0. LogOK(log) /\ ReqOK(req) /\ current \in ThreadIds /\ named \subseteq ThreadIds
      /\ filed \in [ThreadIds -> Nat] /\ widget \in 0..MaxFlowEvents
  BY DEF ChatInv
<1>1. ASSUME NEW r \in Requests, Arrive(r) PROVE ChatInv'
  <2>1. UNCHANGED <<current, named, filed, widget>>
    BY <1>1, ArriveDoes
  <2>2. PICK s \in Locals :
          s.thread = current /\ (Submits(r, s) \/ \E s2 : Moves(r, s2) /\ UNCHANGED log)
    BY <1>1, ArriveDoes
  <2>3. LogOK(log') /\ ReqOK(req')
    BY <1>0, <2>2, SubmitsOK, MovesOK
  <2> QED
    BY <1>0, <2>1, <2>3 DEF ChatInv
<1>2. ASSUME NEW r \in Requests, NameArrives(r) PROVE ChatInv'
  <2>1. /\ req[r].thread \in ThreadIds /\ named' = named \cup {req[r].thread}
        /\ UNCHANGED <<current, filed, widget>> /\ Submits(r, req[r])
    BY <1>2, NameArrivesDoes
  <2>2. LogOK(log') /\ ReqOK(req')
    BY <2>1, SubmitsOK
  <2> QED
    BY <1>0, <2>1, <2>2 DEF ChatInv
<1>3. ASSUME NEW r \in Requests, ModelFails(r) PROVE ChatInv'
  <2>1. Leaves(r, "AGENT_UNAVAILABLE") /\ UNCHANGED <<log, current, named, filed, widget>>
    BY <1>3, ModelFailsDoes
  <2>2. ReqOK(req')
    BY <2>1, LeavesOK
  <2> QED
    BY <1>0, <2>1, <2>2 DEF ChatInv
<1>4. ASSUME NEW r \in Requests, ModelReplies(r) PROVE ChatInv'
  <2>1. req[r].thread \in ThreadIds /\ UNCHANGED <<current, named, filed, widget>>
    BY <1>4, ModelRepliesDoes
  <2>2. PICK t, s2 : Adds(log, req[r].thread, t, log') /\ Moves(r, s2)
    BY <1>4, ModelRepliesDoes
  <2>3. LogOK(log') /\ ReqOK(req')
    BY <1>0, <2>1, <2>2, AddsOK, MovesOK
  <2> QED
    BY <1>0, <2>1, <2>3 DEF ChatInv
<1>5. ASSUME NEW r \in Requests, Dispatch(r) PROVE ChatInv'
  <2>1. UNCHANGED <<log, current, named, filed, widget>> /\ \E s2 : Moves(r, s2)
    BY <1>5, DispatchDoes
  <2>2. ReqOK(req')
    BY <1>0, <2>1, MovesOK
  <2> QED
    BY <1>0, <2>1, <2>2 DEF ChatInv
<1>6. ASSUME NEW r \in Requests, Report(r) PROVE ChatInv'
  <2>1. UNCHANGED <<current, named, filed, widget>> /\ \E s2 : Moves(r, s2)
    BY <1>6, ReportDoes
  <2>2. PICK n : /\ req[r].pc = "reporting" /\ n \in 1..Len(req[r].out)
                 /\ log' = [log EXCEPT ![req[r].thread] = Recorded(req[r], n, @)]
    BY <1>6, ReportDoes
  <2>3. LogOK(log')
    BY <2>2, RecordedOK
  <2>4. ReqOK(req')
    BY <1>0, <2>1, MovesOK
  <2> QED
    BY <1>0, <2>1, <2>3, <2>4 DEF ChatInv
<1>7. ASSUME NEW r \in Requests, NEW n \in 1..Len(req[r].out), ToolEnds(r, n) PROVE ChatInv'
  <2>1. UNCHANGED <<log, current, named, filed, widget>> /\ \E s2 : Moves(r, s2)
    BY <1>7, ToolEndsDoes
  <2>2. ReqOK(req')
    BY <1>0, <2>1, MovesOK
  <2> QED
    BY <1>0, <2>1, <2>2 DEF ChatInv
<1>8. ASSUME NEW r \in Requests, HelpEnds(r) PROVE ChatInv'
  <2>1. req[r].thread \in ThreadIds /\ UNCHANGED <<current, named, filed, widget>>
        /\ \E how : Leaves(r, how)
    BY <1>8, HelpEndsDoes
  <2>2. UNCHANGED log \/ \E t : Adds(log, req[r].thread, t, log')
    BY <1>8, HelpEndsDoes
  <2>3. LogOK(log') /\ ReqOK(req')
    BY <1>0, <2>1, <2>2, AddsOK, LeavesOK
  <2> QED
    BY <1>0, <2>1, <2>3 DEF ChatInv
<1>9. ASSUME NEW r \in Requests, HelpArrives(r) PROVE ChatInv'
  <2>1. UNCHANGED <<log, current, named, filed, widget>> /\ \E s2 : Moves(r, s2)
    BY <1>9, HelpArrivesDoes
  <2>2. ReqOK(req')
    BY <1>0, <2>1, MovesOK
  <2> QED
    BY <1>0, <2>1, <2>2 DEF ChatInv
<1>10. ASSUME NEW r \in Requests, HelpFiles(r) PROVE ChatInv'
  <2>1. req[r].thread \in ThreadIds /\ filed' = [filed EXCEPT ![req[r].thread] = @ + 1]
        /\ UNCHANGED <<log, current, named, widget>> /\ \E s2 : Moves(r, s2)
    BY <1>10, HelpFilesDoes
  <2>2. ReqOK(req') /\ filed' \in [ThreadIds -> Nat]
    BY <1>0, <2>1, MovesOK, FiledOK
  <2> QED
    BY <1>0, <2>1, <2>2 DEF ChatInv
<1>11. ASSUME NEW r \in Requests, Abort(r) PROVE ChatInv'
  <2>1. Leaves(r, "none") /\ UNCHANGED <<log, current, named, filed, widget>>
    BY <1>11, AbortDoes
  <2>2. ReqOK(req')
    BY <2>1, LeavesOK
  <2> QED
    BY <1>0, <2>1, <2>2 DEF ChatInv
<1>12. ASSUME NEW r \in Requests, NEW n \in 1..Len(req[r].out), Files(r, n) PROVE ChatInv'
  <2>1. req[r].thread \in ThreadIds /\ filed' = [filed EXCEPT ![req[r].thread] = @ + 1]
        /\ UNCHANGED <<log, current, named, widget>> /\ \E s2 : Moves(r, s2)
    BY <1>12, FilesDoes
  <2>2. ReqOK(req') /\ filed' \in [ThreadIds -> Nat]
    BY <1>0, <2>1, MovesOK, FiledOK
  <2> QED
    BY <1>0, <2>1, <2>2 DEF ChatInv
<1>13. ASSUME RecordFlowEvent PROVE ChatInv'
  <2>1. widget' \in 0..MaxFlowEvents /\ UNCHANGED <<current, named, req, filed>>
        /\ \E t : Adds(log, current, t, log')
    BY <1>13, RecordFlowEventDoes
  <2>2. LogOK(log')
    BY <1>0, <2>1, AddsOK
  <2> QED
    BY <1>0, <2>1, <2>2 DEF ChatInv
<1>14. ASSUME Reset PROVE ChatInv'
  <2>1. current' \in ThreadIds /\ UNCHANGED <<log, named, req, filed, widget>>
    BY <1>0, <1>14, ChatAssumption DEF Reset, ThreadIds
  <2> QED
    BY <1>0, <2>1 DEF ChatInv
<1>15. ASSUME Crash PROVE ChatInv'
  <2>1. /\ UNCHANGED <<filed, widget>> /\ LogOK(log') /\ ReqOK(req')
        /\ current' \in ThreadIds /\ named' = {}
    BY <1>15, CrashDoes
  <2> QED
    BY <1>0, <2>1 DEF ChatInv
<1>16. ASSUME UNCHANGED vars PROVE ChatInv'
  BY <1>0, <1>16 DEF vars, ChatInv
<1> QED
  BY <1>1, <1>2, <1>3, <1>4, <1>5, <1>6, <1>7, <1>8, <1>9, <1>10, <1>11, <1>12, <1>13, <1>14,
     <1>15, <1>16 DEF Next, Advance

LEMMA ChatInvAlways == Spec => []ChatInv
  BY ChatInvInit, ChatInvStep, PTL DEF Spec

\* Every variable keeps its range, and a thread's turns stay numbered by their positions,
\* whoever appends them: chat, tools, widget or ticket route.
THEOREM ChatTyped == Spec => []TypeOK
  BY ChatInvAlways, ChatInvTypes, PTL

-----------------------------------------------------------------------------
(* A request makes a model call, names the answer it ends, or does neither. *)

Quiet(r) ==
  /\ req'[r].calls \in {0, req[r].calls}
  /\ req'[r].ending = "done" => req[r].ending = "done"
Speaks(r) ==
  /\ req'[r].pc = "asking" /\ ~ Expired(req[r])
  /\ Report(r) \/ req[r].pc \in {"new", "naming"}
  /\ req'[r].ending = "done" => req[r].ending = "done"
Names(r) ==
  /\ req'[r].calls = 0
  /\ \E t \in ToSet(log'[req'[r].thread]) : t.seq = req'[r].lastSeq /\ Answers(t, req'[r])
OneOf(r) == Quiet(r) \/ Speaks(r) \/ Names(r)

LEMMA NotExpired ==
  ASSUME NEW s \in Locals, Len(s.out) = 0
  PROVE  ~ Expired(s)
<1>1. PICK out \in Seq(CallStates) : out = s.out /\ Len(out) = 0
  BY DEF Locals
<1>2. DOMAIN out = {}
  BY <1>1, LenProperties
<1> QED
  BY <1>1, <1>2 DEF Expired, ToSet

LEMMA StillQuiet ==
  ASSUME NEW r \in Requests, req'[r] = req[r]
  PROVE  OneOf(r)
  BY DEF OneOf, Quiet

\* Only request r moves.
LEMMA OneMoves ==
  ASSUME ChatInv, NEW r \in Requests, NEW s, Moves(r, s), OneOf(r)
  PROVE  \A o \in Requests : OneOf(o)
<1>1. \A o \in Requests : o # r => req'[o] = req[o]
  BY MovesOK DEF ChatInv
<1> QED
  BY <1>1, StillQuiet

LEMMA LeavesQuietly ==
  ASSUME ChatInv, NEW r \in Requests, NEW how, how # "done", Leaves(r, how)
  PROVE  \A o \in Requests : OneOf(o)
<1>1. PICK s2 : Moves(r, s2) /\ s2.calls = 0 /\ s2.ending = how
  BY DEF Leaves
<1>2. req'[r] = s2
  BY <1>1, MovesOK DEF ChatInv
<1>3. OneOf(r)
  BY <1>1, <1>2 DEF OneOf, Quiet
<1> QED
  BY <1>1, <1>3, OneMoves

LEMMA SubmitsSpeaks ==
  ASSUME ChatInv, NEW r \in Requests, req[r].pc \in {"new", "naming"}, NEW s,
         s.ending \in {"none", req[r].ending}, Submits(r, s)
  PROVE  \A o \in Requests : OneOf(o)
<1>1. PICK t, s2 : Moves(r, s2) /\ s2.pc = "asking" /\ s2.ending = s.ending
  BY DEF Submits, Asks
<1>2. req'[r] = s2
  BY <1>1, MovesOK DEF ChatInv
<1>3. req[r] \in Locals /\ Len(req[r].out) = 0
  BY DEF ChatInv, ReqOK, Shaped
<1>4. ~ Expired(req[r])
  <2>1. PICK s3 \in Locals : s3 = req[r] /\ Len(s3.out) = 0
    BY <1>3
  <2> QED
    BY <2>1, NotExpired
<1>5. OneOf(r)
  BY <1>1, <1>2, <1>4 DEF OneOf, Speaks
<1> QED
  BY <1>1, <1>5, OneMoves

\* The newest turn of a thread is one of its turns.
LEMMA NewestIs ==
  ASSUME NEW l, LogOK(l), NEW i \in ThreadIds, NEW t, NEW m, Adds(l, i, t, m)
  PROVE  t \in ToSet(m[i]) /\ Last(m[i]) = t
<1>1. PICK turns \in Seq(Turn) : turns = m[i]
  BY Grow DEF LogOK
<1>2. Len(turns) = Len(l[i]) + 1 /\ turns[Len(l[i]) + 1] = t /\ DOMAIN turns = 1..Len(turns)
      /\ Len(turns) \in Nat /\ Len(l[i]) \in Nat
  BY <1>1, Grow, NextSeqIs, LenProperties
<1> QED
  BY <1>1, <1>2 DEF ToSet, Last

LEMMA RepliesNames ==
  ASSUME ChatInv, NEW r \in Requests, ModelReplies(r)
  PROVE  \A o \in Requests : OneOf(o)
<1>1. LogOK(log) /\ req[r].thread \in ThreadIds
  BY ModelRepliesDoes DEF ChatInv
<1>2. PICK reply \in Replies : \E t, s2 :
        /\ Adds(log, req[r].thread, t, log') /\ Moves(r, s2) /\ s2.seq = t.seq
        /\ \/ s2.calls = req[r].calls /\ s2.ending = req[r].ending
           \/ Finishes(s2, req[r])
  BY ModelRepliesDoes
<1>3. PICK t, s2 :
        /\ Adds(log, req[r].thread, t, log') /\ Moves(r, s2) /\ s2.seq = t.seq
        /\ \/ s2.calls = req[r].calls /\ s2.ending = req[r].ending
           \/ Finishes(s2, req[r])
  BY <1>2
<1>4. req'[r] = s2
  BY <1>3, MovesOK DEF ChatInv
<1>5. CASE s2.calls = req[r].calls /\ s2.ending = req[r].ending
  BY <1>3, <1>4, <1>5, OneMoves DEF OneOf, Quiet
<1>6. CASE Finishes(s2, req[r])
  <2>1. PICK i \in ThreadIds : i = req[r].thread
    BY <1>1
  <2>2. t \in ToSet(log'[i]) /\ Last(log'[i]) = t
    BY <1>1, <1>3, <2>1, NewestIs
  <2>3. OneOf(r)
    BY <1>3, <1>4, <1>6, <2>1, <2>2 DEF Finishes, OneOf, Names, Answers
  <2> QED
    BY <1>3, <2>3, OneMoves
<1> QED
  BY <1>3, <1>5, <1>6

LEMMA RecordedNewest ==
  ASSUME ChatInv, NEW r \in Requests, req[r].pc = "reporting",
         NEW n, n \in 1..Len(req[r].out),
         log' = [log EXCEPT ![req[r].thread] = Recorded(req[r], n, @)]
  PROVE  \E t \in ToSet(log'[req[r].thread]) :
           /\ t = Last(log'[req[r].thread])
           /\ t.kind \in {"tool_result", "flow_event"} /\ FirstId(t)[1] = req[r].seq
<1>1. LogOK(log) /\ req[r].thread \in ThreadIds
  BY DEF ChatInv, ReqOK, Shaped
<1>2. PICK i \in ThreadIds : i = req[r].thread
  BY <1>1
<1>3. PICK t, m : /\ Adds(log, i, t, m) /\ Results(t, req[r], n)
                  /\ \/ log' = m
                     \/ \E u : /\ Adds(m, i, u, log') /\ Notes(u, "ticket")
                               /\ FirstId(u) = <<req[r].seq, n>>
  BY <1>2, RecordedIs
<1>4. LogOK(m) /\ t \in ToSet(m[i]) /\ Last(m[i]) = t
  BY <1>1, <1>3, Grow, NewestIs
<1>5. CASE log' = m
  <2>1. t.kind = "tool_result" /\ FirstId(t) = <<req[r].seq, n>>
    BY <1>3 DEF Results
  <2>2. FirstId(t)[1] = req[r].seq
    BY <2>1
  <2>3. t \in ToSet(log'[i]) /\ t = Last(log'[i])
    BY <1>4, <1>5
  <2> QED
    BY <1>2, <2>1, <2>2, <2>3
<1>6. ASSUME NEW u, Adds(m, i, u, log'), Notes(u, "ticket"), FirstId(u) = <<req[r].seq, n>>
      PROVE  u \in ToSet(log'[i]) /\ Last(log'[i]) = u /\ u.kind = "flow_event"
             /\ FirstId(u)[1] = req[r].seq
  <2>1. u \in ToSet(log'[i]) /\ Last(log'[i]) = u
    <3>1. LogOK(m) /\ i \in ThreadIds /\ Adds(m, i, u, log')
      BY <1>4, <1>6
    <3> QED
      BY ONLY <3>1, NewestIs
  <2>2. u.kind = "flow_event"
    BY <1>6 DEF Notes
  <2> QED
    BY <1>6, <2>1, <2>2
<1> QED
  BY <1>2, <1>3, <1>5, <1>6

LEMMA ReportNames ==
  ASSUME ChatInv, NEW r \in Requests, Report(r)
  PROVE  \A o \in Requests : OneOf(o)
<1>1. PICK n : /\ req[r].pc = "reporting" /\ n \in 1..Len(req[r].out)
               /\ log' = [log EXCEPT ![req[r].thread] = Recorded(req[r], n, @)]
  BY ReportDoes
<1>2. PICK s2 :
        /\ Moves(r, s2)
        /\ \/ s2.calls = req[r].calls /\ s2.ending = req[r].ending
           \/ Finishes(s2, req[r]) /\ s2.seq = req[r].seq
           \/ s2.calls = 0 /\ s2.ending = "AUTH_EXPIRED"
           \/ s2.pc = "asking" /\ s2.ending = req[r].ending /\ ~ Expired(req[r])
  BY ReportDoes DEF Asks
<1>3. req'[r] = s2
  BY <1>2, MovesOK DEF ChatInv
<1>4. CASE Finishes(s2, req[r]) /\ s2.seq = req[r].seq
  <2>1. PICK t \in ToSet(log'[req[r].thread]) :
          /\ t = Last(log'[req[r].thread])
          /\ t.kind \in {"tool_result", "flow_event"} /\ FirstId(t)[1] = req[r].seq
    BY <1>1, RecordedNewest
  <2>2. OneOf(r)
    BY <1>3, <1>4, <2>1 DEF Finishes, OneOf, Names, Answers, FirstId
  <2> QED
    BY <1>2, <2>2, OneMoves
<1>5. CASE ~ (Finishes(s2, req[r]) /\ s2.seq = req[r].seq)
  <2>1. OneOf(r)
    BY <1>2, <1>3, <1>5 DEF OneOf, Quiet, Speaks
  <2> QED
    BY <1>2, <2>1, OneMoves
<1> QED
  BY <1>4, <1>5

LEMMA EachIsOneOf == ChatInv /\ [Next]_vars => \A o \in Requests : OneOf(o)
<1> DEFINE Goal == \A o \in Requests : OneOf(o)
<1> SUFFICES ASSUME ChatInv, [Next]_vars PROVE Goal
  OBVIOUS
<1>0. \A r \in Requests : req[r] \in Locals
  BY DEF ChatInv, ReqOK
<1>1. ASSUME NEW r \in Requests, NEW s2, Moves(r, s2), s2.calls \in {0, req[r].calls},
             s2.ending \in {"none", req[r].ending}
      PROVE  Goal
  <2>1. req'[r] = s2
    BY <1>1, MovesOK DEF ChatInv
  <2>2. OneOf(r)
    BY <1>1, <2>1 DEF OneOf, Quiet
  <2> QED
    BY <1>1, <2>2, OneMoves
<1>2. ASSUME UNCHANGED req PROVE Goal
  BY <1>2, StillQuiet
<1>3. ASSUME NEW r \in Requests, Arrive(r) PROVE Goal
  <2>1. PICK s \in Locals :
          /\ s.ending = "none"
          /\ \/ Submits(r, s)
             \/ \E s2 : Moves(r, s2) /\ Same(s2, s) /\ s2.calls = 0
    BY <1>3, ArriveDoes
  <2>2. CASE Submits(r, s)
    <3>1. req[r].pc = "new"
      BY <1>3 DEF Arrive
    <3> QED
      BY <2>1, <2>2, <3>1, SubmitsSpeaks
  <2>3. CASE \E s2 : Moves(r, s2) /\ Same(s2, s) /\ s2.calls = 0
    <3>1. PICK s2 : Moves(r, s2) /\ s2.ending = "none" /\ s2.calls = 0
      BY <2>1, <2>3 DEF Same
    <3> QED
      BY <1>1, <3>1
  <2> QED
    BY <2>1, <2>2, <2>3
<1>4. ASSUME NEW r \in Requests, NameArrives(r) PROVE Goal
  <2>1. req[r].pc = "naming" /\ Submits(r, req[r])
    BY <1>4, NameArrivesDoes
  <2> QED
    BY <2>1, SubmitsSpeaks
<1>5. ASSUME NEW r \in Requests, ModelFails(r) PROVE Goal
  BY <1>5, ModelFailsDoes, LeavesQuietly
<1>6. ASSUME NEW r \in Requests, ModelReplies(r) PROVE Goal
  BY <1>6, RepliesNames
<1>7. ASSUME NEW r \in Requests, Dispatch(r) PROVE Goal
  <2>1. PICK s2 : Moves(r, s2) /\ Same(s2, req[r])
    BY <1>7, DispatchDoes
  <2> QED
    BY <1>1, <2>1 DEF Same
<1>8. ASSUME NEW r \in Requests, Report(r) PROVE Goal
  BY <1>8, ReportNames
<1>9. ASSUME NEW r \in Requests, NEW n \in 1..Len(req[r].out), ToolEnds(r, n) PROVE Goal
  <2>1. PICK s2 : Moves(r, s2) /\ Same(s2, req[r])
    BY <1>9, ToolEndsDoes DEF Settles
  <2> QED
    BY <1>1, <2>1 DEF Same
<1>10. ASSUME NEW r \in Requests, HelpEnds(r) PROVE Goal
  <2>1. Leaves(r, "ticket") \/ Leaves(r, "no_ticket")
    BY <1>10, HelpEndsDoes
  <2> QED
    BY <2>1, LeavesQuietly
<1>11. ASSUME NEW r \in Requests, HelpArrives(r) PROVE Goal
  <2>1. PICK s2 : Moves(r, s2) /\ s2.calls = 0 /\ s2.ending = "none"
    BY <1>11, HelpArrivesDoes
  <2> QED
    BY <1>1, <2>1
<1>12. ASSUME NEW r \in Requests, HelpFiles(r) PROVE Goal
  <2>1. PICK s2 : Moves(r, s2) /\ Same(s2, req[r])
    BY <1>12, HelpFilesDoes DEF Settles
  <2> QED
    BY <1>1, <2>1 DEF Same
<1>13. ASSUME NEW r \in Requests, Abort(r) PROVE Goal
  BY <1>13, AbortDoes, LeavesQuietly
<1>14. ASSUME NEW r \in Requests, NEW n \in 1..Len(req[r].out), Files(r, n) PROVE Goal
  <2>1. PICK s2 : Moves(r, s2) /\ Same(s2, req[r])
    BY <1>14, FilesDoes DEF Settles
  <2> QED
    BY <1>1, <2>1 DEF Same
<1>15. ASSUME RecordFlowEvent PROVE Goal
  BY <1>2, <1>15 DEF RecordFlowEvent
<1>16. ASSUME Reset PROVE Goal
  BY <1>2, <1>16 DEF Reset
<1>17. ASSUME Crash PROVE Goal
  <2>1. \A r \in Requests : \/ req'[r] = req[r]
                            \/ req'[r].calls = 0 /\ req'[r].ending = "none"
    BY <1>17, CrashDoes
  <2> QED
    BY <2>1 DEF OneOf, Quiet
<1>18. ASSUME UNCHANGED vars PROVE Goal
  BY <1>2, <1>18 DEF vars
<1> HIDE DEF Goal
<1> QED
  BY <1>3, <1>4, <1>5, <1>6, <1>7, <1>8, <1>9, <1>10, <1>11, <1>12, <1>13, <1>14, <1>15, <1>16,
     <1>17, <1>18 DEF Next, Advance

LEMMA ExpiryStep ==
  ASSUME ChatInv, [Next]_vars, NEW r \in Requests, Calls(r)
  PROVE  ~ Expired(req[r])
<1>1. req[r].calls \in Nat
  BY DEF ChatInv, ReqOK, Locals
<1>2. OneOf(r)
  BY EachIsOneOf
<1> QED
  BY <1>1, <1>2 DEF OneOf, Quiet, Speaks, Names, Calls

\* A round in which a tool reported AUTH_EXPIRED is never followed by a model call of that
\* request: whatever else the round returned, the turn ends there.
THEOREM ExpiryEnds == Spec => ExpiryNeverNarrated
<1>1. ChatInv /\ [Next]_vars => [\A r \in Requests : Calls(r) => ~ Expired(req[r])]_vars
  BY ExpiryStep
<1> QED
  BY <1>1, ChatInvAlways, PTL DEF Spec, ExpiryNeverNarrated

LEMMA DoneStep ==
  ASSUME ChatInv, [Next]_vars, NEW r \in Requests,
         req'[r].ending = "done", req[r].ending # "done"
  PROVE  \E t \in ToSet(log'[req'[r].thread]) : t.seq = req'[r].lastSeq /\ Answers(t, req'[r])
<1>1. OneOf(r)
  BY EachIsOneOf
<1> QED
  BY <1>1 DEF OneOf, Quiet, Speaks, Names

\* The anchor of a `done` event is a turn of the answer it ends, however many requests, widgets
\* and resets share the thread: a rating always lands on the answer it rates.
THEOREM DoneIsItsAnswer == Spec => DoneNamesTheAnswer
<1>1. ChatInv /\ [Next]_vars =>
        [\A r \in Requests : req'[r].ending = "done" /\ req[r].ending # "done" =>
           \E t \in ToSet(log'[req'[r].thread]) :
             t.seq = req'[r].lastSeq /\ Answers(t, req'[r])]_vars
  BY DoneStep
<1> QED
  BY <1>1, ChatInvAlways, PTL DEF Spec, DoneNamesTheAnswer

-----------------------------------------------------------------------------
(* One request at a time: the questions of a thread and their answers. *)

ChatPcs == {"naming", "asking", "starting", "gathering", "reporting"}
Chatting(s) == s.pc \in ChatPcs

\* The questions of its last reply a request has still to answer on its thread.
Pending(s) ==
  IF s.pc \in {"starting", "gathering", "reporting"}
  THEN {<<s.seq, n>> : n \in s.told + 1..Len(s.tools)} ELSE {}

Alone(q) == \A r, o \in Requests : Chatting(q[r]) /\ Chatting(q[o]) => r = o

\* One chat request at a time; what is unanswered on a thread is what that request owes it.
Paired(q, l) ==
  /\ Alone(q)
  /\ \A r \in Requests : Chatting(q[r]) => Pairs(Messages[l[q[r].thread]], Pending(q[r]))
  /\ \A i \in ThreadIds :
       (\A r \in Requests : Chatting(q[r]) => q[r].thread # i) => Pairs(Messages[l[i]], {})
  /\ \A r \in Requests : q[r].pc = "asking" => q[r].accepted

\* The model ends on tool_use whenever it calls tools, and never answers with nothing.
Whole(reply) == (reply.tools # <<>> => reply.stop = "tool_use") /\ (reply.text \/ reply.tools # <<>>)

\* The only chat request moves.
LEMMA PairedMove ==
  ASSUME ChatInv, Paired(req, log), NEW r \in Requests, NEW s, Moves(r, s),
         \A o \in Requests : o # r => ~ Chatting(req[o]),
         NEW i \in ThreadIds, s.thread = i, Chatting(req[r]) => req[r].thread = i,
         \A j \in ThreadIds : j # i => log'[j] = log[j],
         Pairs(Messages[log'[i]], Pending(s)), s.pc = "asking" => s.accepted
  PROVE  Paired(req', log')
<1>1. req'[r] = s /\ \A o \in Requests : o # r => req'[o] = req[o]
  BY MovesOK DEF ChatInv
<1>2. \A o \in Requests : o # r => ~ Chatting(req'[o])
  BY <1>1
<1>3. Alone(req')
  BY <1>2 DEF Alone
<1>4. \A o \in Requests : Chatting(req'[o]) => Pairs(Messages[log'[req'[o].thread]], Pending(req'[o]))
  BY <1>1, <1>2
<1>5. ASSUME NEW j \in ThreadIds, \A o \in Requests : Chatting(req'[o]) => req'[o].thread # j
      PROVE  Pairs(Messages[log'[j]], {})
  <2>1. CASE j = i
    <3>1. ~ Chatting(s)
      BY <1>1, <1>5, <2>1
    <3>2. Pending(s) = {}
      BY <3>1 DEF Pending, Chatting, ChatPcs
    <3> QED
      BY <2>1, <3>2
  <2>2. CASE j # i
    <3>1. \A o \in Requests : Chatting(req[o]) => req[o].thread # j
      BY <2>2
    <3>2. Pairs(Messages[log[j]], {}) /\ log'[j] = log[j]
      BY <2>2, <3>1 DEF Paired
    <3> QED
      BY <3>2
  <2> QED
    BY <2>1, <2>2
<1>6. \A o \in Requests : req'[o].pc = "asking" => req'[o].accepted
  BY <1>1 DEF Paired
<1> QED
  BY <1>3, <1>4, <1>5, <1>6 DEF Paired

\* The threads keep their questions: at most memos are added to them.
Keeps(i) == \A open : Pairs(Messages[log[i]], open) => Pairs(Messages[log'[i]], open)

LEMMA PairedMemo ==
  ASSUME ReqOK(req), Paired(req, log), \A i \in ThreadIds : Keeps(i),
         \A o \in Requests : req'[o] = req[o] \/ (~ Chatting(req[o]) /\ ~ Chatting(req'[o]))
  PROVE  Paired(req', log')
<1>1. \A o \in Requests : Chatting(req'[o]) => Chatting(req[o]) /\ req'[o] = req[o]
  OBVIOUS
<1>2. \A o \in Requests : Chatting(req[o]) => Chatting(req'[o]) /\ req'[o] = req[o]
  OBVIOUS
<1>3. Alone(req')
  BY <1>1 DEF Paired, Alone
<1>4. ASSUME NEW o \in Requests, Chatting(req'[o])
      PROVE  Pairs(Messages[log'[req'[o].thread]], Pending(req'[o]))
  <2>1. Chatting(req[o]) /\ req'[o] = req[o]
    BY <1>1, <1>4
  <2>2. PICK i \in ThreadIds : i = req[o].thread
    BY <2>1 DEF Chatting, ChatPcs, ReqOK, Shaped
  <2>3. Pairs(Messages[log[i]], Pending(req[o]))
    BY <2>1, <2>2 DEF Paired
  <2>4. Pairs(Messages[log'[i]], Pending(req[o]))
    BY <2>3 DEF Keeps
  <2> QED
    BY <2>1, <2>2, <2>4
<1>5. ASSUME NEW i \in ThreadIds, \A o \in Requests : Chatting(req'[o]) => req'[o].thread # i
      PROVE  Pairs(Messages[log'[i]], {})
  <2>1. \A o \in Requests : Chatting(req[o]) => req[o].thread # i
    BY <1>2, <1>5
  <2>2. Pairs(Messages[log[i]], {})
    BY <2>1 DEF Paired
  <2> QED
    BY <2>2 DEF Keeps
<1>6. \A o \in Requests : req'[o].pc = "asking" => req'[o].accepted
  <2>1. \A o \in Requests : req'[o].pc = "asking" => Chatting(req'[o])
    BY DEF Chatting, ChatPcs
  <2> QED
    BY <1>1, <2>1 DEF Paired
<1> QED
  BY <1>3, <1>4, <1>5, <1>6 DEF Paired

LEMMA MemoKeeps ==
  ASSUME LogOK(log), NEW i \in ThreadIds, NEW t, Adds(log, i, t, log'), Tells(t, {})
  PROVE  \A j \in ThreadIds : Keeps(j)
<1> SUFFICES ASSUME NEW j \in ThreadIds, NEW open, Pairs(Messages[log[j]], open)
             PROVE  Pairs(Messages[log'[j]], open)
  BY DEF Keeps
<1>1. CASE j # i
  <2>1. log'[j] = log[j]
    BY <1>1, Grow
  <2> QED
    BY <2>1
<1>2. CASE j = i
  <2>1. PICK ms \in Seq(Message) : ms = Messages[log[i]] /\ Messages[log'[i]] = Extend(t)[ms]
    BY GrowMessages
  <2>2. t \in Turn
    BY DEF Adds
  <2>3. Role(t) = "user" /\ t.content # <<>> /\ LeadsWithResults(t.content)
        /\ Ids(t.content, "tool_use") = {} /\ Ids(t.content, "tool_result") = {}
    BY DEF Tells
  <2>4. Pairs(ms, open) /\ {} \subseteq open
    BY <1>2, <2>1
  <2>5. Pairs(Extend(t)[ms], open \ Ids(t.content, "tool_result"))
    BY <2>2, <2>3, <2>4, PairsUser
  <2>6. open \ Ids(t.content, "tool_result") = open
    BY <2>3
  <2> QED
    BY <1>2, <2>1, <2>5, <2>6
<1> QED
  BY <1>1, <1>2

LEMMA StillKeeps ==
  ASSUME UNCHANGED log
  PROVE  \A j \in ThreadIds : Keeps(j)
  BY DEF Keeps

\* What the API says of a thread that is owed nothing.
LEMMA AcceptedWhenPaired ==
  ASSUME NEW l, LogOK(l), NEW i \in ThreadIds, Pairs(Messages[l[i]], {}),
         NEW a, a = WireValid[History(l[i])]
  PROVE  a
<1>1. PICK turns \in Seq(Turn) : turns = l[i]
  BY DEF LogOK
<1>2. \A k \in DOMAIN turns : turns[k].seq = k /\ Fresh(turns[k])
  BY <1>1 DEF LogOK
<1> QED
  BY <1>1, <1>2, HistoryValid DEF History

\* A user's text on a thread that is owed nothing, and the call that follows it.
LEMMA PairedSubmit ==
  ASSUME ChatInv, Paired(req, log), NEW r \in Requests, NEW s, Submits(r, s),
         NEW i \in ThreadIds, s.thread = i,
         \A o \in Requests : o # r => ~ Chatting(req[o]),
         Chatting(req[r]) => req[r].thread = i /\ req[r].pc = "naming"
  PROVE  Paired(req', log')
<1>1. PICK t, s2 : /\ Adds(log, i, t, log') /\ Tells(t, {}) /\ Moves(r, s2)
                   /\ s2.pc = "asking" /\ s2.thread = i
                   /\ s2.accepted = WireValid[History(log'[i])]
  BY DEF Submits, Asks
<1>2. Pairs(Messages[log[i]], {})
  <2>1. CASE Chatting(req[r])
    <3>1. Pending(req[r]) = {}
      BY <2>1 DEF Pending
    <3> QED
      BY <2>1, <3>1 DEF Paired
  <2>2. CASE ~ Chatting(req[r])
    BY <2>2 DEF Paired
  <2> QED
    BY <2>1, <2>2
<1>3. LogOK(log) /\ LogOK(log') /\ \A j \in ThreadIds : j # i => log'[j] = log[j]
  BY <1>1, Grow DEF ChatInv
<1>4. Pairs(Messages[log'[i]], {})
  <2>1. Keeps(i)
    BY <1>1, <1>3, MemoKeeps
  <2> QED
    BY <1>2, <2>1 DEF Keeps
<1>5. s2.accepted
  BY <1>1, <1>3, <1>4, AcceptedWhenPaired
<1>6. Pending(s2) = {}
  BY <1>1 DEF Pending
<1>7. Pairs(Messages[log'[i]], Pending(s2))
  BY <1>4, <1>6
<1> QED
  BY <1>1, <1>3, <1>5, <1>7, PairedMove

LEMMA PairedReplies ==
  ASSUME ChatInv, Paired(req, log), \A reply \in Replies : Whole(reply),
         NEW r \in Requests, ModelReplies(r)
  PROVE  Paired(req', log')
<1>1. PICK i \in ThreadIds : i = req[r].thread /\ req[r].pc = "asking" /\ LogOK(log)
  BY ModelRepliesDoes DEF ChatInv
<1>2. PICK reply \in Replies : \E t, s2 :
        /\ Adds(log, i, t, log') /\ Says(t, reply) /\ Moves(r, s2) /\ s2.seq = t.seq
        /\ s2.thread = i
        /\ \/ RunsTools(reply) /\ s2.pc = "starting" /\ s2.tools = reply.tools
           \/ ~ RunsTools(reply) /\ s2.pc = "over"
  BY <1>1, ModelRepliesDoes DEF Finishes
<1>3. PICK t, s2 :
        /\ Adds(log, i, t, log') /\ Says(t, reply) /\ Moves(r, s2) /\ s2.seq = t.seq
        /\ s2.thread = i
        /\ \/ RunsTools(reply) /\ s2.pc = "starting" /\ s2.tools = reply.tools
           \/ ~ RunsTools(reply) /\ s2.pc = "over"
  BY <1>2
<1>4. Chatting(req[r]) /\ Pending(req[r]) = {}
  BY <1>1 DEF Chatting, ChatPcs, Pending
<1>5. \A o \in Requests : o # r => ~ Chatting(req[o])
  BY <1>4 DEF Paired, Alone
<1>6. PICK ms \in Seq(Message) : ms = Messages[log[i]] /\ Messages[log'[i]] = Extend(t)[ms]
  BY <1>1, <1>3, GrowMessages
<1>7. Pairs(ms, {})
  BY <1>1, <1>4, <1>6 DEF Paired
<1>8. t \in Turn /\ Role(t) = "assistant" /\ t.content # <<>> /\ LeadsWithResults(t.content)
      /\ Ids(t.content, "tool_result") = {}
      /\ Ids(t.content, "tool_use") = {<<t.seq, n>> : n \in 1..Len(reply.tools)}
  <2>1. t \in Turn
    BY <1>3 DEF Adds
  <2>2. t.content # <<>>
    BY <1>3 DEF Says, Whole
  <2> QED
    BY <1>3, <2>1, <2>2 DEF Says
<1>9. Pairs(Messages[log'[i]], Ids(t.content, "tool_use"))
  BY <1>6, <1>7, <1>8, PairsReply
<1>10. Pending(s2) = Ids(t.content, "tool_use")
  <2>1. CASE RunsTools(reply) /\ s2.pc = "starting" /\ s2.tools = reply.tools
    <3>1. s2.told = 0
      BY <1>3, <2>1 DEF Moves, Shaped
    <3>2. Pending(s2) = {<<t.seq, n>> : n \in 1..Len(reply.tools)}
      BY <1>3, <2>1, <3>1 DEF Pending
    <3> QED
      BY <1>8, <3>2
  <2>2. CASE ~ RunsTools(reply) /\ s2.pc = "over"
    <3>1. reply.tools = <<>>
      BY <2>2 DEF RunsTools, Whole
    <3>2. Len(reply.tools) = 0
      BY <3>1, EmptySeq
    <3>3. {<<t.seq, n>> : n \in 1..Len(reply.tools)} = {}
      BY <3>2
    <3>4. Pending(s2) = {}
      BY <2>2 DEF Pending
    <3> QED
      BY <1>8, <3>3, <3>4
  <2> QED
    BY <1>3, <2>1, <2>2
<1>11. \A j \in ThreadIds : j # i => log'[j] = log[j]
  BY <1>1, <1>3, Grow
<1>12. Pairs(Messages[log'[i]], Pending(s2)) /\ s2.pc # "asking"
  BY <1>3, <1>9, <1>10
<1> QED
  BY <1>1, <1>3, <1>5, <1>11, <1>12, PairedMove

\* The rest of the gather: nothing is written to the thread.
LEMMA PairedGathers ==
  ASSUME ChatInv, Paired(req, log), NEW r \in Requests, NEW s2, Moves(r, s2), Same(s2, req[r]),
         req[r].pc \in {"starting", "gathering"}, s2.pc \in {"gathering", "reporting"},
         UNCHANGED log
  PROVE  Paired(req', log')
<1>1. PICK i \in ThreadIds : i = req[r].thread
  BY DEF ChatInv, ReqOK, Shaped
<1>2. Chatting(req[r]) /\ Pending(s2) = Pending(req[r]) /\ s2.thread = i
  BY <1>1 DEF Chatting, ChatPcs, Pending, Same
<1>3. Pairs(Messages[log'[i]], Pending(s2))
  BY <1>1, <1>2 DEF Paired
<1>4. \A o \in Requests : o # r => ~ Chatting(req[o])
  BY <1>2 DEF Paired, Alone
<1>5. \A j \in ThreadIds : j # i => log'[j] = log[j]
  BY SMTT(60)
<1> QED
  BY <1>1, <1>2, <1>3, <1>4, <1>5, PairedMove

\* A recorded result answers one of the questions the thread is owed.
LEMMA RecordedPairs ==
  ASSUME ChatInv, NEW r \in Requests, req[r].pc = "reporting",
         NEW n, n \in 1..Len(req[r].out), n = req[r].told + 1,
         log' = [log EXCEPT ![req[r].thread] = Recorded(req[r], n, @)],
         Pairs(Messages[log[req[r].thread]], Pending(req[r]))
  PROVE  /\ Pairs(Messages[log'[req[r].thread]],
                  {<<req[r].seq, k>> : k \in n + 1..Len(req[r].tools)})
         /\ LogOK(log') /\ \A j \in ThreadIds : j # req[r].thread => log'[j] = log[j]
<1>1. PICK i \in ThreadIds : i = req[r].thread /\ LogOK(log)
  BY SMTT(60) DEF ChatInv, ReqOK, Shaped
<1>2. PICK t, m : /\ Adds(log, i, t, m) /\ Results(t, req[r], n)
                  /\ \/ log' = m
                     \/ \E u : Adds(m, i, u, log') /\ Notes(u, "ticket")
  BY <1>1, RecordedIs
<1> DEFINE rest == {<<req[r].seq, k>> : k \in n + 1..Len(req[r].tools)}
<1>3. LogOK(m) /\ \A j \in ThreadIds : j # i => m[j] = log[j]
  BY <1>1, <1>2, Grow
<1>4. PICK ms \in Seq(Message) : ms = Messages[log[i]] /\ Messages[m[i]] = Extend(t)[ms]
  BY <1>1, <1>2, GrowMessages, SMTT(60)
<1>5. t \in Turn /\ Role(t) = "user" /\ t.content # <<>> /\ LeadsWithResults(t.content)
      /\ Ids(t.content, "tool_use") = {} /\ Ids(t.content, "tool_result") = {<<req[r].seq, n>>}
  BY <1>2 DEF Adds, Results, Tells
<1>6. /\ Len(req[r].out) = Len(req[r].tools) /\ Len(req[r].tools) \in Nat /\ n \in Nat
      /\ Pending(req[r]) = {<<req[r].seq, k>> : k \in n..Len(req[r].tools)}
  <2>1. req[r] \in Locals /\ Len(req[r].out) = Len(req[r].tools)
    BY DEF ChatInv, ReqOK, Shaped
  <2>2. Len(req[r].tools) \in Nat
    BY <2>1, LenProperties DEF Locals
  <2> QED
    BY <2>1, <2>2 DEF Pending
<1>7. {<<req[r].seq, n>>} \subseteq Pending(req[r]) /\ Pending(req[r]) \ {<<req[r].seq, n>>} = rest
  <2>1. n \in n..Len(req[r].tools)
    BY <1>6
  <2>2. \A k : k \in n..Len(req[r].tools) <=> k = n \/ k \in n + 1..Len(req[r].tools)
    BY <1>6
  <2>3. n \notin n + 1..Len(req[r].tools)
    BY <1>6
  <2> QED
    BY <1>6, <2>1, <2>2, <2>3, SMTT(60)
<1> HIDE DEF rest
<1>8. Pairs(Messages[m[i]], rest)
  <2>1. Pairs(ms, Pending(req[r]))
    BY <1>1, <1>4
  <2>2. Pairs(Extend(t)[ms], Pending(req[r]) \ Ids(t.content, "tool_result"))
    BY <1>5, <1>7, <2>1, PairsUser
  <2> QED
    BY <1>4, <1>5, <1>7, <2>2
<1>9. CASE log' = m
  BY <1>1, <1>3, <1>8, <1>9 DEF rest
<1>10. ASSUME NEW u, Adds(m, i, u, log'), Notes(u, "ticket")
       PROVE  /\ Pairs(Messages[log'[i]], rest) /\ LogOK(log')
              /\ \A j \in ThreadIds : j # i => log'[j] = log[j]
  <2>1. LogOK(log') /\ \A j \in ThreadIds : j # i => log'[j] = m[j]
    BY ONLY i \in ThreadIds, <1>3, <1>10, Grow
  <2>2. PICK ms2 \in Seq(Message) : ms2 = Messages[m[i]] /\ Messages[log'[i]] = Extend(u)[ms2]
    BY ONLY i \in ThreadIds, <1>3, <1>10, GrowMessages
  <2>3. u \in Turn /\ Role(u) = "user" /\ u.content # <<>> /\ LeadsWithResults(u.content)
        /\ Ids(u.content, "tool_use") = {} /\ Ids(u.content, "tool_result") = {}
    BY <1>10 DEF Adds, Notes, Tells
  <2>4. Pairs(Extend(u)[ms2], rest \ Ids(u.content, "tool_result"))
    BY <1>8, <2>2, <2>3, PairsUser
  <2>5. rest \ Ids(u.content, "tool_result") = rest
    BY <2>3
  <2> QED
    BY <1>3, <2>1, <2>2, <2>4, <2>5
<1> QED
  BY <1>1, <1>2, <1>9, <1>10 DEF rest

LEMMA PairedReport ==
  ASSUME ChatInv, Paired(req, log), NEW r \in Requests, Report(r)
  PROVE  Paired(req', log')
<1>1. PICK n : /\ req[r].pc = "reporting" /\ n = req[r].told + 1 /\ n \in 1..Len(req[r].out)
               /\ log' = [log EXCEPT ![req[r].thread] = Recorded(req[r], n, @)]
               /\ req[r].thread \in ThreadIds
  BY ReportDoes
<1>2. PICK i \in ThreadIds : i = req[r].thread
  BY <1>1
<1>3. Chatting(req[r]) /\ Len(req[r].out) = Len(req[r].tools) /\ Len(req[r].tools) \in Nat
  <2>1. req[r] \in Locals /\ Shaped(req[r])
    BY DEF ChatInv, ReqOK
  <2>2. Len(req[r].tools) \in Nat
    BY <2>1, LenProperties DEF Locals
  <2> QED
    BY <1>1, <2>1, <2>2 DEF Shaped, Chatting, ChatPcs
<1>4. \A o \in Requests : o # r => ~ Chatting(req[o])
  BY <1>3, SMTT(60) DEF Paired, Alone
<1> DEFINE rest == {<<req[r].seq, k>> : k \in n + 1..Len(req[r].tools)}
<1>5. Pairs(Messages[log'[i]], rest) /\ LogOK(log') /\ \A j \in ThreadIds : j # i => log'[j] = log[j]
  <2>1. Pairs(Messages[log[req[r].thread]], Pending(req[r]))
    BY <1>3 DEF Paired
  <2> QED
    BY <1>1, <1>2, <2>1, RecordedPairs
<1>6. PICK s2 :
        /\ Moves(r, s2)
        /\ \/ /\ s2.pc = "reporting" /\ s2.told = n /\ s2.tools = req[r].tools
              /\ s2.thread = i /\ s2.seq = req[r].seq
           \/ /\ n = Len(req[r].out) /\ s2.pc = "over" /\ s2.thread = i
           \/ n = Len(req[r].out) /\ Asks(s2, req[r])
  <2>1. PICK s2 :
          /\ Moves(r, s2)
          /\ \/ /\ s2.pc = "reporting" /\ s2.told = req[r].told + 1 /\ s2.tools = req[r].tools
                /\ s2.thread = req[r].thread /\ s2.seq = req[r].seq
             \/ /\ req[r].told + 1 = Len(req[r].out) /\ Finishes(s2, req[r])
             \/ /\ req[r].told + 1 = Len(req[r].out) /\ s2.pc = "over"
                /\ s2.thread = req[r].thread
             \/ req[r].told + 1 = Len(req[r].out) /\ Asks(s2, req[r])
    BY ReportDoes
  <2>2. Finishes(s2, req[r]) => s2.pc = "over" /\ s2.thread = req[r].thread
    BY DEF Finishes
  <2> QED
    BY <1>1, <1>2, <2>1, <2>2
<1>7. CASE /\ s2.pc = "reporting" /\ s2.told = n /\ s2.tools = req[r].tools
           /\ s2.thread = i /\ s2.seq = req[r].seq
  <2>1. Pending(s2) = rest
    BY <1>7 DEF Pending
  <2>2. Pairs(Messages[log'[i]], Pending(s2)) /\ s2.pc # "asking"
    BY <1>5, <1>7, <2>1
  <2> QED
    BY <1>2, <1>4, <1>5, <1>6, <1>7, <2>2, PairedMove
<1>8. ASSUME n = Len(req[r].out) PROVE rest = {}
  BY <1>3, <1>8
<1>9. CASE n = Len(req[r].out) /\ s2.pc = "over" /\ s2.thread = i
  <2>1. Pending(s2) = {}
    BY <1>9 DEF Pending
  <2>2. Pairs(Messages[log'[i]], Pending(s2)) /\ s2.pc # "asking"
    BY <1>5, <1>8, <1>9, <2>1
  <2> QED
    BY <1>2, <1>4, <1>5, <1>6, <1>9, <2>2, PairedMove
<1>10. CASE n = Len(req[r].out) /\ Asks(s2, req[r])
  <2>1. Pairs(Messages[log'[i]], {})
    BY <1>5, <1>8, <1>10
  <2>2. s2.pc = "asking" /\ s2.thread = i /\ s2.accepted = WireValid[History(log'[i])]
    BY <1>2, <1>10 DEF Asks
  <2>3. s2.accepted
    BY <1>5, <2>1, <2>2, AcceptedWhenPaired
  <2>4. Pending(s2) = {}
    BY <2>2 DEF Pending
  <2>5. Pairs(Messages[log'[i]], Pending(s2))
    BY <2>1, <2>4
  <2> QED
    BY <1>2, <1>4, <1>5, <1>6, <2>2, <2>3, <2>5, PairedMove
<1> QED
  BY <1>6, <1>7, <1>9, <1>10

LEMMA PairedInit == Init => Paired(req, log)
<1> SUFFICES ASSUME Init PROVE Paired(req, log)
  OBVIOUS
<1>1. \A r \in Requests : req[r].pc = "new"
  BY NotArrivedIs DEF Init
<1>2. \A r \in Requests : ~ Chatting(req[r]) /\ req[r].pc # "asking"
  BY <1>1 DEF Chatting, ChatPcs
<1>3. Pairs(<<>>, {})
  <2>1. PICK ms \in Seq(Message) : ms = <<>> /\ Len(ms) = 0
    BY EmptySeq
  <2>2. Pairs(ms, {})
    BY <2>1 DEF Pairs
  <2> QED
    BY <2>1, <2>2
<1>4. \A i \in ThreadIds : Pairs(Messages[log[i]], {})
  BY <1>3, MessagesEmpty DEF Init
<1> QED
  BY <1>2, <1>4 DEF Paired, Alone

\* A chat request that ends or is dropped while its thread is owed nothing.
LEMMA PairedLeaves ==
  ASSUME ChatInv, Paired(req, log), NEW r \in Requests, NEW how, Leaves(r, how),
         Chatting(req[r]), Pending(req[r]) = {}, UNCHANGED log
  PROVE  Paired(req', log')
<1>1. PICK s2 : Moves(r, s2) /\ s2.pc \in {"over", "gone"} /\ s2.thread = req[r].thread
  BY DEF Leaves
<1>2. PICK i \in ThreadIds : i = req[r].thread
  BY DEF ChatInv, ReqOK, Shaped, Chatting, ChatPcs
<1>3. Pending(s2) = {} /\ s2.pc # "asking"
  BY <1>1 DEF Pending
<1>4. Pairs(Messages[log'[i]], Pending(s2))
  BY <1>2, <1>3 DEF Paired
<1>5. \A o \in Requests : o # r => ~ Chatting(req[o])
  BY DEF Paired, Alone
<1>6. \A j \in ThreadIds : j # i => log'[j] = log[j]
  OBVIOUS
<1> QED
  BY <1>1, <1>2, <1>3, <1>4, <1>5, <1>6, PairedMove

\* The ticket route and what it adds are no chat.
LEMMA PairedAside ==
  ASSUME ChatInv, Paired(req, log), NEW r \in Requests, NEW s2, Moves(r, s2),
         ~ Chatting(req[r]), ~ Chatting(s2), \A j \in ThreadIds : Keeps(j)
  PROVE  Paired(req', log')
<1>1. req'[r] = s2 /\ \A o \in Requests : o # r => req'[o] = req[o]
  BY MovesOK DEF ChatInv
<1> QED
  BY <1>1, PairedMemo DEF ChatInv

LEMMA PairedStep ==
  ASSUME Overlap = FALSE, Faults \cap {"abort", "crash"} = {},
         \A reply \in Replies : Whole(reply),
         ChatInv, Paired(req, log), [Next]_vars
  PROVE  Paired(req', log')
<1> DEFINE Goal == Paired(req', log')
<1> SUFFICES Goal
  OBVIOUS
<1>0. LogOK(log) /\ ReqOK(req) /\ current \in ThreadIds 
  BY DEF ChatInv, ReqOK
<1>1. ASSUME NEW r \in Requests, Arrive(r) PROVE Goal
  <2>1. /\ req[r].pc = "new" /\ \A o \in Requests : ~ Served(o)
    BY <1>1, ArriveDoes
  <2>2. \A o \in Requests : ~ Chatting(req[o])
    BY <2>1 DEF Served, Chatting, ChatPcs
  <2>3. PICK s \in Locals :
          /\ s.thread = current
          /\ \/ Submits(r, s)
             \/ \E s2 : Moves(r, s2) /\ s2.pc = "naming" /\ Same(s2, s) /\ UNCHANGED log
    BY <1>1, ArriveDoes
  <2>4. PICK i \in ThreadIds : i = current
    BY <1>0
  <2>5. CASE Submits(r, s)
    BY <2>2, <2>3, <2>4, <2>5, PairedSubmit
  <2>6. CASE \E s2 : Moves(r, s2) /\ s2.pc = "naming" /\ Same(s2, s) /\ UNCHANGED log
    <3>1. PICK s2 : Moves(r, s2) /\ s2.pc = "naming" /\ s2.thread = i /\ UNCHANGED log
      BY <2>3, <2>4, <2>6 DEF Same
    <3>2. Pending(s2) = {} /\ s2.pc # "asking"
      BY <3>1 DEF Pending
    <3>3. Pairs(Messages[log'[i]], Pending(s2))
      BY <2>2, <3>1, <3>2 DEF Paired
    <3>4. \A j \in ThreadIds : j # i => log'[j] = log[j]
      BY <3>1
    <3> QED
      BY <2>2, <2>4, <3>1, <3>2, <3>3, <3>4, PairedMove
  <2> QED
    BY <2>3, <2>5, <2>6
<1>2. ASSUME NEW r \in Requests, NameArrives(r) PROVE Goal
  <2>1. req[r].pc = "naming" /\ Submits(r, req[r]) /\ req[r].thread \in ThreadIds
    BY <1>2, NameArrivesDoes
  <2>2. \A o \in Requests : o # r => ~ Chatting(req[o])
    BY <2>1 DEF Paired, Alone, Chatting, ChatPcs
  <2>3. PICK i \in ThreadIds : i = req[r].thread
    BY <2>1
  <2> QED
    BY <2>1, <2>2, <2>3, PairedSubmit
<1>3. ASSUME NEW r \in Requests, ModelFails(r) PROVE Goal
  <2>1. Leaves(r, "AGENT_UNAVAILABLE") /\ UNCHANGED log /\ req[r].pc = "asking"
    BY <1>3, ModelFailsDoes
  <2>2. Chatting(req[r]) /\ Pending(req[r]) = {}
    BY <2>1 DEF Chatting, ChatPcs, Pending
  <2> QED
    BY <2>1, <2>2, PairedLeaves
<1>4. ASSUME NEW r \in Requests, ModelReplies(r) PROVE Goal
  BY <1>4, PairedReplies
<1>5. ASSUME NEW r \in Requests, Dispatch(r) PROVE Goal
  <2>1. PICK s2 : Moves(r, s2) /\ Same(s2, req[r]) /\ s2.pc = "gathering"
                  /\ req[r].pc = "starting" /\ UNCHANGED log
    BY <1>5, DispatchDoes
  <2> QED
    BY <2>1, PairedGathers
<1>6. ASSUME NEW r \in Requests, Report(r) PROVE Goal
  BY <1>6, PairedReport
<1>7. ASSUME NEW r \in Requests, NEW n \in 1..Len(req[r].out), ToolEnds(r, n) PROVE Goal
  <2>1. PICK s2 : Moves(r, s2) /\ Same(s2, req[r]) /\ s2.pc \in {"gathering", "reporting"}
                  /\ req[r].pc = "gathering" /\ UNCHANGED log
    BY <1>7, ToolEndsDoes DEF Settles
  <2> QED
    BY <2>1, PairedGathers
<1>8. ASSUME NEW r \in Requests, HelpEnds(r) PROVE Goal
  <2>1. PICK i \in ThreadIds : i = req[r].thread /\ req[r].pc = "filing"
    BY <1>8, HelpEndsDoes
  <2>2. \A j \in ThreadIds : Keeps(j)
    <3>1. CASE \E t : Adds(log, req[r].thread, t, log') /\ Notes(t, "ticket")
      <4>1. PICK t : Adds(log, i, t, log') /\ Tells(t, {})
        BY <2>1, <3>1 DEF Notes
      <4> QED
        BY <1>0, <4>1, MemoKeeps
    <3>2. CASE UNCHANGED log
      BY <3>2, StillKeeps
    <3> QED
      BY <1>8, <3>1, <3>2, HelpEndsDoes
  <2>3. Leaves(r, "ticket") \/ Leaves(r, "no_ticket")
    BY <1>8, HelpEndsDoes
  <2>4. PICK s2 : Moves(r, s2) /\ s2.pc \in {"over", "gone"}
    BY <2>3 DEF Leaves
  <2>5. ~ Chatting(req[r]) /\ ~ Chatting(s2)
    BY <2>1, <2>4 DEF Chatting, ChatPcs
  <2> QED
    BY <2>2, <2>4, <2>5, PairedAside
<1>9. ASSUME NEW r \in Requests, HelpArrives(r) PROVE Goal
  <2>1. PICK s2 : Moves(r, s2) /\ s2.pc = "filing" /\ req[r].pc = "new" /\ UNCHANGED log
    BY <1>9, HelpArrivesDoes
  <2>2. ~ Chatting(req[r]) /\ ~ Chatting(s2)
    BY <2>1 DEF Chatting, ChatPcs
  <2> QED
    BY <2>1, <2>2, StillKeeps, PairedAside
<1>10. ASSUME NEW r \in Requests, HelpFiles(r) PROVE Goal
  <2>1. PICK s2 : Moves(r, s2) /\ s2.pc = "filing" /\ req[r].pc = "filing" /\ UNCHANGED log
    BY <1>10, HelpFilesDoes
  <2>2. ~ Chatting(req[r]) /\ ~ Chatting(s2)
    BY <2>1 DEF Chatting, ChatPcs
  <2> QED
    BY <2>1, <2>2, StillKeeps, PairedAside
<1>11. ASSUME NEW r \in Requests, Abort(r) PROVE Goal
  BY <1>11 DEF Abort
<1>12. ASSUME NEW r \in Requests, NEW n \in 1..Len(req[r].out), Files(r, n) PROVE Goal
  <2>1. PICK s2 : Moves(r, s2) /\ Same(s2, req[r]) /\ s2.pc = "gathering"
                  /\ req[r].pc = "gathering" /\ UNCHANGED log
    BY <1>12, FilesDoes DEF Settles
  <2> QED
    BY <2>1, PairedGathers
<1>13. ASSUME RecordFlowEvent PROVE Goal
  <2>1. PICK t : Adds(log, current, t, log') /\ Notes(t, "none") /\ UNCHANGED req
    BY <1>13, RecordFlowEventDoes
  <2>2. Tells(t, {})
    BY <2>1 DEF Notes
  <2>3. PICK i \in ThreadIds : i = current
    BY <1>0
  <2>4. \A j \in ThreadIds : Keeps(j)
    BY <1>0, <2>1, <2>2, <2>3, MemoKeeps
  <2> QED
    BY <1>0, <2>1, <2>4, PairedMemo
<1>14. ASSUME UNCHANGED <<log, req>> PROVE Goal
  BY <1>0, <1>14, StillKeeps, PairedMemo
<1>15. ASSUME Reset PROVE Goal
  BY <1>14, <1>15 DEF Reset
<1>16. ASSUME Crash PROVE Goal
  BY <1>16 DEF Crash
<1>17. ASSUME UNCHANGED vars PROVE Goal
  BY <1>14, <1>17 DEF vars
<1> HIDE DEF Goal
<1> QED
  BY <1>1, <1>2, <1>3, <1>4, <1>5, <1>6, <1>7, <1>8, <1>9, <1>10, <1>11, <1>12, <1>13, <1>15,
     <1>16, <1>17 DEF Next, Advance

\* The API accepts every model call, whatever widget memos, ticket memos and resets fell
\* between a reply and its results, as long as the server runs one chat request of the session
\* at a time, finishes those it starts, and the model ends on tool_use when it calls tools.
THEOREM EveryCallAccepted ==
  ASSUME Overlap = FALSE, Faults \cap {"abort", "crash"} = {},
         \A reply \in Replies : Whole(reply)
  PROVE  Spec => []AlwaysAccepted
<1>1. ChatInv /\ Paired(req, log) /\ [Next]_vars => (ChatInv /\ Paired(req, log))'
  <2> SUFFICES ASSUME ChatInv, Paired(req, log), [Next]_vars
               PROVE  ChatInv' /\ Paired(req', log')
    BY DEF Paired, Alone
  <2> QED
    BY ChatInvStep, PairedStep
<1>2. Init => ChatInv /\ Paired(req, log)
  BY ChatInvInit, PairedInit
<1>3. ChatInv /\ Paired(req, log) => AlwaysAccepted
  BY DEF Paired, AlwaysAccepted
<1> QED
  BY <1>1, <1>2, <1>3, PTL DEF Spec

-----------------------------------------------------------------------------
(* One request at a time: its own text is the newest of its thread. *)

Answering == {"asking", "starting", "gathering", "reporting"}

\* Nobody spoke on the thread since, and a ticket runs only when that text called for it.
OwnOf(s, l) ==
  /\ s.pc \in Answering => Newest(l[s.thread], s.mine)
  /\ s.pc = "gathering" =>
       \A n \in 1..Len(s.out) : s.tools[n] = "ticket" /\ s.out[n] = "running" =>
         UserInitiated(SubSeq(l[s.thread], 1, s.mine))

Own(q, l) == Alone(q) /\ \A r \in Requests : OwnOf(q[r], l)

\* A thread grows by a turn that is no user text.
LEMMA OwnGrows ==
  ASSUME NEW l, LogOK(l), NEW i \in ThreadIds, NEW t, NEW m, Adds(l, i, t, m),
         t.kind # "user_text", NEW s, s.thread \in ThreadIds, OwnOf(s, l)
  PROVE  OwnOf(s, m)
<1>1. CASE s.thread # i
  <2>1. m[s.thread] = l[s.thread]
    BY <1>1, Grow
  <2> QED
    BY <2>1 DEF OwnOf
<1>2. CASE s.thread = i /\ ~ (s.pc \in Answering)
  BY <1>2 DEF OwnOf, Answering
<1>3. CASE s.thread = i /\ s.pc \in Answering
  <2>1. PICK x \in Seq(Turn), y \in Seq(Turn) : x = l[i] /\ y = m[i]
    BY Grow DEF LogOK
  <2>2. Len(x) \in Nat /\ Len(y) = Len(x) + 1 /\ y[Len(x) + 1] = t
        /\ \A k \in 1..Len(x) : y[k] = x[k]
    <3>1. LogOK(l) /\ Adds(l, i, t, m)
      OBVIOUS
    <3>2. Len(m[i]) = Len(l[i]) + 1 /\ m[i][Len(l[i]) + 1] = t /\ \A k \in 1..Len(l[i]) : m[i][k] = l[i][k]
      BY <3>1, Grow
    <3> QED
      BY <2>1, <3>2, LenProperties
  <2>3. PICK p : p = s.mine
    OBVIOUS
  <2>4. Newest(x, p)
    BY <1>3, <2>1, <2>3 DEF OwnOf
  <2>5. Newest(y, p)
    <3>1. p \in 1..Len(y) /\ IsUserText(y[p])
      BY <2>2, <2>4 DEF Newest
    <3>2. ASSUME NEW k \in p + 1..Len(y) PROVE ~ IsUserText(y[k])
      <4>1. k \in p + 1..Len(x) \/ k = Len(x) + 1
        BY <2>2, <2>4 DEF Newest
      <4>2. CASE k \in p + 1..Len(x)
        <5>1. k \in 1..Len(x)
          BY <2>2, <2>4, <4>2 DEF Newest
        <5> QED
          BY <2>2, <2>4, <4>2, <5>1 DEF Newest
      <4>3. CASE k = Len(x) + 1
        BY <2>2, <4>3 DEF IsUserText
      <4> QED
        BY <4>1, <4>2, <4>3
    <3> QED
      BY <3>1, <3>2 DEF Newest
  <2>6. SubSeq(y, 1, p) = SubSeq(x, 1, p)
    <3>1. p \in 1..Len(x) /\ p \in Int
      BY <2>4, <2>2 DEF Newest
    <3>2. \A k \in 1..p : k \in 1..Len(x) /\ k + 0 = k
      BY <3>1
    <3>3. \A k \in 1..p : y[k] = x[k]
      BY <2>2, <3>2
    <3> QED
      BY <2>2, <3>1, <3>3, SamePrefix
  <2> QED
    BY <1>3, <2>1, <2>3, <2>4, <2>5, <2>6 DEF OwnOf
<1> QED
  BY <1>1, <1>2, <1>3

\* Others are no chat requests: only the mover has a text of its own.
LEMMA OwnMove ==
  ASSUME ReqOK(req), NEW r \in Requests, NEW s, Moves(r, s), OwnOf(s, log'),
         \A o \in Requests : o # r => ~ Chatting(req[o])
  PROVE  Own(req', log')
<1>1. req'[r] = s /\ \A o \in Requests : o # r => req'[o] = req[o]
  BY MovesOK
<1>2. \A o \in Requests : o # r => ~ Chatting(req'[o])
  BY <1>1
<1>3. Alone(req')
  BY <1>2 DEF Alone
<1>4. ASSUME NEW o \in Requests PROVE OwnOf(req'[o], log')
  <2>1. CASE o = r
    BY <1>1, <2>1
  <2>2. CASE o # r
    BY <1>2, <2>2 DEF OwnOf, Chatting, ChatPcs, Answering
  <2> QED
    BY <2>1, <2>2
<1> QED
  BY <1>3, <1>4 DEF Own

\* What happens beside the chat: threads grow by memos, or not at all.
Beside == UNCHANGED log \/ \E i \in ThreadIds : \E t : Adds(log, i, t, log') /\ t.kind = "flow_event"

LEMMA OwnBeside ==
  ASSUME ChatInv, Own(req, log), Beside,
         \A o \in Requests : req'[o] = req[o] \/ (~ Chatting(req[o]) /\ ~ Chatting(req'[o]))
  PROVE  Own(req', log')
<1>1. \A o \in Requests : Chatting(req'[o]) => Chatting(req[o]) /\ req'[o] = req[o]
  OBVIOUS
<1>2. Alone(req')
  BY <1>1 DEF Own, Alone
<1>3. ASSUME NEW o \in Requests PROVE OwnOf(req'[o], log')
  <2>1. CASE ~ Chatting(req'[o])
    BY <2>1 DEF OwnOf, Chatting, ChatPcs, Answering
  <2>2. CASE Chatting(req'[o])
    <3>1. req'[o] = req[o] /\ Chatting(req[o]) /\ OwnOf(req[o], log) /\ LogOK(log)
      BY <1>1, <2>2 DEF Own, ChatInv
    <3>2. PICK s : s = req[o] /\ s.thread \in ThreadIds
      BY <3>1 DEF Chatting, ChatPcs, ChatInv, ReqOK, Shaped
    <3>3. OwnOf(s, log')
      <4>1. CASE UNCHANGED log
        BY <3>1, <3>2, <4>1 DEF OwnOf
      <4>2. ASSUME NEW i \in ThreadIds, NEW t, Adds(log, i, t, log'), t.kind = "flow_event"
            PROVE  OwnOf(s, log')
        BY <3>1, <3>2, <4>2, OwnGrows
      <4> QED
        BY <4>1, <4>2 DEF Beside
    <3> QED
      BY <3>1, <3>2, <3>3
  <2> QED
    BY <2>1, <2>2
<1> QED
  BY <1>2, <1>3 DEF Own

LEMMA OwnSubmit ==
  ASSUME ChatInv, NEW r \in Requests, NEW s, s.thread \in ThreadIds, Submits(r, s),
         \A o \in Requests : o # r => ~ Chatting(req[o])
  PROVE  Own(req', log')
<1>1. PICK i \in ThreadIds : i = s.thread
  OBVIOUS
<1>2. PICK t, s2 : /\ Adds(log, i, t, log') /\ t.kind = "user_text" /\ Moves(r, s2)
                   /\ s2.pc = "asking" /\ s2.thread = i /\ s2.mine = t.seq
  BY <1>1 DEF Submits, Asks
<1>3. LogOK(log) /\ Len(log[i]) \in Nat /\ t.seq = Len(log[i]) + 1
  BY <1>2, NextSeqIs DEF Adds, ChatInv
<1>4. Len(log'[i]) = Len(log[i]) + 1 /\ log'[i][Len(log[i]) + 1] = t
  BY <1>2, <1>3, Grow
<1>5. Newest(log'[i], s2.mine)
  BY <1>2, <1>3, <1>4 DEF Newest, IsUserText
<1>6. OwnOf(s2, log')
  BY <1>2, <1>5 DEF OwnOf
<1> QED
  BY <1>2, <1>6, OwnMove DEF ChatInv

LEMMA OwnInit == Init => Own(req, log)
<1> SUFFICES ASSUME Init PROVE Own(req, log)
  OBVIOUS
<1>1. \A r \in Requests : req[r].pc = "new"
  BY NotArrivedIs DEF Init
<1> QED
  BY <1>1 DEF Own, Alone, OwnOf, Chatting, ChatPcs, Answering

\* The chat request that moves is the only one.
LEMMA TheOnlyOne ==
  ASSUME Own(req, log), NEW r \in Requests, Chatting(req[r])
  PROVE  \A o \in Requests : o # r => ~ Chatting(req[o])
  BY DEF Own, Alone

LEMMA OwnReplies ==
  ASSUME ChatInv, Own(req, log), NEW r \in Requests, ModelReplies(r)
  PROVE  Own(req', log')
<1>1. PICK i \in ThreadIds : i = req[r].thread /\ req[r].pc = "asking" /\ LogOK(log)
  BY ModelRepliesDoes DEF ChatInv
<1>2. PICK reply \in Replies : \E t, s2 :
        /\ Adds(log, i, t, log') /\ Says(t, reply) /\ Moves(r, s2)
        /\ \/ s2.pc = "starting" /\ s2.thread = i /\ s2.mine = req[r].mine
           \/ s2.pc = "over"
  BY <1>1, ModelRepliesDoes DEF Finishes
<1>3. PICK t, s2 :
        /\ Adds(log, i, t, log') /\ Says(t, reply) /\ Moves(r, s2)
        /\ \/ s2.pc = "starting" /\ s2.thread = i /\ s2.mine = req[r].mine
           \/ s2.pc = "over"
  BY <1>2
<1>4. t.kind # "user_text"
  BY <1>3 DEF Says
<1>5. PICK s : s = req[r] /\ s.thread = i /\ s.pc = "asking" /\ OwnOf(s, log)
  BY <1>1 DEF Own
<1>6. OwnOf(s, log')
  BY <1>1, <1>3, <1>4, <1>5, OwnGrows
<1>7. OwnOf(s2, log')
  BY <1>3, <1>5, <1>6 DEF OwnOf, Answering
<1>8. \A o \in Requests : o # r => ~ Chatting(req[o])
  BY <1>1, TheOnlyOne DEF Chatting, ChatPcs
<1> QED
  BY <1>3, <1>7, <1>8, OwnMove DEF ChatInv

LEMMA OwnDispatch ==
  ASSUME ChatInv, Own(req, log), NEW r \in Requests, Dispatch(r)
  PROVE  Own(req', log')
<1>1. PICK s2 : /\ Moves(r, s2) /\ s2.pc = "gathering" /\ Same(s2, req[r])
                /\ \A n \in 1..Len(s2.out) :
                     s2.tools[n] = "ticket" /\ s2.out[n] = "running"
                       => UserInitiated(log[s2.thread])
  BY DispatchDoes
<1>2. req[r].pc = "starting" /\ UNCHANGED log /\ LogOK(log)
  BY DispatchDoes DEF ChatInv
<1>3. PICK i \in ThreadIds : i = req[r].thread
  BY <1>2 DEF ChatInv, ReqOK, Shaped
<1>4. s2.thread = i /\ s2.mine = req[r].mine
  BY <1>1, <1>3 DEF Same
<1>5. PICK turns \in Seq(Turn) : turns = log[i]
  BY <1>2 DEF LogOK
<1>6. PICK p : p = s2.mine /\ Newest(turns, p)
  BY <1>2, <1>3, <1>4, <1>5 DEF Own, OwnOf, Answering
<1>7. UserInitiated(turns) => UserInitiated(SubSeq(turns, 1, p))
  BY <1>6, ConsentIsPrefix
<1>8. OwnOf(s2, log')
  BY <1>1, <1>2, <1>4, <1>5, <1>6, <1>7 DEF OwnOf
<1>9. \A o \in Requests : o # r => ~ Chatting(req[o])
  BY <1>2, TheOnlyOne DEF Chatting, ChatPcs
<1> QED
  BY <1>1, <1>8, <1>9, OwnMove DEF ChatInv

LEMMA OwnSettles ==
  ASSUME ChatInv, Own(req, log), NEW r \in Requests, req[r].pc = "gathering", UNCHANGED log,
         NEW s2, Moves(r, s2), s2.pc \in {"gathering", "reporting"},
         NEW n, NEW how, how # "running", Settles(s2, req[r], n, how)
  PROVE  Own(req', log')
<1>1. OwnOf(req[r], log)
  BY DEF Own
<1>2. s2.thread = req[r].thread /\ s2.mine = req[r].mine /\ s2.tools = req[r].tools
      /\ Len(s2.out) = Len(req[r].out)
      /\ \A k \in 1..Len(s2.out) : s2.out[k] = "running" => req[r].out[k] = "running"
  BY DEF Settles, Same
<1>3. OwnOf(s2, log')
  BY <1>1, <1>2 DEF OwnOf, Answering
<1>4. \A o \in Requests : o # r => ~ Chatting(req[o])
  BY TheOnlyOne DEF Chatting, ChatPcs
<1> QED
  BY <1>3, <1>4, OwnMove DEF ChatInv

LEMMA OwnReport ==
  ASSUME ChatInv, Own(req, log), NEW r \in Requests, Report(r)
  PROVE  Own(req', log')
<1>1. PICK n : /\ req[r].pc = "reporting" /\ n \in 1..Len(req[r].out)
               /\ log' = [log EXCEPT ![req[r].thread] = Recorded(req[r], n, @)]
  BY ReportDoes
<1>2. PICK i \in ThreadIds : i = req[r].thread
  BY <1>1 DEF ChatInv, ReqOK, Shaped
<1>3. PICK t, m : /\ Adds(log, i, t, m) /\ Results(t, req[r], n)
                  /\ \/ log' = m
                     \/ \E u : Adds(m, i, u, log') /\ Notes(u, "ticket")
  BY <1>1, <1>2, RecordedIs
<1>4. LogOK(log) /\ LogOK(m)
  BY <1>2, <1>3, Grow DEF ChatInv
<1>5. PICK s : s = req[r] /\ s.thread = i /\ s.pc = "reporting" /\ OwnOf(s, log)
  BY <1>1, <1>2 DEF Own
<1>6. OwnOf(s, m)
  BY <1>3, <1>4, <1>5, OwnGrows DEF Results
<1>7. OwnOf(s, log')
  <2>1. CASE log' = m
    BY <1>6, <2>1
  <2>2. ASSUME NEW u, Adds(m, i, u, log'), Notes(u, "ticket")
        PROVE  OwnOf(s, log')
    <3>1. u.kind # "user_text" /\ s.thread \in ThreadIds
      BY <1>5, <2>2 DEF Notes
    <3> QED
      BY ONLY i \in ThreadIds, <1>4, <1>6, <2>2, <3>1, OwnGrows
  <2> QED
    BY <1>3, <2>1, <2>2
<1>8. PICK s2 : /\ Moves(r, s2)
                /\ \/ s2.pc \in {"reporting", "asking"} /\ s2.thread = i /\ s2.mine = s.mine
                   \/ s2.pc = "over"
  <2>1. PICK s2 :
          /\ Moves(r, s2)
          /\ \/ /\ s2.pc = "reporting" /\ s2.thread = req[r].thread /\ s2.mine = req[r].mine
             \/ Finishes(s2, req[r])
             \/ s2.pc = "over"
             \/ Asks(s2, req[r]) /\ s2.mine = req[r].mine
    BY ReportDoes
  <2> QED
    BY <1>2, <1>5, <2>1 DEF Finishes, Asks
<1>9. OwnOf(s2, log')
  BY <1>5, <1>7, <1>8 DEF OwnOf, Answering
<1>10. \A o \in Requests : o # r => ~ Chatting(req[o])
  BY <1>1, TheOnlyOne DEF Chatting, ChatPcs
<1> QED
  BY <1>8, <1>9, <1>10, OwnMove DEF ChatInv

LEMMA OwnStep ==
  ASSUME Overlap = FALSE, ChatInv, Own(req, log), [Next]_vars
  PROVE  Own(req', log')
<1> DEFINE Goal == Own(req', log')
<1> SUFFICES Goal
  OBVIOUS
<1>0. LogOK(log) /\ ReqOK(req) /\ current \in ThreadIds
  BY DEF ChatInv
<1>1. ASSUME NEW r \in Requests, Arrive(r) PROVE Goal
  <2>1. \A o \in Requests : ~ Served(o)
    BY <1>1, ArriveDoes
  <2>2. \A o \in Requests : ~ Chatting(req[o])
    BY <2>1 DEF Served, Chatting, ChatPcs
  <2>3. PICK s \in Locals :
          /\ s.thread = current
          /\ Submits(r, s) \/ \E s2 : Moves(r, s2) /\ s2.pc = "naming"
    BY <1>1, ArriveDoes
  <2>4. CASE Submits(r, s)
    BY <1>0, <2>2, <2>3, <2>4, OwnSubmit
  <2>5. ASSUME NEW s2, Moves(r, s2), s2.pc = "naming" PROVE Goal
    <3>1. OwnOf(s2, log')
      BY <2>5 DEF OwnOf, Answering
    <3> QED
      BY <1>0, <2>2, <2>5, <3>1, OwnMove
  <2> QED
    BY <2>3, <2>4, <2>5
<1>2. ASSUME NEW r \in Requests, NameArrives(r) PROVE Goal
  <2>1. req[r].pc = "naming" /\ Submits(r, req[r]) /\ req[r].thread \in ThreadIds
    BY <1>2, NameArrivesDoes
  <2>2. \A o \in Requests : o # r => ~ Chatting(req[o])
    BY <2>1, TheOnlyOne DEF Chatting, ChatPcs
  <2> QED
    BY <2>1, <2>2, OwnSubmit
<1>3. ASSUME NEW r \in Requests, NEW how, Leaves(r, how), Chatting(req[r]) PROVE Goal
  <2>1. PICK s2 : Moves(r, s2) /\ s2.pc \in {"over", "gone"}
    BY <1>3 DEF Leaves
  <2>2. OwnOf(s2, log')
    BY <2>1 DEF OwnOf, Answering
  <2> QED
    BY <1>0, <1>3, <2>1, <2>2, TheOnlyOne, OwnMove
<1>4. ASSUME NEW r \in Requests, ModelFails(r) PROVE Goal
  BY <1>3, <1>4, ModelFailsDoes DEF Chatting, ChatPcs
<1>5. ASSUME NEW r \in Requests, ModelReplies(r) PROVE Goal
  BY <1>5, OwnReplies
<1>6. ASSUME NEW r \in Requests, Dispatch(r) PROVE Goal
  BY <1>6, OwnDispatch
<1>7. ASSUME NEW r \in Requests, Report(r) PROVE Goal
  BY <1>7, OwnReport
<1>8. ASSUME NEW r \in Requests, NEW n \in 1..Len(req[r].out), ToolEnds(r, n) PROVE Goal
  <2>1. req[r].pc = "gathering" /\ UNCHANGED log
    BY <1>8, ToolEndsDoes
  <2>2. PICK s2 : \E how \in OutcomeKinds :
          Moves(r, s2) /\ Settles(s2, req[r], n, how) /\ s2.pc \in {"gathering", "reporting"}
    BY <1>8, ToolEndsDoes
  <2>3. PICK how \in OutcomeKinds :
          Moves(r, s2) /\ Settles(s2, req[r], n, how) /\ s2.pc \in {"gathering", "reporting"}
    BY <2>2
  <2>4. how # "running"
    BY DEF OutcomeKinds
  <2> QED
    BY <2>1, <2>3, <2>4, OwnSettles
<1>9. ASSUME NEW r \in Requests, NEW n \in 1..Len(req[r].out), Files(r, n) PROVE Goal
  <2>1. req[r].pc = "gathering" /\ UNCHANGED log
    BY <1>9, FilesDoes
  <2>2. PICK s2 : Moves(r, s2) /\ s2.pc = "gathering" /\ Settles(s2, req[r], n, "filed")
    BY <1>9, FilesDoes
  <2> QED
    BY <2>1, <2>2, OwnSettles
<1>10. ASSUME NEW r \in Requests, NEW s2, Moves(r, s2), ~ Chatting(req[r]), ~ Chatting(s2), Beside
       PROVE  Goal
  <2>1. req'[r] = s2 /\ \A o \in Requests : o # r => req'[o] = req[o]
    BY <1>0, <1>10, MovesOK
  <2> QED
    BY <1>10, <2>1, OwnBeside
<1>11. ASSUME NEW r \in Requests, HelpEnds(r) PROVE Goal
  <2>1. PICK i \in ThreadIds : i = req[r].thread /\ req[r].pc = "filing"
    BY <1>11, HelpEndsDoes
  <2>2. Beside
    <3>1. UNCHANGED log \/ \E t : Adds(log, i, t, log') /\ Notes(t, "ticket")
      BY <1>11, <2>1, HelpEndsDoes
    <3> QED
      BY <3>1 DEF Beside, Notes
  <2>3. Leaves(r, "ticket") \/ Leaves(r, "no_ticket")
    BY <1>11, HelpEndsDoes
  <2>4. PICK s2 : Moves(r, s2) /\ s2.pc \in {"over", "gone"}
    BY <2>3 DEF Leaves
  <2> QED
    BY <1>10, <2>1, <2>2, <2>4 DEF Chatting, ChatPcs
<1>12. ASSUME NEW r \in Requests, HelpArrives(r) PROVE Goal
  <2>1. PICK s2 : Moves(r, s2) /\ s2.pc = "filing" /\ req[r].pc = "new" /\ UNCHANGED log
    BY <1>12, HelpArrivesDoes
  <2> QED
    BY <1>10, <2>1 DEF Chatting, ChatPcs, Beside
<1>13. ASSUME NEW r \in Requests, HelpFiles(r) PROVE Goal
  <2>1. PICK s2 : Moves(r, s2) /\ s2.pc = "filing" /\ req[r].pc = "filing" /\ UNCHANGED log
    BY <1>13, HelpFilesDoes
  <2> QED
    BY <1>10, <2>1 DEF Chatting, ChatPcs, Beside
<1>14. ASSUME NEW r \in Requests, Abort(r) PROVE Goal
  <2>1. Leaves(r, "none") /\ Served(r) /\ req[r].pc # "filing" /\ req[r] \in Locals
    BY <1>0, <1>14, AbortDoes DEF Abort, ReqOK
  <2>2. Chatting(req[r])
    BY <2>1 DEF Served, Chatting, ChatPcs, Locals, Pcs
  <2> QED
    BY <1>3, <2>1, <2>2
<1>15. ASSUME UNCHANGED req, Beside PROVE Goal
  BY <1>15, OwnBeside
<1>16. ASSUME RecordFlowEvent PROVE Goal
  <2>1. UNCHANGED req /\ \E t : Adds(log, current, t, log') /\ Notes(t, "none")
    BY <1>16, RecordFlowEventDoes
  <2> QED
    BY <1>0, <1>15, <2>1 DEF Beside, Notes
<1>17. ASSUME UNCHANGED <<log, req>> PROVE Goal
  BY <1>15, <1>17 DEF Beside
<1>18. ASSUME Reset PROVE Goal
  BY <1>17, <1>18 DEF Reset
<1>19. ASSUME Crash PROVE Goal
  <2>1. \A o \in Requests : (~ Served(o) /\ req'[o] = req[o]) \/ req'[o].pc = "gone"
    BY <1>19, CrashDoes
  <2>2. \A o \in Requests : ~ Chatting(req'[o])
    BY <2>1 DEF Served, Chatting, ChatPcs
  <2> QED
    BY <2>2 DEF Own, Alone, OwnOf, Chatting, ChatPcs, Answering
<1>20. ASSUME UNCHANGED vars PROVE Goal
  BY <1>17, <1>20 DEF vars
<1> HIDE DEF Goal
<1> QED
  BY <1>1, <1>2, <1>4, <1>5, <1>6, <1>7, <1>8, <1>9, <1>11, <1>12, <1>13, <1>14, <1>16, <1>18,
     <1>19, <1>20 DEF Next, Advance

LEMMA OwnAlways ==
  ASSUME Overlap = FALSE
  PROVE  Spec => [](ChatInv /\ Own(req, log))
<1>1. ChatInv /\ Own(req, log) /\ [Next]_vars => (ChatInv /\ Own(req, log))'
  <2> SUFFICES ASSUME ChatInv, Own(req, log), [Next]_vars
               PROVE  ChatInv' /\ Own(req', log')
    BY DEF Own, Alone, OwnOf
  <2> QED
    BY ChatInvStep, OwnStep, ZenonT(60)
<1>2. Init => ChatInv /\ Own(req, log)
  BY ChatInvInit, OwnInit
<1> QED
  BY <1>1, <1>2, PTL DEF Spec

LEMMA VerbatimStep ==
  ASSUME Overlap = FALSE, ChatInv, Own(req, log), [Next]_vars, NEW r \in Requests, Calls(r),
         NEW t \in ToSet(Curated(log'[req'[r].thread])), t.seq > req'[r].mine
  PROVE  \A k \in DOMAIN t.content : ~ t.content[k].stub
<1>1. req'[r].pc = "asking"
  <2>1. req[r].calls \in Nat
    BY DEF ChatInv, ReqOK, Locals
  <2>2. OneOf(r)
    BY EachIsOneOf
  <2> QED
    BY <2>1, <2>2 DEF OneOf, Quiet, Speaks, Names, Calls
<1>2. LogOK(log') /\ ReqOK(req')
  BY ChatInvStep DEF ChatInv
<1>3. PICK i \in ThreadIds : i = req'[r].thread
  BY <1>1, <1>2 DEF ReqOK, Shaped
<1>4. PICK turns \in Seq(Turn) : turns = log'[i]
  BY <1>2 DEF LogOK
<1>5. Own(req', log')
  BY OwnStep
<1>6. PICK m : m = req'[r].mine /\ Newest(turns, m)
  BY <1>1, <1>3, <1>4, <1>5 DEF Own, OwnOf, Answering
<1>7. \A k \in DOMAIN turns : turns[k].seq = k /\ Fresh(turns[k])
  BY <1>2, <1>4 DEF LogOK
<1>8. t \in ToSet(Curated(turns)) /\ t.seq > m
  BY <1>3, <1>4, <1>6
<1> QED
  BY <1>6, <1>7, <1>8, CuratedFresh

\* While the server runs one chat request of the session at a time, every model call carries
\* the results of the request's own rounds verbatim: curation stubs only what is older than
\* the message being answered.
THEOREM ResultsGoOutVerbatim ==
  ASSUME Overlap = FALSE
  PROVE  Spec => OwnResultsVerbatim
<1>1. ChatInv /\ Own(req, log) /\ [Next]_vars =>
        [\A r \in Requests : Calls(r) =>
           \A t \in ToSet(Curated(log'[req'[r].thread])) :
             t.seq > req'[r].mine => \A k \in DOMAIN t.content : ~ t.content[k].stub]_vars
  BY VerbatimStep
<1> QED
  BY <1>1, OwnAlways, PTL DEF Spec, OwnResultsVerbatim

\* While the server runs one chat request of the session at a time, each ticket the model
\* raises was called for by the very message its request answers.
THEOREM TicketsAreWanted ==
  ASSUME Overlap = FALSE
  PROVE  Spec => TicketsWanted
<1>1. ASSUME ChatInv, Own(req, log), NEW r \in Requests, NEW n \in DOMAIN req[r].out, Files(r, n)
      PROVE  UserInitiated(SubSeq(log[req[r].thread], 1, req[r].mine))
  <2>1. req[r].pc = "gathering" /\ n \in 1..Len(req[r].out) /\ req[r].tools[n] = "ticket"
        /\ req[r].out[n] = "running"
    BY <1>1, FilesDoes
  <2> QED
    BY <1>1, <2>1 DEF Own, OwnOf
<1>2. ChatInv /\ Own(req, log) =>
        [\A r \in Requests : \A n \in DOMAIN req[r].out :
           Files(r, n) => UserInitiated(SubSeq(log[req[r].thread], 1, req[r].mine))]_vars
  BY <1>1
<1> QED
  BY <1>2, OwnAlways, PTL DEF Spec, TicketsWanted

-----------------------------------------------------------------------------
(* Between two model calls of a request its thread only grows, and results come after the *)
(* reply that asked for them.                                                              *)

RepliedSince(turns, n) == \E j \in n + 1..Len(turns) : Role(turns[j]) = "assistant"

\* The call in flight, or the last one, saw the request's own text; a request that has not
\* asked yet made no call.
SinceOf(s, l) ==
  /\ s.pc \in Answering =>
       /\ s.mine <= s.sentLen /\ s.sentLen <= Len(l[s.thread])
       /\ Calm(l[s.thread], s.sentLen)
       /\ s.pc # "asking" => RepliedSince(l[s.thread], s.sentLen)
  /\ s.pc \in {"new", "naming"} => s.calls = 0

Since(q, l) == \A r \in Requests : SinceOf(q[r], l)

LEMMA CalmGrows ==
  ASSUME NEW x \in Seq(Turn), NEW y \in Seq(Turn), NEW n \in Nat, n <= Len(x), Calm(x, n),
         Len(y) = Len(x) + 1, \A k \in 1..Len(x) : y[k] = x[k],
         y[Len(x) + 1].kind = "tool_result" => RepliedSince(x, n)
  PROVE  /\ Calm(y, n)
         /\ RepliedSince(x, n) \/ Role(y[Len(x) + 1]) = "assistant" => RepliedSince(y, n)
<1>1. PICK w \in Nat : w = Len(x)
  BY LenProperties
<1>2. ASSUME NEW k \in n + 1..w + 1, y[k].kind = "tool_result"
      PROVE  \E j \in n + 1..k - 1 : Role(y[j]) = "assistant"
  <2>1. \E j \in n + 1..k - 1 : j <= w /\ Role(x[j]) = "assistant"
    <3>1. CASE k <= w
      <4>1. k \in 1..w /\ x[k].kind = "tool_result"
        BY <1>1, <1>2, <3>1
      <4>2. \E j \in n + 1..k - 1 : Role(x[j]) = "assistant"
        BY <1>1, <1>2, <3>1, <4>1 DEF Calm
      <4> QED
        BY <3>1, <4>2
    <3>2. CASE k = w + 1
      <4>1. RepliedSince(x, n)
        BY <1>1, <1>2, <3>2
      <4>2. PICK j \in n + 1..w : Role(x[j]) = "assistant"
        BY <1>1, <4>1 DEF RepliedSince
      <4>3. j \in n + 1..k - 1 /\ j <= w
        BY <3>2
      <4> QED
        BY <4>2, <4>3
    <3> QED
      BY <3>1, <3>2
  <2>2. PICK j \in n + 1..k - 1 : j <= w /\ Role(x[j]) = "assistant"
    BY <2>1
  <2>3. y[j] = x[j]
    BY <1>1, <2>2
  <2> QED
    BY <2>2, <2>3
<1>3. Calm(y, n)
  BY <1>1, <1>2 DEF Calm
<1>4. ASSUME RepliedSince(x, n)
      PROVE  RepliedSince(y, n)
  <2>1. PICK j \in n + 1..w : Role(x[j]) = "assistant"
    BY <1>1, <1>4 DEF RepliedSince
  <2>2. j \in n + 1..w + 1 /\ y[j] = x[j]
    BY <1>1
  <2> QED
    BY <1>1, <2>1, <2>2 DEF RepliedSince
<1>5. ASSUME Role(y[w + 1]) = "assistant"
      PROVE  RepliedSince(y, n)
  <2>1. w + 1 \in n + 1..w + 1
    BY <1>1
  <2> QED
    BY <1>1, <1>5, <2>1 DEF RepliedSince
<1> QED
  BY <1>1, <1>3, <1>4, <1>5

\* A thread grows by a reply, a memo, or a result of a reply it holds.
LEMMA SinceGrows ==
  ASSUME NEW l, LogOK(l), NEW i \in ThreadIds, NEW t, NEW m, Adds(l, i, t, m),
         NEW s \in Locals, s.thread \in ThreadIds, SinceOf(s, l),
         s.thread = i /\ s.pc = "asking" => t.kind # "tool_result"
  PROVE  /\ SinceOf(s, m)
         /\ s.thread = i /\ s.pc \in Answering /\ Role(t) = "assistant" =>
              RepliedSince(m[i], s.sentLen)
<1>1. CASE s.thread # i
  <2>1. m[s.thread] = l[s.thread]
    BY <1>1, Grow
  <2> QED
    BY <1>1, <2>1 DEF SinceOf
<1>2. CASE s.thread = i /\ ~ (s.pc \in Answering)
  BY <1>2 DEF SinceOf, Answering
<1>3. CASE s.thread = i /\ s.pc \in Answering
  <2>1. PICK x \in Seq(Turn), y \in Seq(Turn) : x = l[i] /\ y = m[i]
    BY Grow, SMTT(60) DEF LogOK
  <2>2. Len(x) \in Nat /\ Len(y) = Len(x) + 1 /\ y[Len(x) + 1] = t
        /\ \A k \in 1..Len(x) : y[k] = x[k]
    <3>1. LogOK(l) /\ Adds(l, i, t, m)
      OBVIOUS
    <3>2. Len(m[i]) = Len(l[i]) + 1 /\ m[i][Len(l[i]) + 1] = t /\ \A k \in 1..Len(l[i]) : m[i][k] = l[i][k]
      BY <3>1, Grow
    <3> QED
      BY <2>1, <3>2, LenProperties
  <2>3. PICK n \in Nat : n = s.sentLen
    BY DEF Locals
  <2>4. s.mine <= n /\ n <= Len(x) /\ Calm(x, n) /\ (s.pc # "asking" => RepliedSince(x, n))
    BY <1>3, <2>1, <2>3 DEF SinceOf
  <2>5. /\ Calm(y, n)
        /\ RepliedSince(x, n) \/ Role(t) = "assistant" => RepliedSince(y, n)
    <3>1. y[Len(x) + 1].kind = "tool_result" => RepliedSince(x, n)
      BY <1>3, <2>2, <2>4
    <3> QED
      BY <2>2, <2>4, <3>1, CalmGrows
  <2>6. n <= Len(y)
    BY <2>2, <2>4
  <2>7. s.pc \in {"new", "naming"} => s.calls = 0
    BY DEF SinceOf
  <2> QED
    BY <1>3, <2>1, <2>3, <2>4, <2>5, <2>6, <2>7 DEF SinceOf
<1> QED
  BY <1>1, <1>2, <1>3

LEMMA SinceMove ==
  ASSUME ReqOK(req), Since(req, log), NEW r \in Requests, NEW s, Moves(r, s), SinceOf(s, log'),
         \A o \in Requests : o # r => ~ Chatting(req[o])
  PROVE  Since(req', log')
<1>1. req'[r] = s /\ \A o \in Requests : o # r => req'[o] = req[o]
  BY MovesOK
<1>2. ASSUME NEW o \in Requests PROVE SinceOf(req'[o], log')
  <2>1. CASE o = r
    BY <1>1, <2>1
  <2>2. CASE o # r
    <3>1. req'[o] = req[o] /\ ~ Chatting(req[o]) /\ SinceOf(req[o], log)
      BY <1>1, <2>2 DEF Since
    <3> QED
      BY <3>1 DEF SinceOf, Chatting, ChatPcs, Answering
  <2> QED
    BY <2>1, <2>2
<1> QED
  BY <1>2 DEF Since

LEMMA SinceBeside ==
  ASSUME ChatInv, Since(req, log), Beside,
         \A o \in Requests : \/ req'[o] = req[o]
                             \/ ~ Chatting(req'[o]) /\ req'[o].pc # "new"
  PROVE  Since(req', log')
<1>1. ASSUME NEW o \in Requests PROVE SinceOf(req'[o], log')
  <2>1. CASE ~ Chatting(req'[o]) /\ req'[o].pc # "new"
    BY <2>1 DEF SinceOf, Chatting, ChatPcs, Answering
  <2>2. CASE req'[o] = req[o] /\ req[o].pc \notin Answering
    <3>1. SinceOf(req[o], log)
      BY DEF Since
    <3> QED
      BY <2>2, <3>1 DEF SinceOf
  <2>3. CASE req'[o] = req[o] /\ req[o].pc \in Answering
    <3>1. SinceOf(req[o], log) /\ LogOK(log)
      BY DEF Since, ChatInv
    <3>2. PICK s \in Locals : s = req[o] /\ s.thread \in ThreadIds
      BY <2>3 DEF Answering, ChatInv, ReqOK, Shaped
    <3>3. SinceOf(s, log')
      <4>1. CASE UNCHANGED log
        BY <3>1, <3>2, <4>1 DEF SinceOf
      <4>2. ASSUME NEW i \in ThreadIds, NEW t, Adds(log, i, t, log'), t.kind = "flow_event"
            PROVE  SinceOf(s, log')
        BY <3>1, <3>2, <4>2, SinceGrows
      <4> QED
        BY <4>1, <4>2 DEF Beside
    <3> QED
      BY <2>3, <3>2, <3>3
  <2> QED
    BY <2>1, <2>2, <2>3
<1> QED
  BY <1>1 DEF Since

\* A call that starts saw the whole thread.
LEMMA SinceAsks ==
  ASSUME LogOK(log'), NEW s2, NEW s, Asks(s2, s), s2.thread \in ThreadIds, OwnOf(s2, log')
  PROVE  SinceOf(s2, log')
<1>1. PICK turns \in Seq(Turn) : turns = log'[s2.thread]
  BY DEF LogOK
<1>2. PICK n \in Nat : n = Len(turns)
  BY LenProperties
<1>3. PICK m : m = s2.mine /\ Newest(turns, m)
  BY <1>1 DEF Asks, OwnOf, Answering
<1>4. s2.pc = "asking" /\ s2.sentLen = n
  BY <1>1, <1>2 DEF Asks
<1>5. m <= n
  BY <1>2, <1>3 DEF Newest
<1>6. Calm(turns, n)
  BY <1>2 DEF Calm
<1> QED
  BY <1>1, <1>2, <1>3, <1>4, <1>5, <1>6 DEF SinceOf

LEMMA SinceSubmit ==
  ASSUME ChatInv, ChatInv', Since(req, log), NEW r \in Requests, NEW s, s.thread \in ThreadIds,
         Submits(r, s), Own(req', log'), \A o \in Requests : o # r => ~ Chatting(req[o])
  PROVE  Since(req', log')
<1>1. PICK s2 : Moves(r, s2) /\ Asks(s2, s)
  BY DEF Submits
<1>2. OwnOf(s2, log') /\ ReqOK(req) /\ LogOK(log')
  <2>1. req'[r] = s2
    BY <1>1, MovesOK DEF ChatInv
  <2> QED
    BY <2>1 DEF Own, ChatInv
<1>3. SinceOf(s2, log')
  <2>1. s2.thread \in ThreadIds
    BY <1>1 DEF Asks
  <2> QED
    BY <1>1, <1>2, <2>1, SinceAsks
<1> QED
  BY <1>1, <1>2, <1>3, SinceMove

LEMMA SinceReplies ==
  ASSUME ChatInv, Own(req, log), Since(req, log), NEW r \in Requests, ModelReplies(r)
  PROVE  Since(req', log')
<1>1. PICK i \in ThreadIds : i = req[r].thread /\ req[r].pc = "asking" /\ LogOK(log)
  BY ModelRepliesDoes DEF ChatInv
<1>2. PICK reply \in Replies : \E t, s2 :
        /\ Adds(log, i, t, log') /\ Says(t, reply) /\ Moves(r, s2)
        /\ \/ /\ s2.pc = "starting" /\ s2.thread = i /\ s2.mine = req[r].mine
              /\ s2.sentLen = req[r].sentLen
           \/ s2.pc = "over"
  BY <1>1, ModelRepliesDoes DEF Finishes
<1>3. PICK t, s2 :
        /\ Adds(log, i, t, log') /\ Says(t, reply) /\ Moves(r, s2)
        /\ \/ /\ s2.pc = "starting" /\ s2.thread = i /\ s2.mine = req[r].mine
              /\ s2.sentLen = req[r].sentLen
           \/ s2.pc = "over"
  BY <1>2
<1>4. t.kind # "tool_result" /\ Role(t) = "assistant"
  BY <1>3 DEF Says
<1>5. PICK s \in Locals : s = req[r] /\ s.thread = i /\ s.pc = "asking" /\ SinceOf(s, log)
  BY <1>1 DEF Since, ChatInv, ReqOK
<1>6. SinceOf(s, log') /\ RepliedSince(log'[i], s.sentLen)
  BY <1>1, <1>3, <1>4, <1>5, SinceGrows DEF Answering
<1>7. SinceOf(s2, log')
  BY <1>3, <1>5, <1>6 DEF SinceOf, Answering
<1>8. \A o \in Requests : o # r => ~ Chatting(req[o])
  BY <1>1, TheOnlyOne DEF Chatting, ChatPcs
<1> QED
  BY <1>3, <1>7, <1>8, SinceMove DEF ChatInv

\* The calls of a round start and end.
LEMMA SinceSettles ==
  ASSUME ChatInv, Own(req, log), Since(req, log), NEW r \in Requests,
         req[r].pc \in {"starting", "gathering"}, UNCHANGED log,
         NEW s2, Moves(r, s2), Same(s2, req[r]), s2.pc \in {"gathering", "reporting"}
  PROVE  Since(req', log')
<1>1. SinceOf(req[r], log)
  BY DEF Since
<1>2. SinceOf(s2, log')
  BY <1>1 DEF SinceOf, Same, Answering
<1>3. \A o \in Requests : o # r => ~ Chatting(req[o])
  BY TheOnlyOne DEF Chatting, ChatPcs
<1> QED
  BY <1>2, <1>3, SinceMove DEF ChatInv

\* A result is recorded, and perhaps the memo of its ticket.
LEMMA SinceRecorded ==
  ASSUME ChatInv, Since(req, log), NEW r \in Requests, Report(r)
  PROVE  SinceOf(req[r], log')
<1>1. PICK n : /\ req[r].pc = "reporting" /\ n \in 1..Len(req[r].out)
               /\ log' = [log EXCEPT ![req[r].thread] = Recorded(req[r], n, @)]
  BY ReportDoes
<1>2. PICK i \in ThreadIds : i = req[r].thread
  BY <1>1 DEF ChatInv, ReqOK, Shaped
<1>3. PICK t, m : /\ Adds(log, i, t, m)
                  /\ \/ log' = m
                     \/ \E u : Adds(m, i, u, log') /\ Notes(u, "ticket")
  BY <1>1, <1>2, RecordedIs
<1>4. LogOK(log) /\ LogOK(m)
  BY <1>2, <1>3, Grow DEF ChatInv
<1>5. PICK s \in Locals : s = req[r] /\ s.thread = i /\ s.pc = "reporting" /\ SinceOf(s, log)
  BY <1>1, <1>2 DEF Since, ChatInv, ReqOK
<1>6. SinceOf(s, m)
  BY <1>3, <1>4, <1>5, SinceGrows
<1>7. CASE log' = m
  BY <1>5, <1>6, <1>7
<1>8. ASSUME NEW u, Adds(m, i, u, log')
      PROVE  SinceOf(s, log')
  <2>1. s.thread \in ThreadIds /\ s.pc # "asking" /\ s \in Locals
    BY <1>5
  <2> QED
    BY ONLY i \in ThreadIds, <1>4, <1>6, <1>8, <2>1, SinceGrows
<1> QED
  BY <1>3, <1>5, <1>7, <1>8

LEMMA SinceReport ==
  ASSUME ChatInv, ChatInv', Own(req, log), Own(req', log'), Since(req, log),
         NEW r \in Requests, Report(r)
  PROVE  Since(req', log')
<1>1. PICK s : s = req[r] /\ s.pc = "reporting" /\ s.thread \in ThreadIds /\ SinceOf(s, log')
  BY ReportDoes, SinceRecorded
<1>2. PICK s2 :
        /\ Moves(r, s2)
        /\ \/ /\ s2.pc = "reporting" /\ s2.thread = s.thread /\ s2.mine = s.mine
              /\ s2.sentLen = s.sentLen
           \/ s2.pc = "over"
           \/ Asks(s2, s)
  BY <1>1, ReportDoes DEF Finishes
<1>3. req'[r] = s2 /\ OwnOf(s2, log') /\ LogOK(log')
  BY <1>2, MovesOK DEF ChatInv, Own
<1>4. SinceOf(s2, log')
  <2>1. CASE Asks(s2, s)
    <3>1. s2.thread \in ThreadIds
      BY <1>1, <2>1 DEF Asks
    <3> QED
      BY <1>3, <2>1, <3>1, SinceAsks
  <2>2. CASE ~ Asks(s2, s)
    BY <1>1, <1>2, <2>2 DEF SinceOf, Answering
  <2> QED
    BY <2>1, <2>2
<1>5. \A o \in Requests : o # r => ~ Chatting(req[o])
  BY <1>1, TheOnlyOne DEF Chatting, ChatPcs
<1> QED
  BY <1>2, <1>4, <1>5, SinceMove DEF ChatInv

LEMMA SinceInit == Init => Since(req, log)
<1> SUFFICES ASSUME Init PROVE Since(req, log)
  OBVIOUS
<1>1. \A r \in Requests : req[r].pc = "new" /\ req[r].calls = 0
  BY NotArrivedIs DEF Init
<1> QED
  BY <1>1 DEF Since, SinceOf, Answering

LEMMA SinceStep ==
  ASSUME Overlap = FALSE, ChatInv, Own(req, log), Since(req, log), [Next]_vars
  PROVE  Since(req', log')
<1> DEFINE Goal == Since(req', log')
<1> SUFFICES Goal
  OBVIOUS
<1>0. ReqOK(req) /\ current \in ThreadIds /\ ChatInv' /\ Own(req', log')
  BY ChatInvStep, OwnStep DEF ChatInv
<1>1. ASSUME NEW r \in Requests, Arrive(r) PROVE Goal
  <2>1. \A o \in Requests : ~ Served(o)
    BY <1>1, ArriveDoes
  <2>2. \A o \in Requests : ~ Chatting(req[o])
    BY <2>1 DEF Served, Chatting, ChatPcs
  <2>3. PICK s \in Locals :
          /\ s.thread = current
          /\ Submits(r, s) \/ \E s2 : Moves(r, s2) /\ s2.pc = "naming" /\ s2.calls = 0
    BY <1>1, ArriveDoes
  <2>4. CASE Submits(r, s)
    BY <1>0, <2>2, <2>3, <2>4, SinceSubmit
  <2>5. ASSUME NEW s2, Moves(r, s2), s2.pc = "naming", s2.calls = 0 PROVE Goal
    <3>1. SinceOf(s2, log')
      BY <2>5 DEF SinceOf, Answering
    <3> QED
      BY <1>0, <2>2, <2>5, <3>1, SinceMove
  <2> QED
    BY <2>3, <2>4, <2>5
<1>2. ASSUME NEW r \in Requests, NameArrives(r) PROVE Goal
  <2>1. req[r].pc = "naming" /\ Submits(r, req[r]) /\ req[r].thread \in ThreadIds
    BY <1>2, NameArrivesDoes
  <2>2. \A o \in Requests : o # r => ~ Chatting(req[o])
    BY <2>1, TheOnlyOne DEF Chatting, ChatPcs
  <2> QED
    BY <1>0, <2>1, <2>2, SinceSubmit
<1>3. ASSUME NEW r \in Requests, NEW s2, Moves(r, s2), ~ Chatting(s2), s2.pc # "new", Beside
      PROVE  Goal
  <2>1. req'[r] = s2 /\ \A o \in Requests : o # r => req'[o] = req[o]
    BY <1>0, <1>3, MovesOK
  <2> QED
    BY <1>3, <2>1, SinceBeside
<1>4. ASSUME NEW r \in Requests, NEW how, Leaves(r, how), Beside PROVE Goal
  <2>1. PICK s2 : Moves(r, s2) /\ s2.pc \in {"over", "gone"}
    BY <1>4 DEF Leaves
  <2> QED
    BY <1>3, <1>4, <2>1 DEF Chatting, ChatPcs
<1>5. ASSUME NEW r \in Requests, ModelFails(r) PROVE Goal
  BY <1>4, <1>5, ModelFailsDoes DEF Beside
<1>6. ASSUME NEW r \in Requests, ModelReplies(r) PROVE Goal
  BY <1>6, SinceReplies
<1>7. ASSUME NEW r \in Requests, Dispatch(r) PROVE Goal
  <2>1. req[r].pc = "starting" /\ UNCHANGED log
    BY <1>7, DispatchDoes
  <2>2. PICK s2 : Moves(r, s2) /\ s2.pc = "gathering" /\ Same(s2, req[r])
    BY <1>7, DispatchDoes
  <2> QED
    BY <2>1, <2>2, SinceSettles
<1>8. ASSUME NEW r \in Requests, Report(r) PROVE Goal
  BY <1>0, <1>8, SinceReport
<1>9. ASSUME NEW r \in Requests, NEW n \in 1..Len(req[r].out), ToolEnds(r, n) PROVE Goal
  <2>1. req[r].pc = "gathering" /\ UNCHANGED log
    BY <1>9, ToolEndsDoes
  <2>2. PICK s2 : Moves(r, s2) /\ Same(s2, req[r]) /\ s2.pc \in {"gathering", "reporting"}
    BY <1>9, ToolEndsDoes DEF Settles
  <2> QED
    BY <2>1, <2>2, SinceSettles
<1>10. ASSUME NEW r \in Requests, NEW n \in 1..Len(req[r].out), Files(r, n) PROVE Goal
  <2>1. req[r].pc = "gathering" /\ UNCHANGED log
    BY <1>10, FilesDoes
  <2>2. PICK s2 : Moves(r, s2) /\ Same(s2, req[r]) /\ s2.pc = "gathering"
    BY <1>10, FilesDoes DEF Settles
  <2> QED
    BY <2>1, <2>2, SinceSettles
<1>11. ASSUME NEW r \in Requests, HelpEnds(r) PROVE Goal
  <2>1. PICK i \in ThreadIds : i = req[r].thread
    BY <1>11, HelpEndsDoes
  <2>2. Beside
    <3>1. UNCHANGED log \/ \E t : Adds(log, i, t, log') /\ Notes(t, "ticket")
      BY <1>11, <2>1, HelpEndsDoes
    <3> QED
      BY <3>1 DEF Beside, Notes
  <2>3. Leaves(r, "ticket") \/ Leaves(r, "no_ticket")
    BY <1>11, HelpEndsDoes
  <2> QED
    BY <1>4, <2>2, <2>3
<1>12. ASSUME NEW r \in Requests, HelpArrives(r) PROVE Goal
  <2>1. PICK s2 : Moves(r, s2) /\ s2.pc = "filing" /\ UNCHANGED log
    BY <1>12, HelpArrivesDoes
  <2> QED
    BY <1>3, <2>1 DEF Chatting, ChatPcs, Beside
<1>13. ASSUME NEW r \in Requests, HelpFiles(r) PROVE Goal
  <2>1. PICK s2 : Moves(r, s2) /\ s2.pc = "filing" /\ UNCHANGED log
    BY <1>13, HelpFilesDoes
  <2> QED
    BY <1>3, <2>1 DEF Chatting, ChatPcs, Beside
<1>14. ASSUME NEW r \in Requests, Abort(r) PROVE Goal
  BY <1>4, <1>14, AbortDoes DEF Beside
<1>15. ASSUME UNCHANGED req, Beside PROVE Goal
  BY <1>15, SinceBeside
<1>16. ASSUME RecordFlowEvent PROVE Goal
  <2>1. UNCHANGED req /\ \E t : Adds(log, current, t, log') /\ Notes(t, "none")
    BY <1>16, RecordFlowEventDoes
  <2> QED
    BY <1>0, <1>15, <2>1 DEF Beside, Notes
<1>17. ASSUME UNCHANGED <<log, req>> PROVE Goal
  BY <1>15, <1>17 DEF Beside
<1>18. ASSUME Reset PROVE Goal
  BY <1>17, <1>18 DEF Reset
<1>19. ASSUME Crash PROVE Goal
  <2>1. \A o \in Requests : (~ Served(o) /\ req'[o] = req[o]) \/ req'[o].pc = "gone"
    BY <1>19, CrashDoes
  <2>2. ASSUME NEW o \in Requests PROVE SinceOf(req'[o], log')
    <3>1. CASE req'[o].pc = "gone"
      BY <3>1 DEF SinceOf, Answering
    <3>2. CASE ~ Served(o) /\ req'[o] = req[o]
      BY <3>2 DEF Served, Since, SinceOf, Answering
    <3> QED
      BY <2>1, <3>1, <3>2
  <2> QED
    BY <2>2 DEF Since
<1>20. ASSUME UNCHANGED vars PROVE Goal
  BY <1>17, <1>20 DEF vars
<1> HIDE DEF Goal
<1> QED
  BY <1>1, <1>2, <1>5, <1>6, <1>7, <1>8, <1>9, <1>10, <1>11, <1>12, <1>13, <1>14, <1>16, <1>18,
     <1>19, <1>20 DEF Next, Advance

LEMMA SinceAlways ==
  ASSUME Overlap = FALSE
  PROVE  Spec => [](ChatInv /\ Own(req, log) /\ Since(req, log))
<1>1. Since(req, log) /\ ChatInv /\ Own(req, log) /\ [Next]_vars => Since(req, log)'
  <2> SUFFICES ASSUME Since(req, log), ChatInv, Own(req, log), [Next]_vars
               PROVE  Since(req', log')
    BY DEF Since, SinceOf
  <2> QED
    BY SinceStep, ZenonT(60)
<1>2. Init => Since(req, log)
  BY SinceInit
<1> QED
  BY <1>1, <1>2, OwnAlways, PTL DEF Spec

LEMMA NewestBefore ==
  ASSUME NEW x \in Seq(Turn), NEW m, Newest(x, m), NEW n \in Nat, m <= n, n <= Len(x)
  PROVE  Newest(SubSeq(x, 1, n), m)
<1>1. PICK y \in Seq(Turn) : /\ y = SubSeq(x, 1, n) /\ Len(y) = n
                             /\ \A k \in 1..n : y[k] = x[k]
  BY PrefixIs
<1>2. Len(x) \in Nat
  BY LenProperties
<1>3. m \in 1..n /\ IsUserText(y[m])
  BY <1>1, <1>2 DEF Newest
<1>4. ASSUME NEW k \in m + 1..n PROVE ~ IsUserText(y[k])
  <2>1. k \in 1..n /\ k \in m + 1..Len(x)
    BY <1>2, <1>3
  <2> QED
    BY <1>1, <2>1 DEF Newest
<1> QED
  BY <1>1, <1>3, <1>4 DEF Newest

\* Only a round that ended leads to a further call.
LEMMA FurtherCalls ==
  ASSUME ChatInv, Since(req, log), [Next]_vars, NEW r \in Requests, Calls(r), req[r].calls > 0
  PROVE  /\ Report(r) /\ req'[r].thread = req[r].thread /\ req'[r].mine = req[r].mine
         /\ req'[r].pc = "asking"
<1>1. req[r].calls \in Nat
  BY DEF ChatInv, ReqOK, Locals
<1>2. Speaks(r)
  <2>1. OneOf(r)
    BY EachIsOneOf
  <2> QED
    BY <1>1, <2>1 DEF OneOf, Quiet, Names, Calls
<1>3. Report(r)
  BY <1>2 DEF Speaks, Since, SinceOf
<1>4. PICK s2 : /\ Moves(r, s2)
                /\ \/ s2.calls = req[r].calls
                   \/ s2.calls = 0
                   \/ Asks(s2, req[r]) /\ s2.mine = req[r].mine
  BY <1>3, ReportDoes DEF Finishes
<1>5. req'[r] = s2
  BY <1>4, MovesOK DEF ChatInv
<1>6. Asks(s2, req[r]) /\ s2.mine = req[r].mine
  BY <1>1, <1>4, <1>5 DEF Calls
<1> QED
  BY <1>3, <1>5, <1>6 DEF Asks

LEMMA PromptStep ==
  ASSUME Overlap = FALSE, ChatInv, Own(req, log), Since(req, log), [Next]_vars,
         NEW r \in Requests, Calls(r), req[r].calls > 0
  PROVE  LET turns == log'[req'[r].thread] IN
         Extends(Bytes[History(turns)], Bytes[History(SubSeq(turns, 1, req[r].sentLen))])
<1>1. PICK s \in Locals : s = req[r]
  BY DEF ChatInv, ReqOK
<1>2. /\ Report(r) /\ req'[r].thread = s.thread /\ req'[r].mine = s.mine /\ req'[r].pc = "asking"
      /\ s.pc = "reporting"
  BY <1>1, FurtherCalls, ReportDoes
<1>3. PICK i \in ThreadIds : i = s.thread
  BY <1>1, <1>2 DEF ChatInv, ReqOK, Shaped
<1>4. LogOK(log') /\ Own(req', log') /\ SinceOf(s, log')
  BY <1>1, <1>2, ChatInvStep, OwnStep, SinceRecorded DEF ChatInv
<1>5. PICK turns \in Seq(Turn) : turns = log'[i]
  BY <1>4 DEF LogOK
<1>6. \A k \in 1..Len(turns) : turns[k].seq = k /\ Single(turns[k])
  <2>1. DOMAIN turns = 1..Len(turns)
    BY LenProperties
  <2> QED
    BY <1>4, <1>5, <2>1 DEF LogOK, Fresh
<1>7. PICK n \in Nat, m \in Nat : n = s.sentLen /\ m = s.mine
  BY DEF Locals
<1>8. m <= n /\ n <= Len(turns) /\ Calm(turns, n)
  BY <1>2, <1>3, <1>4, <1>5, <1>7 DEF SinceOf, Answering
<1>9. Newest(turns, m)
  BY <1>2, <1>3, <1>4, <1>5, <1>7 DEF Own, OwnOf, Answering
<1>10. Newest(SubSeq(turns, 1, n), m)
  BY <1>8, <1>9, NewestBefore
<1>11. PICK calm : calm = Calm(turns, n)
  OBVIOUS
<1>12. PICK old \in Seq(Message), new \in Seq(Message) :
         /\ old = MessagesForModel(SubSeq(turns, 1, n)) /\ new = MessagesForModel(turns)
         /\ Onto(old, new, calm)
  BY <1>6, <1>8, <1>9, <1>10, <1>11, HistoryGrows
<1>13. Begins(Bytes[old], Bytes[new])
  <2>1. calm = TRUE
    BY <1>8, <1>11 DEF Calm
  <2>2. Onto(old, new, TRUE)
    BY <1>12, <2>1
  <2> QED
    BY <2>2, BytesGrow
<1>14. Extends(Bytes[new], Bytes[old])
  <2>1. PICK x \in Seq(Block), y \in Seq(Block) : x = Bytes[old] /\ y = Bytes[new]
    BY BytesIs
  <2>2. SubSeq(y, 1, Len(x)) = x
    BY <1>13, <2>1, BeginsIsPrefix
  <2> QED
    BY <2>1, <2>2 DEF Extends
<1>15. old = History(SubSeq(turns, 1, n)) /\ new = History(turns)
  BY <1>12 DEF History
<1> QED
  BY <1>1, <1>2, <1>3, <1>5, <1>7, <1>14, <1>15

\* While the server runs one chat request of the session at a time, each further model call
\* of a request repeats the bytes of its previous call and adds to them: results, memos and
\* replies come behind what was sent, and curation changes nothing of it before the next
\* user text.
THEOREM PromptCacheGrows ==
  ASSUME Overlap = FALSE
  PROVE  Spec => PromptGrows
<1>1. ChatInv /\ Own(req, log) /\ Since(req, log) /\ [Next]_vars =>
        [\A r \in Requests : Calls(r) /\ req[r].calls > 0 =>
           LET turns == log'[req'[r].thread] IN
           Extends(Bytes[History(turns)], Bytes[History(SubSeq(turns, 1, req[r].sentLen))])]_vars
  BY PromptStep
<1> QED
  BY <1>1, SinceAlways, PTL DEF Spec, PromptGrows

-----------------------------------------------------------------------------
(* Tickets: a thread remembers those that exist for it, but for the ones in hand. *)

TicketPcs == {"gathering", "reporting", "filing"}

\* Calls of a request that have a ticket and not yet its memo.
InHand(s) ==
  IF s.pc \in TicketPcs
  THEN {n \in 1..Len(s.out) : n > s.told /\ s.tools[n] = "ticket" /\ s.out[n] \in {"filed", "ok"}}
  ELSE {}
Owed(q, i) == {x \in Requests \X Nat : q[x[1]].thread = i /\ x[2] \in InHand(q[x[1]])}
Memos(turns) == {k \in DOMAIN turns : IsTicketMemo(turns[k])}

Balanced(q, l, f) ==
  \A i \in ThreadIds :
    IsFiniteSet(Owed(q, i)) /\ f[i] = Cardinality(Memos(l[i])) + Cardinality(Owed(q, i))

LEMMA MemosFinite ==
  ASSUME NEW l, LogOK(l), NEW j \in ThreadIds
  PROVE  IsFiniteSet(Memos(l[j])) /\ Cardinality(Memos(l[j])) \in Nat
<1>1. PICK x \in Seq(Turn) : x = l[j]
  BY DEF LogOK
<1>2. DOMAIN x = 1..Len(x) /\ Len(x) \in Nat
  BY LenProperties
<1>3. IsFiniteSet(1..Len(x))
  BY <1>2, FS_Interval
<1>4. Memos(x) \subseteq 1..Len(x)
  BY <1>2 DEF Memos
<1>5. IsFiniteSet(Memos(x))
  BY <1>3, <1>4, FS_Subset
<1> QED
  BY <1>1, <1>5, FS_CardinalityType

LEMMA MemosGrow ==
  ASSUME NEW l, LogOK(l), NEW i \in ThreadIds, NEW t, NEW m, Adds(l, i, t, m)
  PROVE  /\ \A j \in ThreadIds : Cardinality(Memos(l[j])) \in Nat
         /\ \A j \in ThreadIds : j # i => Cardinality(Memos(m[j])) = Cardinality(Memos(l[j]))
         /\ Cardinality(Memos(m[i])) = Cardinality(Memos(l[i])) + IF IsTicketMemo(t) THEN 1 ELSE 0
<1>1. \A j \in ThreadIds : IsFiniteSet(Memos(l[j]))
  BY MemosFinite
<1>2. PICK x \in Seq(Turn), y \in Seq(Turn) : x = l[i] /\ y = m[i]
  BY Grow DEF LogOK
<1>3. Len(x) \in Nat /\ DOMAIN x = 1..Len(x) /\ DOMAIN y = 1..Len(x) + 1 /\ y[Len(x) + 1] = t
      /\ \A k \in 1..Len(x) : y[k] = x[k]
  <2>1. Len(m[i]) = Len(l[i]) + 1 /\ m[i][Len(l[i]) + 1] = t /\ \A k \in 1..Len(l[i]) : m[i][k] = l[i][k]
    BY Grow
  <2> QED
    BY <1>2, <2>1, LenProperties
<1>4. CASE IsTicketMemo(t)
  <2>1. Memos(y) = Memos(x) \cup {Len(x) + 1} /\ Len(x) + 1 \notin Memos(x)
    BY <1>3, <1>4 DEF Memos
  <2>2. Cardinality(Memos(y)) = Cardinality(Memos(x)) + 1
    <3>1. PICK S, k : S = Memos(x) /\ k = Len(x) + 1
      OBVIOUS
    <3>2. IsFiniteSet(S) /\ k \notin S
      BY <1>1, <1>2, <2>1, <3>1
    <3>3. Cardinality(S \cup {k}) = Cardinality(S) + 1
      BY ONLY <3>2, FS_AddElement, Zenon
    <3> QED
      BY <2>1, <3>1, <3>3
  <2> QED
    BY <1>1, <1>2, <1>4, <2>2, Grow, FS_CardinalityType
<1>5. CASE ~ IsTicketMemo(t)
  <2>1. Memos(y) = Memos(x)
    BY <1>3, <1>5 DEF Memos
  <2>2. Cardinality(Memos(y)) = Cardinality(Memos(x)) /\ Cardinality(Memos(x)) \in Nat
    BY <1>1, <1>2, <2>1, FS_CardinalityType
  <2> QED
    BY <1>1, <1>2, <1>5, <2>2, Grow, FS_CardinalityType
<1> QED
  BY <1>4, <1>5

\* The tickets in hand stay the same, or one joins or leaves them.
LEMMA OwedSame ==
  ASSUME ReqOK(req), NEW r \in Requests, NEW s, Moves(r, s), InHand(s) = InHand(req[r]),
         s.thread = req[r].thread \/ InHand(s) = {}
  PROVE  \A i : Owed(req', i) = Owed(req, i)
<1>1. req'[r] = s /\ \A o \in Requests : o # r => req'[o] = req[o]
  BY MovesOK
<1>2. ASSUME NEW i, NEW x \in Requests \X Nat
      PROVE  (req'[x[1]].thread = i /\ x[2] \in InHand(req'[x[1]]))
               <=> (req[x[1]].thread = i /\ x[2] \in InHand(req[x[1]]))
  <2>1. x[1] \in Requests
    OBVIOUS
  <2>2. CASE x[1] = r
    BY <1>1, <2>2
  <2>3. CASE x[1] # r
    BY <1>1, <2>1, <2>3
  <2> QED
    BY <2>2, <2>3
<1> QED
  BY <1>2 DEF Owed

LEMMA OwedMore ==
  ASSUME ReqOK(req), NEW r \in Requests, NEW s, Moves(r, s), s.thread = req[r].thread,
         NEW n \in Nat, n \notin InHand(req[r]), InHand(s) = InHand(req[r]) \cup {n}
  PROVE  /\ \A i : i # s.thread => Owed(req', i) = Owed(req, i)
         /\ Owed(req', s.thread) = Owed(req, s.thread) \cup {<<r, n>>}
         /\ <<r, n>> \notin Owed(req, s.thread)
<1>1. req'[r] = s /\ \A o \in Requests : o # r => req'[o] = req[o]
  BY MovesOK
<1>2. \A i : \A x \in Requests \X Nat :
        x \in Owed(req, i) <=> req[x[1]].thread = i /\ x[2] \in InHand(req[x[1]])
  BY DEF Owed
<1>3. \A i : \A x \in Requests \X Nat :
        x \in Owed(req', i) <=> req'[x[1]].thread = i /\ x[2] \in InHand(req'[x[1]])
  BY DEF Owed
<1>4. \A i : Owed(req, i) \subseteq Requests \X Nat /\ Owed(req', i) \subseteq Requests \X Nat
  BY DEF Owed
<1>5. <<r, n>> \in Requests \X Nat /\ <<r, n>>[1] = r /\ <<r, n>>[2] = n
  OBVIOUS
<1>6. ASSUME NEW i, NEW x \in Requests \X Nat
      PROVE  x \in Owed(req', i) <=> x \in Owed(req, i) \/ (i = s.thread /\ x = <<r, n>>)
  <2>1. PICK o \in Requests, k \in Nat : x = <<o, k>> /\ x[1] = o /\ x[2] = k
    OBVIOUS
  <2>2. CASE o # r
    <3>1. x # <<r, n>>
      BY <2>1, <2>2
    <3> QED
      BY <1>1, <1>2, <1>3, <2>1, <2>2, <3>1
  <2>3. CASE o = r
    <3>1. x = <<r, n>> <=> k = n
      BY <2>1, <2>3
    <3> QED
      BY <1>1, <1>2, <1>3, <2>1, <2>3, <3>1
  <2> QED
    BY <2>2, <2>3
<1>7. <<r, n>> \notin Owed(req, s.thread)
  BY <1>2, <1>5
<1>8. ASSUME NEW i, i # s.thread PROVE Owed(req', i) = Owed(req, i)
  <2>1. \A x \in Requests \X Nat : x \in Owed(req', i) <=> x \in Owed(req, i)
    BY <1>6, <1>8, Zenon
  <2> QED
    BY <1>4, <2>1, Zenon
<1>9. Owed(req', s.thread) = Owed(req, s.thread) \cup {<<r, n>>}
  BY <1>4, <1>5, <1>6
<1> QED
  BY <1>7, <1>8, <1>9

LEMMA OwedLess ==
  ASSUME ReqOK(req), NEW r \in Requests, NEW s, Moves(r, s), s.thread = req[r].thread,
         NEW n \in Nat, n \in InHand(req[r]), InHand(s) = InHand(req[r]) \ {n}
  PROVE  /\ \A i : i # s.thread => Owed(req', i) = Owed(req, i)
         /\ Owed(req', s.thread) = Owed(req, s.thread) \ {<<r, n>>}
         /\ <<r, n>> \in Owed(req, s.thread)
<1>1. req'[r] = s /\ \A o \in Requests : o # r => req'[o] = req[o]
  BY MovesOK
<1>2. \A i : \A x \in Requests \X Nat :
        x \in Owed(req, i) <=> req[x[1]].thread = i /\ x[2] \in InHand(req[x[1]])
  BY DEF Owed
<1>3. \A i : \A x \in Requests \X Nat :
        x \in Owed(req', i) <=> req'[x[1]].thread = i /\ x[2] \in InHand(req'[x[1]])
  BY DEF Owed
<1>4. \A i : Owed(req, i) \subseteq Requests \X Nat /\ Owed(req', i) \subseteq Requests \X Nat
  BY DEF Owed
<1>5. <<r, n>> \in Requests \X Nat /\ <<r, n>>[1] = r /\ <<r, n>>[2] = n
  OBVIOUS
<1>6. ASSUME NEW i, NEW x \in Requests \X Nat
      PROVE  x \in Owed(req', i) <=> x \in Owed(req, i) /\ ~ (i = s.thread /\ x = <<r, n>>)
  <2>1. PICK o \in Requests, k \in Nat : x = <<o, k>> /\ x[1] = o /\ x[2] = k
    OBVIOUS
  <2>2. CASE o # r
    <3>1. x # <<r, n>>
      BY <2>1, <2>2
    <3> QED
      BY <1>1, <1>2, <1>3, <2>1, <2>2, <3>1
  <2>3. CASE o = r
    <3>1. x = <<r, n>> <=> k = n
      BY <2>1, <2>3
    <3> QED
      BY <1>1, <1>2, <1>3, <2>1, <2>3, <3>1
  <2> QED
    BY <2>2, <2>3
<1>7. <<r, n>> \in Owed(req, s.thread)
  BY <1>2, <1>5
<1>8. ASSUME NEW i, i # s.thread PROVE Owed(req', i) = Owed(req, i)
  <2>1. \A x \in Requests \X Nat : x \in Owed(req', i) <=> x \in Owed(req, i)
    BY <1>6, <1>8, Zenon
  <2> QED
    BY <1>4, <2>1, Zenon
<1>9. Owed(req', s.thread) = Owed(req, s.thread) \ {<<r, n>>}
  BY <1>4, <1>6
<1> QED
  BY <1>7, <1>8, <1>9

LEMMA BalanceSame ==
  ASSUME Balanced(req, log, filed), UNCHANGED filed, \A i \in ThreadIds : Owed(req', i) = Owed(req, i),
         \A i \in ThreadIds : Cardinality(Memos(log'[i])) = Cardinality(Memos(log[i]))
  PROVE  Balanced(req', log', filed')
  BY DEF Balanced

\* A ticket is filed: it exists, and is in hand.
LEMMA BalanceFiled ==
  ASSUME Balanced(req, log, filed), LogOK(log), UNCHANGED log, filed \in [ThreadIds -> Nat],
         NEW j \in ThreadIds, filed' = [filed EXCEPT ![j] = @ + 1],
         NEW x, x \notin Owed(req, j), Owed(req', j) = Owed(req, j) \cup {x},
         \A i : i # j => Owed(req', i) = Owed(req, i)
  PROVE  Balanced(req', log', filed')
<1> SUFFICES ASSUME NEW i \in ThreadIds
             PROVE  /\ IsFiniteSet(Owed(req', i))
                    /\ filed'[i] = Cardinality(Memos(log'[i])) + Cardinality(Owed(req', i))
  BY DEF Balanced
<1>1. IsFiniteSet(Owed(req, i)) /\ filed[i] = Cardinality(Memos(log[i])) + Cardinality(Owed(req, i))
  BY DEF Balanced
<1>2. CASE i # j
  BY <1>1, <1>2
<1>3. CASE i = j
  <2>1. IsFiniteSet(Owed(req', i)) /\ Cardinality(Owed(req', i)) = Cardinality(Owed(req, i)) + 1
    BY <1>1, <1>3, FS_AddElement
  <2>2. Cardinality(Owed(req, i)) \in Nat /\ Cardinality(Memos(log[i])) \in Nat
    BY <1>1, FS_CardinalityType, MemosFinite
  <2>3. filed'[i] = filed[i] + 1
    BY <1>3
  <2> QED
    BY <1>1, <2>1, <2>2, <2>3
<1> QED
  BY <1>2, <1>3

\* A ticket is remembered: it is in hand no more.
LEMMA BalanceTold ==
  ASSUME Balanced(req, log, filed), LogOK(log), UNCHANGED filed, NEW j \in ThreadIds,
         NEW x \in Owed(req, j), Owed(req', j) = Owed(req, j) \ {x},
         \A i : i # j => Owed(req', i) = Owed(req, i),
         \A i \in ThreadIds : i # j => Cardinality(Memos(log'[i])) = Cardinality(Memos(log[i])),
         Cardinality(Memos(log'[j])) = Cardinality(Memos(log[j])) + 1
  PROVE  Balanced(req', log', filed')
<1> SUFFICES ASSUME NEW i \in ThreadIds
             PROVE  /\ IsFiniteSet(Owed(req', i))
                    /\ filed'[i] = Cardinality(Memos(log'[i])) + Cardinality(Owed(req', i))
  BY DEF Balanced
<1>1. IsFiniteSet(Owed(req, i)) /\ filed[i] = Cardinality(Memos(log[i])) + Cardinality(Owed(req, i))
  BY DEF Balanced
<1>2. CASE i # j
  BY <1>1, <1>2
<1>3. CASE i = j
  <2>1. IsFiniteSet(Owed(req', i)) /\ Cardinality(Owed(req', i)) = Cardinality(Owed(req, i)) - 1
    BY <1>1, <1>3, FS_RemoveElement
  <2>2. Cardinality(Owed(req, i)) \in Nat /\ Cardinality(Memos(log[i])) \in Nat
    BY <1>1, FS_CardinalityType, MemosFinite
  <2>3. Cardinality(Memos(log'[i])) = Cardinality(Memos(log[i])) + 1
    BY <1>3
  <2> QED
    BY <1>1, <2>1, <2>2, <2>3
<1> QED
  BY <1>2, <1>3

\* Turns that are no ticket memos leave the count alone.
Unremembered == \A i \in ThreadIds : Cardinality(Memos(log'[i])) = Cardinality(Memos(log[i]))

LEMMA PlainTurn ==
  ASSUME LogOK(log), NEW i \in ThreadIds, NEW t, Adds(log, i, t, log'), ~ IsTicketMemo(t)
  PROVE  Unremembered
<1>1. /\ \A j \in ThreadIds : j # i => Cardinality(Memos(log'[j])) = Cardinality(Memos(log[j]))
      /\ Cardinality(Memos(log'[i])) = Cardinality(Memos(log[i])) + 0
  BY MemosGrow
<1>2. Cardinality(Memos(log[i])) \in Nat
  BY MemosFinite
<1> QED
  BY <1>1, <1>2 DEF Unremembered

\* A request without a ticket in hand, before and after.
LEMMA EmptyHanded ==
  ASSUME ChatInv, Balanced(req, log, filed), UNCHANGED filed, Unremembered,
         NEW r \in Requests, NEW s, Moves(r, s), InHand(req[r]) = {}, InHand(s) = {}
  PROVE  Balanced(req', log', filed')
<1>1. \A i : Owed(req', i) = Owed(req, i)
  BY OwedSame DEF ChatInv
<1> QED
  BY <1>1, BalanceSame DEF Unremembered

LEMMA NothingInHand ==
  ASSUME NEW s, s.pc \notin TicketPcs
  PROVE  InHand(s) = {}
  BY DEF InHand

LEMMA BalancedSubmit ==
  ASSUME ChatInv, Balanced(req, log, filed), UNCHANGED filed, NEW r \in Requests,
         req[r].pc \in {"new", "naming"}, NEW s, s.thread \in ThreadIds, Submits(r, s)
  PROVE  Balanced(req', log', filed')
<1>1. PICK i \in ThreadIds : i = s.thread
  OBVIOUS
<1>2. PICK t, s2 : /\ Adds(log, i, t, log') /\ t.kind = "user_text" /\ Moves(r, s2)
                   /\ s2.pc = "asking"
  BY <1>1 DEF Submits, Asks
<1>3. Unremembered
  BY <1>2, PlainTurn DEF ChatInv, IsTicketMemo
<1>4. InHand(req[r]) = {} /\ InHand(s2) = {}
  BY <1>2 DEF InHand, TicketPcs
<1> QED
  BY <1>2, <1>3, <1>4, EmptyHanded

LEMMA BalancedReplies ==
  ASSUME ChatInv, Balanced(req, log, filed), NEW r \in Requests, ModelReplies(r)
  PROVE  Balanced(req', log', filed')
<1>1. PICK i \in ThreadIds : i = req[r].thread /\ req[r].pc = "asking" /\ UNCHANGED filed
  BY ModelRepliesDoes
<1>2. PICK reply \in Replies : \E t, s2 :
        /\ Adds(log, i, t, log') /\ Says(t, reply) /\ Moves(r, s2)
        /\ s2.pc \in {"starting", "over"}
  BY <1>1, ModelRepliesDoes DEF Finishes
<1>3. PICK t, s2 :
        /\ Adds(log, i, t, log') /\ Says(t, reply) /\ Moves(r, s2)
        /\ s2.pc \in {"starting", "over"}
  BY <1>2
<1>4. ~ IsTicketMemo(t)
  BY <1>3 DEF Says, IsTicketMemo
<1>5. Unremembered
  BY <1>3, <1>4, PlainTurn DEF ChatInv
<1>6. InHand(req[r]) = {} /\ InHand(s2) = {}
  BY <1>1, <1>3 DEF InHand, TicketPcs
<1> QED
  BY <1>1, <1>3, <1>5, <1>6, EmptyHanded

LEMMA BalancedDispatch ==
  ASSUME ChatInv, Balanced(req, log, filed), NEW r \in Requests, Dispatch(r)
  PROVE  Balanced(req', log', filed')
<1>1. req[r].pc = "starting" /\ UNCHANGED <<log, filed>>
  BY DispatchDoes
<1>2. PICK s2 : Moves(r, s2) /\ \A n \in 1..Len(s2.out) : s2.out[n] \in {"running", "refused"}
  BY DispatchDoes
<1>3. InHand(req[r]) = {} /\ InHand(s2) = {}
  BY <1>1, <1>2 DEF InHand, TicketPcs
<1> QED
  BY <1>1, <1>2, <1>3, EmptyHanded DEF Unremembered

\* A call settles: what is in hand follows its state.
LEMMA HandSettles ==
  ASSUME NEW s, NEW s2, NEW n, NEW how, Settles(s2, s, n, how), Len(s.out) \in Nat,
         s.pc \in TicketPcs, s2.pc \in TicketPcs, s.told = 0
  PROVE  /\ n \in Nat /\ s2.thread = s.thread
         /\ (s.tools[n] # "ticket" \/ (s.out[n] \in {"filed", "ok"} <=> how \in {"filed", "ok"}))
              => InHand(s2) = InHand(s)
         /\ s.tools[n] = "ticket" /\ s.out[n] \notin {"filed", "ok"} /\ how \in {"filed", "ok"}
              => n \notin InHand(s) /\ InHand(s2) = InHand(s) \cup {n}
<1>1. /\ s2.thread = s.thread /\ s2.told = 0 /\ s2.tools = s.tools /\ Len(s2.out) = Len(s.out)
      /\ n \in 1..Len(s.out) /\ s2.out[n] = how
      /\ \A k \in 1..Len(s.out) : k # n => s2.out[k] = s.out[k]
  BY DEF Settles, Same
<1>2. \A k : k \in InHand(s) <=>
        k \in 1..Len(s.out) /\ s.tools[k] = "ticket" /\ s.out[k] \in {"filed", "ok"}
  BY DEF InHand
<1>3. \A k : k \in InHand(s2) <=>
        k \in 1..Len(s.out) /\ s.tools[k] = "ticket" /\ s2.out[k] \in {"filed", "ok"}
  BY <1>1 DEF InHand
<1> HIDE DEF InHand
<1>4. ASSUME s.tools[n] # "ticket" \/ (s.out[n] \in {"filed", "ok"} <=> how \in {"filed", "ok"})
      PROVE  InHand(s2) = InHand(s)
  <2>1. ASSUME NEW k PROVE k \in InHand(s2) <=> k \in InHand(s)
    <3>1. CASE k = n
      BY <1>1, <1>2, <1>3, <1>4, <3>1
    <3>2. CASE k # n
      BY <1>1, <1>2, <1>3, <3>2
    <3> QED
      BY <3>1, <3>2
  <2> QED
    BY <2>1
<1>5. ASSUME s.tools[n] = "ticket", s.out[n] \notin {"filed", "ok"}, how \in {"filed", "ok"}
      PROVE  n \notin InHand(s) /\ InHand(s2) = InHand(s) \cup {n}
  <2>1. ASSUME NEW k PROVE k \in InHand(s2) <=> k \in InHand(s) \/ k = n
    <3>1. CASE k = n
      BY <1>1, <1>3, <1>5, <3>1
    <3>2. CASE k # n
      BY <1>1, <1>2, <1>3, <3>2
    <3> QED
      BY <3>1, <3>2
  <2> QED
    BY <1>2, <1>5, <2>1
<1> QED
  BY <1>1, <1>4, <1>5

\* The tools of a round end: only a ticket that was filed and lost its answer would be forgotten.
LEMMA BalancedEnds ==
  ASSUME "late" \notin Faults,
         ChatInv, Balanced(req, log, filed), NEW r \in Requests, NEW n, ToolEnds(r, n)
  PROVE  Balanced(req', log', filed')
<1>1. req[r].pc = "gathering" /\ UNCHANGED <<log, filed>>
  BY ToolEndsDoes
<1>2. PICK s2 : \E how \in OutcomeKinds :
        /\ Moves(r, s2) /\ Settles(s2, req[r], n, how) /\ s2.pc \in {"gathering", "reporting"}
        /\ MayEnd(req[r].tools[n], req[r].out[n], how)
  BY ToolEndsDoes
<1>3. PICK how \in OutcomeKinds :
        /\ Moves(r, s2) /\ Settles(s2, req[r], n, how) /\ s2.pc \in {"gathering", "reporting"}
        /\ MayEnd(req[r].tools[n], req[r].out[n], how)
  BY <1>2
<1>4. PICK s : s = req[r] /\ Len(s.out) \in Nat /\ s.told = 0 /\ s.pc \in TicketPcs
  <2>1. req[r] \in Locals /\ Shaped(req[r])
    BY DEF ChatInv, ReqOK
  <2>2. Len(req[r].out) \in Nat
    BY <2>1, LenProperties DEF Locals
  <2> QED
    BY <1>1, <2>1, <2>2 DEF Shaped, TicketPcs
<1>5. s.tools[n] # "ticket" \/ (s.out[n] \in {"filed", "ok"} <=> how \in {"filed", "ok"})
  BY <1>3, <1>4 DEF MayEnd
<1>6. InHand(s2) = InHand(s) /\ s2.thread = s.thread
  <2>1. Settles(s2, s, n, how) /\ s2.pc \in TicketPcs
    BY <1>3, <1>4 DEF TicketPcs
  <2> QED
    BY <1>4, <1>5, <2>1, HandSettles
<1>7. \A i : Owed(req', i) = Owed(req, i)
  BY <1>3, <1>4, <1>6, OwedSame DEF ChatInv
<1> QED
  BY <1>1, <1>7, BalanceSame

\* The service files a ticket, for a request of the chat or of the help card.
LEMMA BalancedFiles ==
  ASSUME ChatInv, Balanced(req, log, filed), NEW r \in Requests,
         req[r].pc \in {"gathering", "filing"}, req[r].thread \in ThreadIds,
         NEW n, req[r].tools[n] = "ticket", req[r].out[n] = "running",
         filed' = [filed EXCEPT ![req[r].thread] = @ + 1], UNCHANGED log,
         NEW s2, Moves(r, s2), s2.pc = req[r].pc, Settles(s2, req[r], n, "filed")
  PROVE  Balanced(req', log', filed')
<1>1. PICK s : s = req[r] /\ Len(s.out) \in Nat /\ s.told = 0 /\ s.pc \in TicketPcs
  <2>1. req[r] \in Locals /\ Shaped(req[r])
    BY DEF ChatInv, ReqOK
  <2>2. Len(req[r].out) \in Nat
    BY <2>1, LenProperties DEF Locals
  <2> QED
    BY <2>1, <2>2 DEF Shaped, TicketPcs
<1>2. n \in Nat /\ s2.thread = s.thread /\ n \notin InHand(s) /\ InHand(s2) = InHand(s) \cup {n}
  <2>1. Settles(s2, s, n, "filed") /\ s2.pc \in TicketPcs /\ s.tools[n] = "ticket"
        /\ s.out[n] \notin {"filed", "ok"}
    BY <1>1
  <2> QED
    BY <1>1, <2>1, HandSettles
<1>3. PICK j \in ThreadIds : j = s2.thread /\ j = req[r].thread
  BY <1>1, <1>2
<1>4. /\ \A i : i # j => Owed(req', i) = Owed(req, i)
      /\ Owed(req', j) = Owed(req, j) \cup {<<r, n>>} /\ <<r, n>> \notin Owed(req, j)
  BY <1>1, <1>2, <1>3, OwedMore, SMTT(60) DEF ChatInv
<1>5. PICK x : x = <<r, n>>
  OBVIOUS
<1> QED
  BY <1>3, <1>4, <1>5, BalanceFiled DEF ChatInv

LEMMA BalancedReport ==
  ASSUME ChatInv, Balanced(req, log, filed), NEW r \in Requests, Report(r)
  PROVE  Balanced(req', log', filed')
<1>1. PICK n : /\ req[r].pc = "reporting" /\ n = req[r].told + 1 /\ n \in 1..Len(req[r].out)
               /\ log' = [log EXCEPT ![req[r].thread] = Recorded(req[r], n, @)]
               /\ UNCHANGED filed
  BY ReportDoes
<1>2. PICK j \in ThreadIds : j = req[r].thread
  BY <1>1 DEF ChatInv, ReqOK, Shaped
<1>3. PICK s : s = req[r] /\ s \in Locals /\ Shaped(s) /\ s.pc = "reporting" /\ s.told = n - 1
  BY <1>1, SMTT(60) DEF ChatInv, ReqOK, Locals
<1>4. Len(s.out) \in Nat /\ n \in 1..Len(s.out) /\ s.out[n] \in OutcomeKinds
  BY <1>1, <1>3, LenProperties, ZenonT(60) DEF Locals, Shaped
<1>5. PICK s2 :
        /\ Moves(r, s2) /\ s2.thread = j
        /\ \/ s2.pc = "reporting" /\ s2.told = n /\ s2.out = s.out /\ s2.tools = s.tools
           \/ n = Len(s.out) /\ s2.pc \notin TicketPcs
  <2>1. PICK s2 :
          /\ Moves(r, s2)
          /\ \/ /\ s2.pc = "reporting" /\ s2.told = req[r].told + 1 /\ s2.out = req[r].out
                /\ s2.tools = req[r].tools /\ s2.thread = req[r].thread
             \/ req[r].told + 1 = Len(req[r].out) /\ Finishes(s2, req[r])
             \/ /\ req[r].told + 1 = Len(req[r].out) /\ s2.pc = "over"
                /\ s2.thread = req[r].thread
             \/ req[r].told + 1 = Len(req[r].out) /\ Asks(s2, req[r])
    BY ReportDoes
  <2>2. Finishes(s2, req[r]) => s2.pc = "over" /\ s2.thread = req[r].thread
    BY DEF Finishes
  <2>3. Asks(s2, req[r]) => s2.pc = "asking" /\ s2.thread = req[r].thread
    BY DEF Asks
  <2> QED
    BY <1>1, <1>2, <1>3, <2>1, <2>2, <2>3 DEF TicketPcs
<1>6. InHand(s2) = InHand(s) \ {n}
  <2>1. \A k : k \in InHand(s) <=>
          k \in 1..Len(s.out) /\ k > n - 1 /\ s.tools[k] = "ticket" /\ s.out[k] \in {"filed", "ok"}
    BY <1>3 DEF InHand, TicketPcs
  <2>2. CASE s2.pc = "reporting" /\ s2.told = n /\ s2.out = s.out /\ s2.tools = s.tools
    <3>1. \A k : k \in InHand(s2) <=>
            k \in 1..Len(s.out) /\ k > n /\ s.tools[k] = "ticket" /\ s.out[k] \in {"filed", "ok"}
      BY <2>2 DEF InHand, TicketPcs
    <3>2. \A k \in 1..Len(s.out) : k > n <=> k > n - 1 /\ k # n
      BY <1>4
    <3>3. \A k : k \in InHand(s2) <=> k \in InHand(s) /\ k # n
      BY <2>1, <3>1, <3>2
    <3> QED
      BY <3>3
  <2>3. CASE n = Len(s.out) /\ s2.pc \notin TicketPcs
    <3>1. InHand(s2) = {}
      BY <2>3 DEF InHand
    <3>2. \A k \in 1..Len(s.out) : k > n - 1 => k = n
      BY <1>4, <2>3
    <3>3. \A k : k \in InHand(s) => k = n
      BY <2>1, <3>2
    <3> QED
      BY <3>1, <3>3
  <2> QED
    BY <1>5, <2>2, <2>3
<1>7. n \in InHand(s) <=> Raised(s, n)
  <2>1. n \in InHand(s) <=> s.tools[n] = "ticket" /\ s.out[n] \in {"filed", "ok"}
    BY <1>3, <1>4 DEF InHand, TicketPcs
  <2>2. s.out[n] # "filed"
    BY <1>4 DEF OutcomeKinds
  <2> QED
    BY <2>1, <2>2 DEF Raised
<1>8. PICK t, m : /\ Adds(log, j, t, m) /\ Results(t, req[r], n)
                  /\ \/ ~ Raised(req[r], n) /\ log' = m
                     \/ /\ Raised(req[r], n)
                        /\ \E u : Adds(m, j, u, log') /\ Notes(u, "ticket")
  BY <1>1, <1>2, RecordedIs
<1>9. /\ LogOK(log) /\ LogOK(m) /\ Cardinality(Memos(m[j])) = Cardinality(Memos(log[j]))
      /\ \A i \in ThreadIds : Cardinality(Memos(m[i])) = Cardinality(Memos(log[i]))
  <2>1. ~ IsTicketMemo(t) /\ LogOK(log)
    BY <1>8 DEF Results, IsTicketMemo, ChatInv
  <2>2. /\ \A i \in ThreadIds : i # j => Cardinality(Memos(m[i])) = Cardinality(Memos(log[i]))
        /\ Cardinality(Memos(m[j])) = Cardinality(Memos(log[j])) + 0
    BY <1>8, <2>1, MemosGrow
  <2>3. Cardinality(Memos(log[j])) \in Nat
    BY <2>1, MemosFinite
  <2> QED
    BY <1>8, <2>1, <2>2, <2>3, Grow
<1>10. CASE ~ Raised(s, n) /\ log' = m
  <2>1. InHand(s2) = InHand(s) /\ s2.thread = req[r].thread
    BY <1>2, <1>5, <1>6, <1>7, <1>10
  <2>2. \A i : Owed(req', i) = Owed(req, i)
    BY <1>3, <1>5, <2>1, OwedSame DEF ChatInv
  <2> QED
    BY <1>1, <1>9, <1>10, <2>2, BalanceSame
<1>11. ASSUME Raised(s, n), NEW u, Adds(m, j, u, log'), Notes(u, "ticket")
       PROVE  Balanced(req', log', filed')
  <2>1. n \in InHand(req[r]) /\ InHand(s2) = InHand(req[r]) \ {n} /\ n \in Nat
        /\ s2.thread = req[r].thread
    BY <1>2, <1>3, <1>4, <1>5, <1>6, <1>7, <1>11
  <2>2. /\ \A i : i # j => Owed(req', i) = Owed(req, i)
        /\ Owed(req', j) = Owed(req, j) \ {<<r, n>>} /\ <<r, n>> \in Owed(req, j)
    BY <1>5, <2>1, OwedLess DEF ChatInv
  <2>3. IsTicketMemo(u)
    BY <1>11 DEF Notes, IsTicketMemo
  <2>4. /\ \A i \in ThreadIds : i # j => Cardinality(Memos(log'[i])) = Cardinality(Memos(m[i]))
        /\ Cardinality(Memos(log'[j])) = Cardinality(Memos(m[j])) + 1
    BY ONLY j \in ThreadIds, <1>9, <1>11, <2>3, MemosGrow
  <2>5. PICK x \in Owed(req, j) : x = <<r, n>>
    BY <2>2
  <2> QED
    BY <1>1, <1>9, <2>2, <2>4, <2>5, BalanceTold, ZenonT(60)
<1> QED
  BY <1>3, <1>8, <1>10, <1>11

LEMMA BalancedHelpEnds ==
  ASSUME "late" \notin Faults,
         ChatInv, Balanced(req, log, filed), NEW r \in Requests, HelpEnds(r)
  PROVE  Balanced(req', log', filed')
<1>1. req[r].pc = "filing" /\ UNCHANGED filed /\ req[r] \in Locals /\ Shaped(req[r])
  BY HelpEndsDoes DEF ChatInv, ReqOK
<1>2. PICK j \in ThreadIds : j = req[r].thread
  BY <1>1 DEF Shaped
<1>3. \A k : k \in InHand(req[r]) <=> k = 1 /\ req[r].out[1] \in {"filed", "ok"}
  <2>1. Len(req[r].out) = 1 /\ req[r].tools[1] = "ticket" /\ req[r].told = 0
    BY <1>1 DEF Shaped
  <2> QED
    BY <1>1, <2>1 DEF InHand, TicketPcs
<1>4. ASSUME NEW how, Leaves(r, how)
      PROVE  \E s2 : Moves(r, s2) /\ s2.thread = j /\ InHand(s2) = {}
  BY <1>2, <1>4 DEF Leaves, InHand, TicketPcs
<1>5. CASE req[r].out[1] = "filed" /\ Leaves(r, "ticket")
           /\ \E t : Adds(log, req[r].thread, t, log') /\ Notes(t, "ticket")
  <2>1. PICK s2 : Moves(r, s2) /\ s2.thread = j /\ InHand(s2) = {}
    BY <1>4, <1>5
  <2>2. 1 \in InHand(req[r]) /\ InHand(s2) = InHand(req[r]) \ {1}
    BY <1>3, <1>5, <2>1
  <2>3. /\ \A i : i # j => Owed(req', i) = Owed(req, i)
        /\ Owed(req', j) = Owed(req, j) \ {<<r, 1>>} /\ <<r, 1>> \in Owed(req, j)
    BY <1>2, <2>1, <2>2, OwedLess DEF ChatInv
  <2>4. PICK t : Adds(log, j, t, log') /\ IsTicketMemo(t)
    BY <1>2, <1>5 DEF Notes, IsTicketMemo
  <2>5. LogOK(log)
    BY DEF ChatInv
  <2>6. /\ \A i \in ThreadIds : i # j => Cardinality(Memos(log'[i])) = Cardinality(Memos(log[i]))
        /\ Cardinality(Memos(log'[j])) = Cardinality(Memos(log[j])) + 1
    BY <2>4, <2>5, MemosGrow
  <2>7. PICK x \in Owed(req, j) : x = <<r, 1>>
    BY <2>3
  <2> QED
    BY <1>1, <2>3, <2>5, <2>6, <2>7, BalanceTold
<1>6. CASE UNCHANGED log /\ Leaves(r, "no_ticket") /\ req[r].out[1] \notin {"filed", "ok"}
  <2>1. PICK s2 : Moves(r, s2) /\ InHand(s2) = {}
    BY <1>4, <1>6
  <2>2. InHand(req[r]) = {}
    BY <1>3, <1>6
  <2> QED
    BY <1>1, <1>6, <2>1, <2>2, EmptyHanded DEF Unremembered
<1> QED
  BY <1>5, <1>6, HelpEndsDoes

LEMMA BalancedInit == Init => Balanced(req, log, filed)
<1> SUFFICES ASSUME Init, NEW i \in ThreadIds
             PROVE  /\ IsFiniteSet(Owed(req, i))
                    /\ filed[i] = Cardinality(Memos(log[i])) + Cardinality(Owed(req, i))
  BY DEF Balanced
<1>1. \A r \in Requests : req[r].pc = "new"
  BY NotArrivedIs DEF Init
<1>2. Owed(req, i) = {}
  BY <1>1 DEF Owed, InHand, TicketPcs
<1>3. Memos(log[i]) = {}
  <2>1. log[i] = <<>> /\ DOMAIN <<>> = {}
    BY EmptySeq DEF Init
  <2> QED
    BY <2>1 DEF Memos
<1>4. filed[i] = 0
  BY DEF Init
<1> QED
  BY <1>2, <1>3, <1>4, FS_EmptySet

LEMMA BalancedStep ==
  ASSUME Faults \cap {"abort", "late", "crash"} = {},
         ChatInv, Balanced(req, log, filed), [Next]_vars
  PROVE  Balanced(req', log', filed')
<1> DEFINE Goal == Balanced(req', log', filed')
<1> SUFFICES Goal
  OBVIOUS
<1>0. LogOK(log) /\ ReqOK(req) /\ current \in ThreadIds
  BY DEF ChatInv
<1>1. ASSUME NEW r \in Requests, Arrive(r) PROVE Goal
  <2>1. req[r].pc = "new" /\ UNCHANGED filed
    BY <1>1, ArriveDoes
  <2>2. PICK s \in Locals :
          /\ s.thread = current
          /\ Submits(r, s) \/ \E s2 : Moves(r, s2) /\ s2.pc = "naming" /\ UNCHANGED log
    BY <1>1, ArriveDoes
  <2>3. CASE Submits(r, s)
    BY <1>0, <2>1, <2>2, <2>3, BalancedSubmit
  <2>4. ASSUME NEW s2, Moves(r, s2), s2.pc = "naming", UNCHANGED log PROVE Goal
    <3>1. InHand(req[r]) = {} /\ InHand(s2) = {}
      BY <2>1, <2>4 DEF InHand, TicketPcs
    <3> QED
      BY <2>1, <2>4, <3>1, EmptyHanded DEF Unremembered
  <2> QED
    BY <2>2, <2>3, <2>4
<1>2. ASSUME NEW r \in Requests, NameArrives(r) PROVE Goal
  <2>1. req[r].pc = "naming" /\ Submits(r, req[r]) /\ req[r].thread \in ThreadIds /\ UNCHANGED filed
    BY <1>2, NameArrivesDoes
  <2> QED
    BY <2>1, BalancedSubmit
<1>3. ASSUME NEW r \in Requests, ModelFails(r) PROVE Goal
  <2>1. Leaves(r, "AGENT_UNAVAILABLE") /\ req[r].pc = "asking" /\ UNCHANGED <<log, filed>>
    BY <1>3, ModelFailsDoes
  <2>2. PICK s2 : Moves(r, s2) /\ s2.pc \in {"over", "gone"}
    BY <2>1 DEF Leaves
  <2>3. InHand(req[r]) = {} /\ InHand(s2) = {}
    BY <2>1, <2>2 DEF InHand, TicketPcs
  <2> QED
    BY <2>1, <2>2, <2>3, EmptyHanded DEF Unremembered
<1>4. ASSUME NEW r \in Requests, ModelReplies(r) PROVE Goal
  BY <1>4, BalancedReplies
<1>5. ASSUME NEW r \in Requests, Dispatch(r) PROVE Goal
  BY <1>5, BalancedDispatch
<1>6. ASSUME NEW r \in Requests, Report(r) PROVE Goal
  BY <1>6, BalancedReport
<1>7. ASSUME NEW r \in Requests, NEW n \in 1..Len(req[r].out), ToolEnds(r, n) PROVE Goal
  BY <1>7, BalancedEnds
<1>8. ASSUME NEW r \in Requests, HelpEnds(r) PROVE Goal
  BY <1>8, BalancedHelpEnds
<1>9. ASSUME NEW r \in Requests, HelpArrives(r) PROVE Goal
  <2>1. PICK s2 : Moves(r, s2) /\ s2.out[1] = "running" /\ s2.pc = "filing"
    BY <1>9, HelpArrivesDoes
  <2>2. req[r].pc = "new" /\ UNCHANGED <<log, filed>>
    BY <1>9, HelpArrivesDoes
  <2>3. Len(s2.out) = 1
    BY <2>1 DEF Moves, Shaped
  <2>4. InHand(req[r]) = {} /\ InHand(s2) = {}
    BY <2>1, <2>2, <2>3 DEF InHand, TicketPcs
  <2> QED
    BY <2>1, <2>2, <2>4, EmptyHanded DEF Unremembered
<1>10. ASSUME NEW r \in Requests, HelpFiles(r) PROVE Goal
  <2>1. PICK s2 : Moves(r, s2) /\ s2.pc = "filing" /\ Settles(s2, req[r], 1, "filed")
    BY <1>10, HelpFilesDoes
  <2>2. /\ req[r].pc = "filing" /\ req[r].out[1] = "running" /\ req[r].thread \in ThreadIds
        /\ filed' = [filed EXCEPT ![req[r].thread] = @ + 1] /\ UNCHANGED log
    BY <1>10, HelpFilesDoes
  <2>3. req[r].tools[1] = "ticket"
    BY <1>0, <2>2 DEF ReqOK, Shaped
  <2> QED
    BY <2>1, <2>2, <2>3, BalancedFiles
<1>11. ASSUME NEW r \in Requests, Abort(r) PROVE Goal
  BY <1>11 DEF Abort
<1>12. ASSUME NEW r \in Requests, NEW n \in 1..Len(req[r].out), Files(r, n) PROVE Goal
  <2>1. PICK s2 : Moves(r, s2) /\ s2.pc = "gathering" /\ Settles(s2, req[r], n, "filed")
    BY <1>12, FilesDoes
  <2>2. /\ req[r].pc = "gathering" /\ req[r].tools[n] = "ticket" /\ req[r].out[n] = "running"
        /\ req[r].thread \in ThreadIds
        /\ filed' = [filed EXCEPT ![req[r].thread] = @ + 1] /\ UNCHANGED log
    BY <1>12, FilesDoes
  <2> QED
    BY <2>1, <2>2, BalancedFiles
<1>13. ASSUME UNCHANGED <<req, filed>>, Unremembered PROVE Goal
  <2>1. \A i : Owed(req', i) = Owed(req, i)
    BY <1>13
  <2> QED
    BY <1>13, <2>1, BalanceSame DEF Unremembered
<1>14. ASSUME RecordFlowEvent PROVE Goal
  <2>1. PICK i \in ThreadIds : i = current
    BY <1>0
  <2>2. PICK t : Adds(log, i, t, log') /\ Notes(t, "none")
    BY <1>14, <2>1, RecordFlowEventDoes
  <2>3. ~ IsTicketMemo(t) /\ UNCHANGED <<req, filed>>
    BY <1>14, <2>2, RecordFlowEventDoes DEF Notes, IsTicketMemo
  <2> QED
    BY <1>0, <1>13, <2>2, <2>3, PlainTurn
<1>15. ASSUME Reset PROVE Goal
  BY <1>13, <1>15 DEF Reset, Unremembered
<1>16. ASSUME Crash PROVE Goal
  BY <1>16 DEF Crash
<1>17. ASSUME UNCHANGED vars PROVE Goal
  BY <1>13, <1>17 DEF vars, Unremembered
<1> HIDE DEF Goal
<1> QED
  BY <1>1, <1>2, <1>3, <1>4, <1>5, <1>6, <1>7, <1>8, <1>9, <1>10, <1>11, <1>12, <1>14, <1>15,
     <1>16, <1>17 DEF Next, Advance

LEMMA BalancedRemembers ==
  ASSUME ChatInv, Balanced(req, log, filed)
  PROVE  TicketsRemembered
<1> SUFFICES ASSUME NEW i \in ThreadIds, ~ Ticketing(i)
             PROVE  filed[i] = TicketTurns(i)
  BY DEF TicketsRemembered
<1>1. Owed(req, i) = {}
  <2>1. \A r \in Requests : req[r].thread = i => req[r].pc \notin TicketPcs
    BY DEF Ticketing, TicketPcs
  <2> QED
    BY <2>1 DEF Owed, InHand
<1>2. filed[i] = Cardinality(Memos(log[i])) + 0
  BY <1>1, FS_EmptySet DEF Balanced
<1>3. Cardinality(Memos(log[i])) \in Nat
  BY MemosFinite DEF ChatInv
<1>4. TicketTurns(i) = Cardinality(Memos(log[i]))
  BY DEF TicketTurns, Count, Memos
<1> QED
  BY <1>2, <1>3, <1>4

\* Whenever nobody is in the middle of a ticket for a thread, the thread remembers every ticket
\* that exists for it, whatever requests overlap: unless a client or the process goes away in
\* the middle of one, or its answer comes after the time limit.
THEOREM EveryTicketRemembered ==
  ASSUME Faults \cap {"abort", "late", "crash"} = {}
  PROVE  Spec => []TicketsRemembered
<1>1. ChatInv /\ Balanced(req, log, filed) /\ [Next]_vars => (ChatInv /\ Balanced(req, log, filed))'
  <2> SUFFICES ASSUME ChatInv, Balanced(req, log, filed), [Next]_vars
               PROVE  ChatInv' /\ Balanced(req', log', filed')
    BY DEF Balanced, Owed
  <2> QED
    BY ChatInvStep, BalancedStep
<1>2. Init => ChatInv /\ Balanced(req, log, filed)
  BY ChatInvInit, BalancedInit
<1>3. ChatInv /\ Balanced(req, log, filed) => TicketsRemembered
  BY BalancedRemembers
<1> QED
  BY <1>1, <1>2, <1>3, PTL DEF Spec
=============================================================================
