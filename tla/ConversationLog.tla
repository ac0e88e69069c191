--------------------------- MODULE ConversationLog ---------------------------
(***************************************************************************)
(* What the conversation store promises its callers, with no queue, no     *)
(* writer and no suspended query in it: threads that belong to a session,  *)
(* a process that knows all turns of the threads it serves, and a durable  *)
(* log that follows behind, loses at most what it has not reached yet, and *)
(* is what a new process starts from.                                      *)
(***************************************************************************)
EXTENDS Integers, Sequences

VARIABLES
  owner,       \* thread -> its session: threads are made one after the other
  served,      \* threads this process serves
  known,       \* thread -> the turns this process knows
  rows,        \* threads the durable log has
  kept         \* thread -> the turns the durable log has

vars == <<owner, served, known, rows, kept>>

Threads == DOMAIN owner
Behind(S, t) == \A u \in S : u.seq < t.seq

Init ==
  /\ owner = <<>> /\ served = {} /\ rows = {}
  /\ \A i \in DOMAIN known : known[i] = {}
  /\ kept = known

\* A new conversation of session s.
Make(s) ==
  /\ owner' = Append(owner, s)
  /\ served' = served \cup {Len(owner) + 1}
  /\ UNCHANGED <<known, rows, kept>>

\* A turn is said in a served thread: its number is beyond all that are known.
Say(i) ==
  /\ i \in served
  /\ \E t \in known'[i] :
       Behind(known[i], t) /\ known' = [known EXCEPT ![i] = @ \cup {t}]
  /\ UNCHANGED <<owner, served, rows, kept>>

\* The log gets a thread, or a turn that is known and beyond all it has of that thread.
KeepThread(i) ==
  /\ i \in Threads /\ rows' = rows \cup {i}
  /\ UNCHANGED <<owner, served, known, kept>>

KeepTurn(i) ==
  /\ i \in served /\ rows' = rows \cup {i}
  /\ \E t \in known[i] :
       Behind(kept[i], t) /\ kept' = [kept EXCEPT ![i] = @ \cup {t}]
  /\ UNCHANGED <<owner, served, known>>

\* A session that is not served is taken up where the log has it: its newest thread there,
\* with every turn the log has.
TakeUp(i) ==
  /\ i \in rows
  /\ \A j \in Threads : owner[j] = owner[i] => j \notin served /\ (j > i => j \notin rows)
  /\ served' = served \cup {i}
  /\ known' = [known EXCEPT ![i] = kept[i]]
  /\ UNCHANGED <<owner, rows, kept>>

\* The process ends and another one begins.
Forget ==
  /\ served' = {} /\ known' = [i \in DOMAIN known |-> {}]
  /\ UNCHANGED <<owner, rows, kept>>

Next ==
  \/ \E s \in {owner'[i] : i \in DOMAIN owner'} : Make(s)
  \/ \E i \in DOMAIN known : Say(i) \/ KeepThread(i) \/ KeepTurn(i) \/ TakeUp(i)
  \/ Forget

Spec == Init /\ [][Next]_vars
=============================================================================
