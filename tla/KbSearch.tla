------------------------------ MODULE KbSearch ------------------------------
(***************************************************************************)
(* One search of the knowledge base (backend/app/kb/): the query is        *)
(* embedded by OpenAI, a lexical and a semantic ranking of the chunks are  *)
(* asked of Postgres side by side, and the two are fused by reciprocal     *)
(* rank.  Without an embedding the lexical ranking is all there is.        *)
(*                                                                         *)
(* Searches share no state.  OpenAI and Postgres are external: any answer  *)
(* they may give is a choice.  How much of each result is serialized       *)
(* (response_format) is left out: it changes no id and no order.           *)
(***************************************************************************)
EXTENDS KbRank

CONSTANTS
  Chunks,      \* ids of qa_chunks
  TopKs,       \* KbSearchRequest.top_k
  Floor,       \* the least depth hybrid_search asks a leg for
  Attempts     \* embed_query's attempts

ASSUME SearchAssumption ==
  /\ Chunks \subseteq Nat /\ IsFiniteSet(Chunks)
  /\ TopKs \subseteq Nat \ {0} /\ Floor \in Nat \ {0} /\ Attempts \in Nat \ {0}
\* RRF_K is 60; a leg is asked for 20 chunks, or twice a top_k of 20 at most.
ASSUME DepthAssumption == Floor <= RrfK + 1 /\ \A k \in TopKs : 2 * k <= RrfK + 1

VARIABLES
  pc,          \* "new", "embedding", "searching", "over"
  topK,
  try,         \* embed_query's attempt
  embedded,    \* whether embed_query has answered with a vector
  legs,        \* leg -> what Postgres has answered: "none", "failed" or a ranking
  out,         \* the outcome: results with or without the flag, or an error
  results,     \* the ids returned, best first
  gaveUp       \* history: embed_query has given None

vars == <<pc, topK, try, embedded, legs, out, results, gaveUp>>

Lexical == "fts"
Semantic == "vector"
Pending == [state |-> "none", ranking |-> <<>>]
Failed == [state |-> "failed", ranking |-> <<>>]
Ranked(s) == [state |-> "ranked", ranking |-> s]

\* The legs that are asked for, and how deep.
Asked == IF embedded THEN {Lexical, Semantic} ELSE {Lexical}
Depth(k) == IF 2 * k > Floor THEN 2 * k ELSE Floor

Init ==
  /\ pc = "new" /\ topK \in TopKs
  /\ try = 1 /\ embedded = FALSE
  /\ legs = [l \in {Lexical, Semantic} |-> Pending]
  /\ out = "none" /\ results = <<>> /\ gaveUp = FALSE

Over(o) == pc' = "over" /\ out' = o

\* A query that is too long or has a bad top_k, no pool, a query of spaces: in this order.
Refuse ==
  /\ pc = "new"
  /\ Over("VALIDATION") \/ Over("KB_UNAVAILABLE")
  /\ UNCHANGED <<topK, try, embedded, legs, results, gaveUp>>

DegradeToError == Over("KB_ERROR") /\ gaveUp' = TRUE                      \* mutant
\* embed_query gives None.
Degrade == pc' = "searching" /\ gaveUp' = TRUE /\ UNCHANGED out

\* Without a key nobody is asked.
Begin ==
  /\ pc = "new"
  /\ \/ pc' = "embedding" /\ UNCHANGED <<out, gaveUp>>
     \/ Degrade
  /\ UNCHANGED <<topK, try, embedded, legs, results>>

EmbeddingArrives ==
  /\ pc = "embedding"
  /\ embedded' = TRUE /\ pc' = "searching"
  /\ UNCHANGED <<topK, try, legs, out, results, gaveUp>>

\* A request that OpenAI refuses is not repeated; one that it cannot serve, or that does
\* not reach it, is repeated once.
EmbeddingRefused ==
  /\ pc = "embedding"
  /\ Degrade
  /\ UNCHANGED <<topK, try, embedded, legs, results>>

EmbeddingFails ==
  /\ pc = "embedding"
  /\ IF try < Attempts THEN try' = try + 1 /\ UNCHANGED <<pc, out, gaveUp>>
                       ELSE UNCHANGED try /\ Degrade
  /\ UNCHANGED <<topK, embedded, legs, results>>

\* A 200 whose body is not JSON or holds no embedding: the exception is none that
\* embed_query catches, and run_kb_search embeds outside its own try.
EmbeddingUnreadable ==
  /\ pc = "embedding"
  /\ Over("raised")
  /\ UNCHANGED <<topK, try, embedded, legs, results, gaveUp>>

-----------------------------------------------------------------------------
\* Any rankings of chunks that have a match, or a vector, down to the depth.
Rankings == {s \in SetToAllKPermutations(Chunks) : Len(s) <= Depth(topK)}

Outcome == IF embedded THEN "ok" ELSE "fts_only"

\* The last leg answers: fuse, and cut.
Fused(answers) ==
  LET order == Fuse(answers[Lexical].ranking, answers[Semantic].ranking)
  IN SubSeq(order, 1, IF Len(order) < topK THEN Len(order) ELSE topK)

LegAnswers(l) ==
  /\ pc = "searching" /\ l \in Asked /\ legs[l] = Pending
  /\ \E s \in Rankings : legs' = [legs EXCEPT ![l] = Ranked(s)]
  /\ IF \A m \in Asked : legs'[m].state = "ranked"
     THEN Over(Outcome) /\ results' = Fused(legs')
     ELSE UNCHANGED <<pc, out, results>>
  /\ UNCHANGED <<topK, try, embedded, gaveUp>>

\* gather() raises the first failure; what the other leg answers is not looked at.
LegFails(l) ==
  /\ pc = "searching" /\ l \in Asked /\ legs[l] = Pending
  /\ legs' = [legs EXCEPT ![l] = Failed]
  /\ Over("KB_ERROR")
  /\ UNCHANGED <<topK, try, embedded, results, gaveUp>>

Next ==
  \/ Refuse \/ Begin
  \/ EmbeddingArrives \/ EmbeddingRefused \/ EmbeddingFails \/ EmbeddingUnreadable
  \/ \E l \in {Lexical, Semantic} : LegAnswers(l) \/ LegFails(l)

Spec == Init /\ [][Next]_vars

-----------------------------------------------------------------------------
Found == out \in {"ok", "fts_only"}

\* "Agreement between lexical and semantic retrieval outranks a single strong leg hit"
\* (search.py, rrf_fuse), at any rank that the depth lets a leg have; and a chunk that no
\* leg ranks below another, and one leg ranks above it, comes before it.  The top of that
\* order is returned: as much as was asked for, if there is as much.
AgreementWins ==
  Found =>
    LET lex == legs[Lexical].ranking
        sem == legs[Semantic].ranking
        hits == Hits(lex, sem)
        order == Fuse(lex, sem)
        at(s, x) == IF x \in Range(s) THEN RankIn(s, x) ELSE Depth(topK) + 1
        agreed(x) == x \in Range(lex) \cap Range(sem)
        better(x, y) ==
          \/ agreed(x) /\ ~agreed(y)
          \/ /\ at(lex, x) <= at(lex, y) /\ at(sem, x) <= at(sem, y)
             /\ <<at(lex, x), at(sem, x)>> # <<at(lex, y), at(sem, y)>>
    IN /\ Range(order) = hits /\ IsInjective(order)
       /\ \A x, y \in hits : better(x, y) => RankIn(order, x) < RankIn(order, y)
       /\ IsPrefix(results, order)
       /\ Len(results) = (IF Cardinality(hits) < topK THEN Cardinality(hits) ELSE topK)

\* A search that embed_query gave no vector (no key, refused, failed at every attempt) goes
\* on with the lexical ranking, and says so: it ends as Postgres answers, flagged, its
\* results the lexical ranking as it was.  An error of the search means that a leg it asked
\* failed, the flag that there was no vector, and its absence that both legs answered.
DegradesHonestly ==
  /\ gaveUp /\ pc = "over" =>
       out = (IF legs[Lexical] = Failed THEN "KB_ERROR" ELSE "fts_only")
  /\ out = "KB_ERROR" => \E l \in Asked : legs[l] = Failed
  /\ out = "ok" => \A l \in {Lexical, Semantic} : legs[l].state = "ranked"
  /\ out = "fts_only" =>
       /\ gaveUp /\ legs[Semantic] = Pending
       /\ IsPrefix(results, legs[Lexical].ranking)

\* "An embedding failure SHALL degrade gracefully to FTS-only results flagged
\* "degraded": "fts_only" rather than failing the request" (kb-retrieval/spec.md): whatever
\* keeps a search that was taken on from getting a vector, it ends as its lexical leg does.
EmbeddingFailureDegrades ==
  pc = "over" /\ ~embedded /\ out \notin {"VALIDATION", "KB_UNAVAILABLE"} =>
    out = (IF legs[Lexical] = Failed THEN "KB_ERROR" ELSE "fts_only")
=============================================================================
