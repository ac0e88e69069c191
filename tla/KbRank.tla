------------------------------- MODULE KbRank -------------------------------
(***************************************************************************)
(* Reciprocal rank fusion (backend/app/kb/search.py, rrf_fuse): a chunk    *)
(* scores 1 / (k + rank) in every leg that ranks it.                       *)
(***************************************************************************)
EXTENDS Integers, Sequences, FiniteSets, SequencesExt

CONSTANT RrfK  \* RRF_K

ASSUME RankAssumption == RrfK \in Nat

\* The scores are kept as the fractions they are (Python's are floats).
Fraction(n, d) == [num |-> n, den |-> d]
Plus(p, q) == Fraction(p.num * q.den + q.num * p.den, p.den * q.den)
Above(p, q) == p.num * q.den > q.num * p.den

RankIn(leg, x) == CHOOSE i \in DOMAIN leg : leg[i] = x
Share(leg, x) == IF x \in Range(leg) THEN Fraction(1, RrfK + RankIn(leg, x)) ELSE Fraction(0, 1)

BestShare(lex, sem, x) ==                                                 \* mutant
  IF Above(Share(lex, x), Share(sem, x)) THEN Share(lex, x) ELSE Share(sem, x)
Score(lex, sem, x) == Plus(Share(lex, x), Share(sem, x))

\* By score, ties by id.
Before(lex, sem, x, y) ==
  \/ Above(Score(lex, sem, x), Score(lex, sem, y))
  \/ ~Above(Score(lex, sem, y), Score(lex, sem, x)) /\ x < y

Hits(lex, sem) == Range(lex) \cup Range(sem)
Place(lex, sem, x) == Cardinality({y \in Hits(lex, sem) : Before(lex, sem, y, x)}) + 1
Fuse(lex, sem) ==
  [i \in 1..Cardinality(Hits(lex, sem)) |-> CHOOSE x \in Hits(lex, sem) : Place(lex, sem, x) = i]
=============================================================================
