---------------------------- MODULE KbSearch_proofs ----------------------------
(***************************************************************************)
(* Why agreement wins: with RRF_K = 60 and no leg deeper than 40, a chunk  *)
(* that both legs rank, however low, scores above one that a single leg    *)
(* ranks, however high; the fusion orders the chunks by that score; and    *)
(* what a search returns is the top of that order.                         *)
(***************************************************************************)
EXTENDS KbSearch, FiniteSetTheorems, SequenceTheorems, FunctionTheorems, TLAPS

-----------------------------------------------------------------------------
(* The arithmetic of scores.                                               *)

\* A product grows with its second factor.
LEMMA ProductGrows ==
  ASSUME NEW z \in Int, NEW x \in Int, NEW y \in Int, z > 0, x > y
  PROVE  z * x > z * y
  OBVIOUS

\* Two shares whose denominators are each less than twice that of a third make more than it.
LEMMA TwoSharesBeatOne ==
  ASSUME NEW a \in Nat \ {0}, NEW b \in Nat \ {0}, NEW c \in Nat \ {0},
         a < 2 * c, b < 2 * c
  PROVE  (b + a) * c > a * b
<1>1. a * (2 * c) > a * b
  BY ProductGrows
<1>2. b * (2 * c) > b * a
  BY ProductGrows
<1>3. a * (2 * c) = 2 * (a * c) /\ b * (2 * c) = 2 * (b * c)
  OBVIOUS
<1>4. (b + a) * c = b * c + a * c
  OBVIOUS
<1>5. a * b = b * a
  OBVIOUS
<1>6. a * c \in Int /\ b * c \in Int /\ a * b \in Int
  OBVIOUS
<1> QED
  BY <1>1, <1>2, <1>3, <1>4, <1>5, <1>6

\* The rank of a chunk that a leg has is one of the leg's.
LEMMA RankInLeg ==
  ASSUME NEW leg \in Seq(Int), NEW x \in Range(leg)
  PROVE  RankIn(leg, x) \in 1..Len(leg)
<1>1. \E i \in DOMAIN leg : leg[i] = x
  BY DEF Range
<1>2. RankIn(leg, x) \in DOMAIN leg
  BY <1>1 DEF RankIn
<1> QED
  BY <1>2

\* A chunk that a leg has shares one over more than RRF_K, and at most twice that and one.
LEMMA ShareOfHit ==
  ASSUME NEW leg \in Seq(Int), Len(leg) <= RrfK + 1, NEW x \in Range(leg)
  PROVE  \E n \in RrfK + 1 .. 2 * RrfK + 1 : Share(leg, x) = Fraction(1, n)
<1>1. RankIn(leg, x) \in 1..Len(leg)
  BY RankInLeg
<1>2. RrfK + RankIn(leg, x) \in RrfK + 1 .. 2 * RrfK + 1
  BY <1>1, RankAssumption
<1>3. Share(leg, x) = Fraction(1, RrfK + RankIn(leg, x))
  BY DEF Share
<1> QED
  BY <1>2, <1>3

\* "Agreement between lexical and semantic retrieval outranks a single strong leg hit"
\* (search.py, rrf_fuse): for every k, and legs that are no deeper than k + 1, a chunk in
\* both legs scores above a chunk in one.
THEOREM AgreementOutranks ==
  ASSUME NEW lex \in Seq(Int), NEW sem \in Seq(Int),
         Len(lex) <= RrfK + 1, Len(sem) <= RrfK + 1,
         NEW x \in Range(lex) \cap Range(sem),
         NEW y \in Range(lex) \cup Range(sem), y \notin Range(lex) \cap Range(sem)
  PROVE  Above(Score(lex, sem, x), Score(lex, sem, y))
<1>1. PICK a \in RrfK + 1 .. 2 * RrfK + 1 : Share(lex, x) = Fraction(1, a)
  BY ShareOfHit
<1>2. PICK b \in RrfK + 1 .. 2 * RrfK + 1 : Share(sem, x) = Fraction(1, b)
  BY ShareOfHit
<1>3. Score(lex, sem, x).num = b + a /\ Score(lex, sem, x).den = a * b
  BY <1>1, <1>2, RankAssumption DEF Score, Plus, Fraction
<1>4. PICK c \in RrfK + 1 .. 2 * RrfK + 1 :
        Score(lex, sem, y).num = 1 /\ Score(lex, sem, y).den = c
  <2>1. CASE y \in Range(lex)
    <3>1. PICK n \in RrfK + 1 .. 2 * RrfK + 1 : Share(lex, y) = Fraction(1, n)
      BY <2>1, ShareOfHit
    <3>2. Share(sem, y) = Fraction(0, 1)
      BY <2>1 DEF Share
    <3>3. Score(lex, sem, y).num = 1 /\ Score(lex, sem, y).den = n
      BY <3>1, <3>2, RankAssumption DEF Score, Plus, Fraction
    <3> QED
      BY <3>3
  <2>2. CASE y \in Range(sem)
    <3>1. PICK n \in RrfK + 1 .. 2 * RrfK + 1 : Share(sem, y) = Fraction(1, n)
      BY <2>2, ShareOfHit
    <3>2. Share(lex, y) = Fraction(0, 1)
      BY <2>2 DEF Share
    <3>3. Score(lex, sem, y).num = 1 /\ Score(lex, sem, y).den = n
      BY <3>1, <3>2, RankAssumption DEF Score, Plus, Fraction
    <3> QED
      BY <3>3
  <2> QED
    BY <2>1, <2>2
<1>5. a < 2 * c /\ b < 2 * c /\ a \in Nat \ {0} /\ b \in Nat \ {0} /\ c \in Nat \ {0}
  BY RankAssumption
<1>6. (b + a) * c > a * b
  BY <1>5, TwoSharesBeatOne
<1>7. 1 * (a * b) = a * b
  OBVIOUS
<1> QED
  BY <1>3, <1>4, <1>6, <1>7 DEF Above

-----------------------------------------------------------------------------
(* Fractions are ordered, and sums grow with their parts.                  *)

Fractions == [num : Nat, den : Nat \ {0}]
NoLess(p, q) == ~ Above(q, p)

LEMMA Grows ==
  ASSUME NEW z \in Nat \ {0}, NEW x \in Int, NEW y \in Int
  PROVE  (x > y => z * x > z * y) /\ (x >= y => z * x >= z * y)
  OBVIOUS

LEMMA Cancels ==
  ASSUME NEW z \in Nat \ {0}, NEW x \in Int, NEW y \in Int
  PROVE  (z * x > z * y => x > y) /\ (z * x >= z * y => x >= y)
<1>1. x <= y => z * x <= z * y
  BY Grows
<1>2. x < y => z * x < z * y
  BY Grows
<1>3. z * x \in Int /\ z * y \in Int
  OBVIOUS
<1> QED
  BY <1>1, <1>2, <1>3

LEMMA Chain ==
  ASSUME NEW a \in Nat, NEW b \in Nat \ {0}, NEW c \in Nat, NEW d \in Nat \ {0},
         NEW e \in Nat, NEW f \in Nat \ {0}, a * d >= c * b, c * f >= e * d
  PROVE  /\ a * f >= e * b
         /\ a * d > c * b \/ c * f > e * d => a * f > e * b
<1>1. a * d \in Int /\ c * b \in Int /\ c * f \in Int /\ e * d \in Int /\ a * f \in Int /\ e * b \in Int
  OBVIOUS
<1>2. f * (a * d) >= f * (c * b) /\ (a * d > c * b => f * (a * d) > f * (c * b))
  BY <1>1, Grows
<1>3. b * (c * f) >= b * (e * d) /\ (c * f > e * d => b * (c * f) > b * (e * d))
  BY <1>1, Grows
<1>4. f * (a * d) = d * (a * f) /\ f * (c * b) = b * (c * f) /\ b * (e * d) = d * (e * b)
  OBVIOUS
<1>5. f * (a * d) \in Int /\ b * (c * f) \in Int /\ b * (e * d) \in Int
  OBVIOUS
<1>6. d * (a * f) >= d * (e * b) /\ (a * d > c * b \/ c * f > e * d => d * (a * f) > d * (e * b))
  BY <1>2, <1>3, <1>4, <1>5
<1> QED
  BY <1>1, <1>6, Cancels

LEMMA AboveChain ==
  ASSUME NEW p \in Fractions, NEW q \in Fractions, NEW r \in Fractions, NoLess(p, q), NoLess(q, r)
  PROVE  /\ NoLess(p, r)
         /\ Above(p, q) \/ Above(q, r) => Above(p, r)
<1>1. PICK a \in Nat, b \in Nat \ {0} : a = p.num /\ b = p.den
  BY DEF Fractions
<1>2. PICK c \in Nat, d \in Nat \ {0} : c = q.num /\ d = q.den
  BY DEF Fractions
<1>3. PICK e \in Nat, f \in Nat \ {0} : e = r.num /\ f = r.den
  BY DEF Fractions
<1>4. a * d \in Int /\ c * b \in Int /\ c * f \in Int /\ e * d \in Int /\ a * f \in Int /\ e * b \in Int
  OBVIOUS
<1>5. ~ (c * b > a * d) /\ ~ (e * d > c * f)
  BY <1>1, <1>2, <1>3 DEF NoLess, Above
<1>6. a * d >= c * b /\ c * f >= e * d
  BY <1>4, <1>5
<1>7. a * f >= e * b /\ (a * d > c * b \/ c * f > e * d => a * f > e * b)
  BY <1>6, Chain
<1>8. ~ (e * b > a * f)
  BY <1>4, <1>7
<1> QED
  BY <1>1, <1>2, <1>3, <1>7, <1>8 DEF NoLess, Above

LEMMA AboveIsStrict ==
  ASSUME NEW p \in Fractions, NEW q \in Fractions, Above(p, q)
  PROVE  NoLess(p, q)
<1>1. PICK a \in Nat, b \in Nat \ {0} : a = p.num /\ b = p.den
  BY DEF Fractions
<1>2. PICK c \in Nat, d \in Nat \ {0} : c = q.num /\ d = q.den
  BY DEF Fractions
<1>3. a * d \in Int /\ c * b \in Int /\ a * d > c * b
  BY <1>1, <1>2 DEF Above
<1>4. ~ (c * b > a * d)
  BY <1>3
<1> QED
  BY <1>1, <1>2, <1>4 DEF Above, NoLess

LEMMA Sums ==
  ASSUME NEW a \in Nat, NEW b \in Nat \ {0}, NEW c \in Nat, NEW d \in Nat \ {0},
         NEW e \in Nat, NEW f \in Nat \ {0}, NEW g \in Nat, NEW h \in Nat \ {0},
         a * d >= c * b, e * h >= g * f, a * d > c * b \/ e * h > g * f
  PROVE  (a * f + e * b) * (d * h) > (c * h + g * d) * (b * f)
<1>1. a * d \in Int /\ c * b \in Int /\ e * h \in Int /\ g * f \in Int
      /\ f * h \in Nat \ {0} /\ b * d \in Nat \ {0}
  OBVIOUS
<1>2. (f * h) * (a * d) >= (f * h) * (c * b) /\ (a * d > c * b => (f * h) * (a * d) > (f * h) * (c * b))
  BY <1>1, Grows
<1>3. (b * d) * (e * h) >= (b * d) * (g * f) /\ (e * h > g * f => (b * d) * (e * h) > (b * d) * (g * f))
  BY <1>1, Grows
<1>4. (a * f + e * b) * (d * h) = (f * h) * (a * d) + (b * d) * (e * h)
  OBVIOUS
<1>5. (c * h + g * d) * (b * f) = (f * h) * (c * b) + (b * d) * (g * f)
  OBVIOUS
<1>6. /\ (f * h) * (a * d) \in Int /\ (f * h) * (c * b) \in Int
      /\ (b * d) * (e * h) \in Int /\ (b * d) * (g * f) \in Int
  OBVIOUS
<1>7. (f * h) * (a * d) + (b * d) * (e * h) > (f * h) * (c * b) + (b * d) * (g * f)
  BY <1>2, <1>3, <1>6
<1> QED
  BY <1>4, <1>5, <1>7

LEMMA SumAbove ==
  ASSUME NEW p \in Fractions, NEW q \in Fractions, NEW r \in Fractions, NEW s \in Fractions,
         NoLess(p, q), NoLess(r, s), Above(p, q) \/ Above(r, s)
  PROVE  Above(Plus(p, r), Plus(q, s))
<1>1. PICK a \in Nat, b \in Nat \ {0} : a = p.num /\ b = p.den
  BY DEF Fractions
<1>2. PICK c \in Nat, d \in Nat \ {0} : c = q.num /\ d = q.den
  BY DEF Fractions
<1>3. PICK e \in Nat, f \in Nat \ {0} : e = r.num /\ f = r.den
  BY DEF Fractions
<1>4. PICK g \in Nat, h \in Nat \ {0} : g = s.num /\ h = s.den
  BY DEF Fractions
<1>5. a * d \in Int /\ c * b \in Int /\ e * h \in Int /\ g * f \in Int
  OBVIOUS
<1>6. ~ (c * b > a * d) /\ ~ (g * f > e * h) /\ (a * d > c * b \/ e * h > g * f)
  BY <1>1, <1>2, <1>3, <1>4 DEF NoLess, Above
<1>7. a * d >= c * b /\ e * h >= g * f
  BY <1>5, <1>6
<1>8. (a * f + e * b) * (d * h) > (c * h + g * d) * (b * f)
  BY <1>6, <1>7, Sums
<1>9. /\ Plus(p, r).num = a * f + e * b /\ Plus(p, r).den = b * f
      /\ Plus(q, s).num = c * h + g * d /\ Plus(q, s).den = d * h
  BY <1>1, <1>2, <1>3, <1>4 DEF Plus, Fraction
<1> QED
  BY <1>8, <1>9 DEF Above

LEMMA PlusIsFraction ==
  ASSUME NEW p \in Fractions, NEW q \in Fractions
  PROVE  Plus(p, q) \in Fractions
<1>1. PICK a \in Nat, b \in Nat \ {0} : a = p.num /\ b = p.den
  BY DEF Fractions
<1>2. PICK c \in Nat, d \in Nat \ {0} : c = q.num /\ d = q.den
  BY DEF Fractions
<1>3. a * d + c * b \in Nat /\ b * d \in Nat \ {0}
  OBVIOUS
<1>4. Plus(p, q) = [num |-> a * d + c * b, den |-> b * d]
  BY <1>1, <1>2 DEF Plus, Fraction
<1> QED
  BY <1>3, <1>4 DEF Fractions

-----------------------------------------------------------------------------
(* The fusion puts every hit behind those that score above it.             *)

LEMMA ShareIsFraction ==
  ASSUME NEW leg \in Seq(Int), NEW x
  PROVE  Share(leg, x) \in Fractions
<1>1. CASE x \in Range(leg)
  <2>1. PICK r \in 1..Len(leg) : r = RankIn(leg, x)
    BY <1>1, RankInLeg
  <2>2. RrfK + r \in Nat \ {0} /\ Len(leg) \in Nat
    BY RankAssumption, LenProperties
  <2>3. Share(leg, x) = [num |-> 1, den |-> RrfK + r]
    BY <1>1, <2>1 DEF Share, Fraction
  <2> QED
    BY <2>2, <2>3 DEF Fractions
<1>2. CASE x \notin Range(leg)
  <2>1. Share(leg, x) = [num |-> 0, den |-> 1]
    BY <1>2 DEF Share, Fraction
  <2> QED
    BY <2>1 DEF Fractions
<1> QED
  BY <1>1, <1>2

LEMMA ScoreIsFraction ==
  ASSUME NEW lex \in Seq(Int), NEW sem \in Seq(Int), NEW x
  PROVE  Score(lex, sem, x) \in Fractions
  BY ShareIsFraction, PlusIsFraction DEF Score

LEMMA BeforeIsAnOrder ==
  ASSUME NEW lex \in Seq(Int), NEW sem \in Seq(Int)
  PROVE  /\ \A x \in Int : ~ Before(lex, sem, x, x)
         /\ \A x, y \in Int : x = y \/ Before(lex, sem, x, y) \/ Before(lex, sem, y, x)
         /\ \A x, y, z \in Int :
              Before(lex, sem, x, y) /\ Before(lex, sem, y, z) => Before(lex, sem, x, z)
<1>1. ASSUME NEW x \in Int
      PROVE  ~ Before(lex, sem, x, x)
  <2>1. PICK p \in Fractions : p = Score(lex, sem, x)
    BY ScoreIsFraction
  <2>2. ~ Above(p, p)
    BY AboveIsStrict DEF NoLess
  <2> QED
    BY <2>1, <2>2 DEF Before
<1>2. ASSUME NEW x \in Int, NEW y \in Int, x # y
      PROVE  Before(lex, sem, x, y) \/ Before(lex, sem, y, x)
  <2>1. x < y \/ y < x
    BY <1>2
  <2> QED
    BY <2>1 DEF Before
<1>3. ASSUME NEW x \in Int, NEW y \in Int, NEW z \in Int,
             Before(lex, sem, x, y), Before(lex, sem, y, z)
      PROVE  Before(lex, sem, x, z)
  <2>1. PICK p \in Fractions, q \in Fractions, r \in Fractions :
          p = Score(lex, sem, x) /\ q = Score(lex, sem, y) /\ r = Score(lex, sem, z)
    BY ScoreIsFraction
  <2>2. NoLess(p, q) /\ (Above(p, q) \/ x < y)
    BY <1>3, <2>1, AboveIsStrict DEF Before, NoLess
  <2>3. NoLess(q, r) /\ (Above(q, r) \/ y < z)
    BY <1>3, <2>1, AboveIsStrict DEF Before, NoLess
  <2>4. NoLess(p, r) /\ (Above(p, r) \/ (x < y /\ y < z))
    BY <2>2, <2>3, AboveChain
  <2>5. x < y /\ y < z => x < z
    OBVIOUS
  <2> QED
    BY <2>1, <2>4, <2>5 DEF Before, NoLess
<1> QED
  BY <1>1, <1>2, <1>3

\* Two legs whose hits are finitely many ids.
Legs(lex, sem) ==
  /\ lex \in Seq(Int) /\ sem \in Seq(Int)
  /\ Hits(lex, sem) \subseteq Int /\ IsFiniteSet(Hits(lex, sem))

LEMMA PlacesAreOrdered ==
  ASSUME NEW lex, NEW sem, Legs(lex, sem), NEW n, n = Cardinality(Hits(lex, sem))
  PROVE  /\ n \in Nat
         /\ \A x \in Hits(lex, sem) : Place(lex, sem, x) \in 1..n
         /\ \A x, y \in Hits(lex, sem) :
              Before(lex, sem, x, y) => Place(lex, sem, x) < Place(lex, sem, y)
<1>1. PICK H : H = Hits(lex, sem)
  OBVIOUS
<1>2. H \subseteq Int /\ IsFiniteSet(H) /\ n = Cardinality(H) /\ n \in Nat
  BY <1>1, FS_CardinalityType DEF Legs
<1> DEFINE Ahead(x) == {y \in H : Before(lex, sem, y, x)}
<1>3. \A x : Place(lex, sem, x) = Cardinality(Ahead(x)) + 1
  BY <1>1 DEF Place
<1>4. ASSUME NEW x \in H
      PROVE  Cardinality(Ahead(x)) \in Nat /\ Cardinality(Ahead(x)) < n /\ IsFiniteSet(Ahead(x))
  <2>1. x \notin Ahead(x) /\ Ahead(x) \in SUBSET H
    BY <1>2, BeforeIsAnOrder DEF Legs
  <2> HIDE DEF Ahead
  <2>2. /\ IsFiniteSet(Ahead(x)) /\ Cardinality(Ahead(x)) <= Cardinality(H)
        /\ (Cardinality(H) = Cardinality(Ahead(x)) => H = Ahead(x))
    BY <1>2, <2>1, FS_Subset
  <2>3. Cardinality(H) # Cardinality(Ahead(x))
    BY <2>1, <2>2
  <2>4. Cardinality(Ahead(x)) \in Nat
    BY <2>2, FS_CardinalityType
  <2> QED
    BY <1>2, <2>2, <2>3, <2>4
<1>5. ASSUME NEW x \in H, NEW y \in H, Before(lex, sem, x, y)
      PROVE  Cardinality(Ahead(x)) < Cardinality(Ahead(y))
  <2>1. Ahead(x) \in SUBSET Ahead(y)
    BY <1>2, <1>5, BeforeIsAnOrder DEF Legs
  <2>2. x \in Ahead(y) /\ x \notin Ahead(x)
    BY <1>2, <1>5, BeforeIsAnOrder DEF Legs
  <2>3. /\ IsFiniteSet(Ahead(y)) /\ Cardinality(Ahead(x)) \in Nat /\ Cardinality(Ahead(y)) \in Nat
    BY <1>4
  <2> HIDE DEF Ahead
  <2>4. /\ Cardinality(Ahead(x)) <= Cardinality(Ahead(y))
        /\ (Cardinality(Ahead(y)) = Cardinality(Ahead(x)) => Ahead(y) = Ahead(x))
    BY <2>1, <2>3, FS_Subset
  <2> QED
    BY <2>2, <2>3, <2>4
<1> HIDE DEF Ahead
<1>6. \A x \in H : Place(lex, sem, x) \in 1..n
  BY <1>2, <1>3, <1>4
<1>7. \A x, y \in H : Before(lex, sem, x, y) => Place(lex, sem, x) < Place(lex, sem, y)
  BY <1>3, <1>4, <1>5
<1> QED
  BY <1>1, <1>2, <1>6, <1>7

\* Every hit is in the fusion, once, at its place.
LEMMA FuseIs ==
  ASSUME NEW lex, NEW sem, Legs(lex, sem), NEW n, n = Cardinality(Hits(lex, sem)),
         NEW order, order = Fuse(lex, sem)
  PROVE  /\ n \in Nat /\ DOMAIN order = 1..n
         /\ \A i \in 1..n : order[i] \in Hits(lex, sem) /\ Place(lex, sem, order[i]) = i
         /\ \A x \in Hits(lex, sem) : Place(lex, sem, x) \in 1..n /\ order[Place(lex, sem, x)] = x
<1>1. PICK H : H = Hits(lex, sem)
  OBVIOUS
<1>2. H \subseteq Int /\ IsFiniteSet(H) /\ n = Cardinality(H) /\ n \in Nat
  BY <1>1, FS_CardinalityType DEF Legs
<1>3. PICK f : f = [x \in H |-> Place(lex, sem, x)]
  OBVIOUS
<1>4. \A x \in H : f[x] \in 1..n
  BY <1>1, <1>3, PlacesAreOrdered
<1>5. ASSUME NEW x \in H, NEW y \in H, x # y
      PROVE  f[x] # f[y]
  <2>1. Before(lex, sem, x, y) \/ Before(lex, sem, y, x)
    BY <1>2, <1>5, BeforeIsAnOrder DEF Legs
  <2>2. f[x] < f[y] \/ f[y] < f[x]
    BY <1>1, <1>3, <2>1, PlacesAreOrdered
  <2> QED
    BY <1>4, <2>2
<1>6. f \in Injection(H, 1..n)
  BY <1>3, <1>4, <1>5 DEF Injection, IsInjective
<1>7. IsFiniteSet(1..n) /\ Cardinality(1..n) = n
  <2>1. PICK m \in Nat : m = n
    BY <1>2
  <2>2. IsFiniteSet(1..m) /\ Cardinality(1..m) = IF 1 > m THEN 0 ELSE m - 1 + 1
    BY FS_Interval
  <2>3. Cardinality(1..m) = m
    BY <2>2
  <2> QED
    BY <2>1, <2>2, <2>3
<1>8. f \in Surjection(H, 1..n)
  BY <1>2, <1>6, <1>7, FS_Injection
<1>9. \A i \in 1..n : \E x \in H : f[x] = i
  BY <1>8 DEF Surjection
<1>10. order = [i \in 1..n |-> CHOOSE x \in H : Place(lex, sem, x) = i]
  BY <1>1 DEF Fuse
<1>11. \A i \in 1..n : order[i] \in H /\ Place(lex, sem, order[i]) = i
  BY <1>3, <1>9, <1>10
<1>12. ASSUME NEW x \in H
       PROVE  Place(lex, sem, x) \in 1..n /\ order[Place(lex, sem, x)] = x
  <2>1. PICK i \in 1..n : i = Place(lex, sem, x) /\ i = f[x]
    BY <1>3, <1>4
  <2>2. order[i] \in H /\ f[order[i]] = i
    BY <1>3, <1>11
  <2>3. order[i] = x
    BY <1>5, <2>1, <2>2
  <2> QED
    BY <2>1, <2>3
<1> QED
  BY <1>1, <1>2, <1>10, <1>11, <1>12

\* So the fusion is a ranking of the hits, in which what is before is ranked before.
LEMMA FuseRanks ==
  ASSUME NEW lex, NEW sem, Legs(lex, sem), NEW order, order = Fuse(lex, sem)
  PROVE  /\ order \in Seq(Int) /\ Len(order) = Cardinality(Hits(lex, sem))
         /\ Range(order) = Hits(lex, sem) /\ IsInjective(order)
         /\ \A x \in Hits(lex, sem) : RankIn(order, x) = Place(lex, sem, x)
         /\ \A x, y \in Hits(lex, sem) :
              Before(lex, sem, x, y) => RankIn(order, x) < RankIn(order, y)
<1>0. Cardinality(Hits(lex, sem)) \in Nat
  BY FS_CardinalityType DEF Legs
<1>1. PICK n \in Nat : n = Cardinality(Hits(lex, sem))
  BY <1>0
<1>0a. PICK H : H = Hits(lex, sem)
  OBVIOUS
<1>2. /\ DOMAIN order = 1..n
      /\ \A i \in 1..n : order[i] \in H /\ Place(lex, sem, order[i]) = i
      /\ \A x \in H : Place(lex, sem, x) \in 1..n /\ order[Place(lex, sem, x)] = x
  BY <1>1, <1>0a, FuseIs
<1>3. order \in Seq(Int) /\ Len(order) = n
  <2>1. order = [i \in 1..n |-> CHOOSE x \in Hits(lex, sem) : Place(lex, sem, x) = i]
    BY <1>1, <1>0a DEF Fuse
  <2>2. order = [i \in 1..n |-> order[i]]
    BY <2>1
  <2>3. \A i \in 1..n : order[i] \in Int
    BY <1>1, <1>0a, <1>2 DEF Legs
  <2>4. order \in Seq(Int)
    BY <2>2, <2>3, IsASeq
  <2> QED
    BY <1>1, <1>0a, <1>2, <2>4, LenProperties
<1>4. Range(order) = H
  BY <1>2 DEF Range
<1>5. IsInjective(order)
  BY <1>2 DEF IsInjective
<1>6. ASSUME NEW x \in H
      PROVE  RankIn(order, x) = Place(lex, sem, x)
  <2>1. \A i \in DOMAIN order : order[i] = x <=> i = Place(lex, sem, x)
    BY <1>2
  <2>2. Place(lex, sem, x) \in DOMAIN order
    BY <1>2
  <2> QED
    BY <2>1, <2>2 DEF RankIn
<1>7. \A x, y \in H : Before(lex, sem, x, y) => RankIn(order, x) < RankIn(order, y)
  BY <1>1, <1>0a, <1>6, PlacesAreOrdered
<1> QED
  BY <1>1, <1>0a, <1>3, <1>4, <1>5, <1>6, <1>7

-----------------------------------------------------------------------------
(* Who is ranked higher scores more.                                       *)

At(leg, depth, x) == IF x \in Range(leg) THEN RankIn(leg, x) ELSE depth + 1

LEMMA SharesCompare ==
  ASSUME NEW leg \in Seq(Int), NEW depth \in Nat, Len(leg) <= depth, NEW x, NEW y
  PROVE  /\ At(leg, depth, x) <= At(leg, depth, y) => NoLess(Share(leg, x), Share(leg, y))
         /\ At(leg, depth, x) < At(leg, depth, y) => Above(Share(leg, x), Share(leg, y))
<1>1. \A z : z \in Range(leg) => /\ RankIn(leg, z) \in 1..depth /\ At(leg, depth, z) = RankIn(leg, z)
                                 /\ Share(leg, z) = Fraction(1, RrfK + RankIn(leg, z))
  <2> SUFFICES ASSUME NEW z \in Range(leg)
               PROVE  /\ RankIn(leg, z) \in 1..depth /\ At(leg, depth, z) = RankIn(leg, z)
                      /\ Share(leg, z) = Fraction(1, RrfK + RankIn(leg, z))
    OBVIOUS
  <2>1. RankIn(leg, z) \in 1..Len(leg) /\ Len(leg) \in Nat
    BY RankInLeg, LenProperties
  <2> QED
    BY <2>1 DEF At, Share
<1>2. \A z : z \notin Range(leg) => At(leg, depth, z) = depth + 1 /\ Share(leg, z) = Fraction(0, 1)
  BY DEF At, Share
<1>3. CASE x \in Range(leg) /\ y \in Range(leg)
  <2>1. PICK i \in 1..depth, j \in 1..depth : i = RankIn(leg, x) /\ j = RankIn(leg, y)
    BY <1>1, <1>3
  <2>2. Share(leg, x) = Fraction(1, RrfK + i) /\ Share(leg, y) = Fraction(1, RrfK + j)
        /\ At(leg, depth, x) = i /\ At(leg, depth, y) = j
    BY <1>1, <1>3, <2>1
  <2>3. RrfK \in Nat
    BY RankAssumption
  <2> QED
    BY <2>2, <2>3 DEF NoLess, Above, Fraction
<1>4. CASE x \in Range(leg) /\ y \notin Range(leg)
  <2>1. PICK i \in 1..depth : i = RankIn(leg, x)
    BY <1>1, <1>4
  <2>2. Share(leg, x) = Fraction(1, RrfK + i) /\ Share(leg, y) = Fraction(0, 1)
    BY <1>1, <1>2, <1>4, <2>1
  <2>3. RrfK \in Nat
    BY RankAssumption
  <2> QED
    BY <2>2, <2>3 DEF NoLess, Above, Fraction
<1>5. CASE x \notin Range(leg) /\ y \in Range(leg)
  <2>1. ~ (At(leg, depth, x) <= At(leg, depth, y)) /\ ~ (At(leg, depth, x) < At(leg, depth, y))
    BY <1>1, <1>2, <1>5
  <2> QED
    BY <2>1
<1>6. CASE x \notin Range(leg) /\ y \notin Range(leg)
  <2>1. Share(leg, x) = Fraction(0, 1) /\ Share(leg, y) = Fraction(0, 1)
        /\ At(leg, depth, x) = depth + 1 /\ At(leg, depth, y) = depth + 1
    BY <1>2, <1>6
  <2>2. NoLess(Fraction(0, 1), Fraction(0, 1))
    BY DEF NoLess, Above, Fraction
  <2> QED
    BY <2>1, <2>2
<1> QED
  BY <1>3, <1>4, <1>5, <1>6

LEMMA BetterIsBefore ==
  ASSUME NEW lex \in Seq(Int), NEW sem \in Seq(Int), NEW depth \in Nat,
         Len(lex) <= depth, Len(sem) <= depth, NEW x, NEW y,
         At(lex, depth, x) <= At(lex, depth, y), At(sem, depth, x) <= At(sem, depth, y),
         At(lex, depth, x) < At(lex, depth, y) \/ At(sem, depth, x) < At(sem, depth, y)
  PROVE  Before(lex, sem, x, y)
<1>1. PICK p \in Fractions, q \in Fractions : p = Share(lex, x) /\ q = Share(lex, y)
  BY ShareIsFraction
<1>2. PICK r \in Fractions, s \in Fractions : r = Share(sem, x) /\ s = Share(sem, y)
  BY ShareIsFraction
<1>3. NoLess(p, q) /\ NoLess(r, s) /\ (Above(p, q) \/ Above(r, s))
  BY <1>1, <1>2, SharesCompare
<1>4. Above(Plus(p, r), Plus(q, s))
  BY <1>3, SumAbove
<1> QED
  BY <1>1, <1>2, <1>4 DEF Before, Score

\* One leg alone is its own fusion.
LEMMA FuseOne ==
  ASSUME NEW lex \in Seq(Int), IsInjective(lex)
  PROVE  Legs(lex, <<>>) /\ Fuse(lex, <<>>) = lex
<1>1. PICK n \in Nat : n = Len(lex) /\ DOMAIN lex = 1..n /\ \A i \in 1..n : lex[i] \in Int
  BY LenProperties, ElementOfSeq
<1>2. PICK none : none = <<>> /\ none \in Seq(Int) /\ Len(none) = 0 /\ Range(none) = {}
  <2>1. <<>> \in Seq(Int) /\ Len(<<>>) = 0
    BY EmptySeq
  <2>2. Range(<<>>) = {}
    <3>1. DOMAIN <<>> = {}
      OBVIOUS
    <3> QED
      BY <3>1 DEF Range
  <2> QED
    BY <2>1, <2>2
<1>3. PICK H : H = Hits(lex, none) /\ H = {lex[i] : i \in 1..n}
  BY <1>1, <1>2 DEF Hits, Range
<1>4. \A m \in 0..n : /\ IsFiniteSet({lex[i] : i \in 1..m})
                      /\ Cardinality({lex[i] : i \in 1..m}) = m
  <2> SUFFICES ASSUME NEW m \in 0..n
               PROVE  /\ IsFiniteSet({lex[i] : i \in 1..m})
                      /\ Cardinality({lex[i] : i \in 1..m}) = m
    OBVIOUS
  <2>1. PICK S : S = {lex[i] : i \in 1..m}
    OBVIOUS
  <2>2. PICK f : f = [i \in 1..m |-> lex[i]]
    OBVIOUS
  <2>3. f \in Surjection(1..m, S)
    BY <2>1, <2>2 DEF Surjection
  <2>4. \A i, j \in 1..m : f[i] = f[j] => i = j
    <3> SUFFICES ASSUME NEW i \in 1..m, NEW j \in 1..m, f[i] = f[j]
                 PROVE  i = j
      OBVIOUS
    <3>1. f[i] = lex[i] /\ f[j] = lex[j]
      BY <2>2
    <3>2. i \in 1..n /\ j \in 1..n
      OBVIOUS
    <3> QED
      BY <1>1, <3>1, <3>2 DEF IsInjective
  <2>5. f \in Injection(1..m, S)
    BY <2>3, <2>4 DEF Injection, IsInjective, Surjection
  <2>6. IsFiniteSet(1..m) /\ Cardinality(1..m) = m
    <3>1. PICK k \in Nat : k = m
      OBVIOUS
    <3>2. IsFiniteSet(1..k) /\ Cardinality(1..k) = IF 1 > k THEN 0 ELSE k - 1 + 1
      BY FS_Interval
    <3>3. Cardinality(1..k) = k
      BY <3>2
    <3> QED
      BY <3>1, <3>2, <3>3
  <2>7. IsFiniteSet(S) /\ Cardinality(S) = Cardinality(1..m)
    BY <2>3, <2>5, <2>6, FS_Surjection
  <2> QED
    BY <2>1, <2>6, <2>7
<1>5. IsFiniteSet(H) /\ Cardinality(H) = n
  <2>1. n \in 0..n
    OBVIOUS
  <2>2. IsFiniteSet({lex[i] : i \in 1..n}) /\ Cardinality({lex[i] : i \in 1..n}) = n
    BY <1>4, <2>1, Zenon
  <2> QED
    BY <1>3, <2>2, Zenon
<1>6. Legs(lex, none)
  BY <1>1, <1>2, <1>3, <1>5 DEF Legs
<1>7. \A i \in 1..n : RankIn(lex, lex[i]) = i /\ lex[i] \in Range(lex)
  BY <1>1 DEF RankIn, IsInjective, Range
<1>8. ASSUME NEW i \in 1..n, NEW j \in 1..n, i < j
      PROVE  Before(lex, none, lex[i], lex[j])
  <2>1. At(lex, n, lex[i]) = i /\ At(lex, n, lex[j]) = j
    BY <1>7 DEF At
  <2>2. \A x : At(none, n, x) = n + 1
    BY <1>2 DEF At
  <2>3. PICK x, y : x = lex[i] /\ y = lex[j]
    OBVIOUS
  <2>4. /\ At(lex, n, x) < At(lex, n, y) /\ At(lex, n, x) <= At(lex, n, y)
        /\ At(none, n, x) <= At(none, n, y)
    BY <1>8, <2>1, <2>2, <2>3
  <2>5. Before(lex, none, x, y)
    <3>1. Len(lex) <= n /\ Len(none) <= n /\ none \in Seq(Int)
      BY <1>1, <1>2
    <3> QED
      BY <2>4, <3>1, BetterIsBefore
  <2> QED
    BY <2>3, <2>5
<1>9. ASSUME NEW i \in 1..n, NEW j \in 1..n, Before(lex, none, lex[i], lex[j])
      PROVE  i < j
  <2>1. CASE i = j
    BY <1>1, <1>2, <1>9, <2>1, BeforeIsAnOrder
  <2>2. CASE j < i
    <3>1. Before(lex, none, lex[j], lex[i])
      BY <1>8, <2>2
    <3>2. Before(lex, none, lex[i], lex[i]) /\ lex[i] \in Int
      BY <1>1, <1>2, <1>9, <3>1, BeforeIsAnOrder
    <3> QED
      BY <1>2, <3>2, BeforeIsAnOrder
  <2> QED
    BY <2>1, <2>2
<1>10. ASSUME NEW i \in 1..n
       PROVE  Place(lex, none, lex[i]) = i
  <2>1. PICK m \in 0..n : m = i - 1
    OBVIOUS
  <2>2. {y \in H : Before(lex, none, y, lex[i])} = {lex[j] : j \in 1..m}
    <3>1. ASSUME NEW y \in H, Before(lex, none, y, lex[i])
          PROVE  y \in {lex[j] : j \in 1..m}
      <4>1. PICK j \in 1..n : y = lex[j]
        BY <1>3
      <4>2. j < i
        BY <1>9, <3>1, <4>1
      <4> QED
        BY <2>1, <4>1, <4>2
    <3>2. ASSUME NEW j \in 1..m
          PROVE  lex[j] \in H /\ Before(lex, none, lex[j], lex[i])
      <4>1. j \in 1..n /\ j < i
        BY <2>1
      <4> QED
        BY <1>3, <1>8, <4>1
    <3> QED
      BY <3>1, <3>2
  <2>3. Place(lex, none, lex[i]) = m + 1
    BY <1>3, <1>4, <2>2 DEF Place
  <2> QED
    BY <2>1, <2>3
<1>11. PICK order : order = Fuse(lex, none)
  OBVIOUS
<1>12. order \in Seq(Int) /\ Len(order) = n
  BY <1>3, <1>5, <1>6, <1>11, FuseRanks
<1>13. ASSUME NEW i \in 1..n
       PROVE  order[i] = lex[i]
  <2>1. PICK x \in H : x = lex[i]
    BY <1>3
  <2>2. order[Place(lex, none, x)] = x
    BY <1>3, <1>6, <1>11, FuseIs, ZenonT(60)
  <2> QED
    BY <1>10, <2>1, <2>2
<1>14. order = lex
  BY <1>1, <1>12, <1>13, SeqEqual
<1> QED
  BY <1>2, <1>6, <1>11, <1>14

-----------------------------------------------------------------------------
(* A search, step by step.                                                 *)

\* What a leg may have answered.
Answer(s) == /\ s \in Seq(Int) /\ IsInjective(s) /\ Range(s) \subseteq Chunks
             /\ Len(s) <= Depth(topK)

LEMMA NoAnswer == <<>> \in Seq(Int) /\ IsInjective(<<>>) /\ Range(<<>>) = {} /\ Len(<<>>) = 0
<1>1. DOMAIN <<>> = {}
  OBVIOUS
<1>2. <<>> \in Seq(Int) /\ Len(<<>>) = 0
  BY EmptySeq
<1> QED
  BY <1>1, <1>2 DEF IsInjective, Range

LEMMA DepthIs ==
  ASSUME topK \in TopKs
  PROVE  topK \in Nat \ {0} /\ Depth(topK) \in Nat /\ Depth(topK) <= RrfK + 1
  BY SearchAssumption, DepthAssumption, RankAssumption DEF Depth

LEMMA RankingsAnswer ==
  ASSUME topK \in TopKs, NEW s \in Rankings
  PROVE  Answer(s)
<1>1. PICK S \in SUBSET Chunks : s \in SetToSeqs(S)
  BY DEF Rankings, SetToAllKPermutations
<1>2. IsFiniteSet(Chunks)
  BY SearchAssumption
<1>3. PICK n \in Nat : n = Cardinality(S)
  BY <1>2, FS_Subset, FS_CardinalityType
<1>4. s \in [1..n -> S] /\ \A i, j \in 1..n : i # j => s[i] # s[j]
  BY <1>1, <1>3 DEF SetToSeqs
<1>5. DOMAIN s = 1..n /\ \A i \in 1..n : s[i] \in Chunks /\ s[i] \in Int
  <2>1. Chunks \subseteq Int
    BY SearchAssumption
  <2>2. \A i \in 1..n : s[i] \in S
    BY <1>4
  <2> QED
    BY <1>1, <1>4, <2>1, <2>2
<1>6. s \in Seq(Int)
  <2>1. s = [i \in 1..n |-> s[i]]
    BY <1>4
  <2> QED
    BY <1>5, <2>1, IsASeq
<1>7. IsInjective(s) /\ Range(s) \subseteq Chunks
  BY <1>4, <1>5 DEF IsInjective, Range
<1>8. Len(s) <= Depth(topK)
  BY DEF Rankings
<1> QED
  BY <1>6, <1>7, <1>8 DEF Answer

\* A leg is pending, has failed or has answered; the results are those of the answers.
Searching ==
  /\ pc \in {"new", "embedding", "searching", "over"} /\ topK \in TopKs
  /\ embedded \in BOOLEAN
  /\ legs \in [{Lexical, Semantic} -> [state : {"none", "failed", "ranked"}, ranking : Seq(Int)]]
  /\ \A l \in {Lexical, Semantic} : /\ Answer(legs[l].ranking)
                                    /\ legs[l].state # "ranked" => legs[l].ranking = <<>>
  /\ out # "none" => pc = "over"
  /\ ~ embedded => legs[Semantic] = Pending
  /\ Found => /\ out = Outcome /\ results = Fused(legs)
              /\ \A m \in Asked : legs[m].state = "ranked"
  /\ out = "KB_ERROR" => \E l \in Asked : legs[l] = Failed

LEMMA SearchInit == Init => Searching
<1> SUFFICES ASSUME Init PROVE Searching
  OBVIOUS
<1>1. /\ pc = "new" /\ topK \in TopKs /\ embedded = FALSE /\ out = "none"
      /\ legs = [l \in {Lexical, Semantic} |-> Pending]
  BY DEF Init
<1>2. Pending \in [state : {"none", "failed", "ranked"}, ranking : Seq(Int)]
      /\ Pending.ranking = <<>>
  BY NoAnswer DEF Pending
<1>3. Answer(<<>>)
  <2>1. Depth(topK) \in Nat
    BY <1>1, DepthIs
  <2>2. PICK s : s = <<>>
    OBVIOUS
  <2>3. s \in Seq(Int) /\ IsInjective(s) /\ Range(s) \subseteq Chunks /\ Len(s) <= Depth(topK)
    BY <2>1, <2>2, NoAnswer
  <2> QED
    BY <2>2, <2>3 DEF Answer
<1>4. \A l \in {Lexical, Semantic} : legs[l] = Pending
  BY <1>1
<1>5. Semantic \in {Lexical, Semantic}
  OBVIOUS
<1> QED
  BY <1>1, <1>2, <1>3, <1>4, <1>5 DEF Searching, Found

\* A step that touches no leg, and ends the search with no results if it ends it.
LEMMA QuietStep ==
  ASSUME Searching, UNCHANGED <<topK, legs>>, embedded' \in BOOLEAN, embedded => embedded',
         pc' \in {"new", "embedding", "searching", "over"}, pc # "over",
         \/ UNCHANGED out
         \/ pc' = "over" /\ out' \in {"VALIDATION", "KB_UNAVAILABLE", "raised"}
  PROVE  Searching'
<1>1. out = "none"
  BY DEF Searching
<1>2. out' \in {"none", "VALIDATION", "KB_UNAVAILABLE", "raised"}
      /\ (out' # "none" => pc' = "over")
  BY <1>1
<1>3. ~ Found'
  BY <1>2 DEF Found
<1> QED
  BY <1>2, <1>3 DEF Searching, Answer, Depth

LEMMA LegAnswersStep ==
  ASSUME Searching, NEW l \in {Lexical, Semantic}, LegAnswers(l)
  PROVE  Searching'
<1>1. PICK s \in Rankings : legs' = [legs EXCEPT ![l] = Ranked(s)]
  BY DEF LegAnswers
<1>2. /\ topK' = topK /\ embedded' = embedded /\ l \in Asked /\ pc = "searching" /\ out = "none"
  BY DEF LegAnswers, Searching
<1>3. Answer(s)
  BY <1>1, RankingsAnswer DEF Searching
<1>4. Ranked(s) \in [state : {"none", "failed", "ranked"}, ranking : Seq(Int)]
      /\ Ranked(s).ranking = s /\ Ranked(s).state = "ranked"
  BY <1>3 DEF Ranked, Answer
<1>5. /\ legs' \in [{Lexical, Semantic} -> [state : {"none", "failed", "ranked"}, ranking : Seq(Int)]]
      /\ legs'[l] = Ranked(s) /\ \A m \in {Lexical, Semantic} : m # l => legs'[m] = legs[m]
  BY <1>1, <1>4 DEF Searching
<1>6. \A m \in {Lexical, Semantic} : /\ Answer(legs'[m].ranking)
                                     /\ legs'[m].state # "ranked" => legs'[m].ranking = <<>>
  <2>1. ASSUME NEW m \in {Lexical, Semantic}, m # l
        PROVE  Answer(legs'[m].ranking) /\ (legs'[m].state # "ranked" => legs'[m].ranking = <<>>)
    BY <1>5, <2>1, Zenon DEF Searching
  <2>2. Answer(legs'[l].ranking) /\ legs'[l].state = "ranked"
    BY <1>3, <1>4, <1>5, Zenon
  <2> QED
    BY <2>1, <2>2
<1>7. ~ embedded' => legs'[Semantic] = Pending
  BY <1>2, <1>5 DEF Asked, Searching, Lexical, Semantic
<1>8. Asked' = Asked
  BY <1>2 DEF Asked
<1>9. \A t : Answer(t)' <=> Answer(t)
  BY <1>2 DEF Answer, Depth
<1>10. CASE \A m \in Asked : legs'[m].state = "ranked"
  <2>1. pc' = "over" /\ out' = Outcome /\ results' = Fused(legs')
    BY <1>10 DEF LegAnswers, Over
  <2>2. Outcome' = Outcome /\ Outcome \in {"ok", "fts_only"} /\ Fused(legs)' = Fused(legs')
    BY <1>2 DEF Outcome, Fused
  <2> QED
    BY <1>2, <1>5, <1>6, <1>7, <1>8, <1>9, <1>10, <2>1, <2>2 DEF Searching
<1>11. CASE ~ \A m \in Asked : legs'[m].state = "ranked"
  <2>1. pc' = pc /\ out' = out
    BY <1>11 DEF LegAnswers
  <2>2. ~ Found'
    BY <1>2, <2>1 DEF Found
  <2> QED
    BY <1>2, <1>5, <1>6, <1>7, <1>9, <2>1, <2>2 DEF Searching
<1> QED
  BY <1>10, <1>11

LEMMA LegFailsStep ==
  ASSUME Searching, NEW l \in {Lexical, Semantic}, LegFails(l)
  PROVE  Searching'
<1>1. /\ legs' = [legs EXCEPT ![l] = Failed] /\ pc' = "over" /\ out' = "KB_ERROR"
      /\ topK' = topK /\ embedded' = embedded /\ l \in Asked
  BY DEF LegFails, Over
<1>2. Failed \in [state : {"none", "failed", "ranked"}, ranking : Seq(Int)]
      /\ Failed.ranking = <<>>
  BY NoAnswer DEF Failed
<1>3. Answer(<<>>)
  <2>1. Depth(topK) \in Nat
    BY DepthIs DEF Searching
  <2>2. PICK s : s = <<>>
    OBVIOUS
  <2>3. s \in Seq(Int) /\ IsInjective(s) /\ Range(s) \subseteq Chunks /\ Len(s) <= Depth(topK)
    BY <2>1, <2>2, NoAnswer
  <2> QED
    BY <2>2, <2>3 DEF Answer
<1>4. /\ legs' \in [{Lexical, Semantic} -> [state : {"none", "failed", "ranked"}, ranking : Seq(Int)]]
      /\ legs'[l] = Failed /\ \A m \in {Lexical, Semantic} : m # l => legs'[m] = legs[m]
  BY <1>1, <1>2 DEF Searching
<1>5. \A m \in {Lexical, Semantic} : /\ Answer(legs'[m].ranking)
                                     /\ legs'[m].state # "ranked" => legs'[m].ranking = <<>>
  BY <1>2, <1>3, <1>4, ZenonT(60) DEF Searching
<1>6. ~ embedded' => legs'[Semantic] = Pending
  BY <1>1, <1>4 DEF Asked, Searching, Lexical, Semantic
<1>7. Asked' = Asked /\ ~ Found'
  BY <1>1 DEF Asked, Found
<1>8. \A t : Answer(t)' <=> Answer(t)
  BY <1>1 DEF Answer, Depth
<1> QED
  BY <1>1, <1>4, <1>5, <1>6, <1>7, <1>8 DEF Searching

LEMMA SearchStep == Searching /\ [Next]_vars => Searching'
<1> SUFFICES ASSUME Searching, [Next]_vars PROVE Searching'
  OBVIOUS
<1>1. CASE Refuse
  BY <1>1, QuietStep DEF Refuse, Over, Searching
<1>2. CASE Begin
  <2>1. pc' \in {"new", "embedding", "searching", "over"}
    BY <1>2 DEF Begin, Degrade
  <2> QED
    BY <1>2, <2>1, QuietStep DEF Begin, Degrade, Searching
<1>3. CASE EmbeddingArrives
  BY <1>3, QuietStep DEF EmbeddingArrives, Searching
<1>4. CASE EmbeddingRefused
  BY <1>4, QuietStep DEF EmbeddingRefused, Degrade, Searching
<1>5. CASE EmbeddingFails
  <2>1. pc' \in {"embedding", "searching"} /\ out' = out /\ pc = "embedding"
        /\ embedded' = embedded /\ UNCHANGED <<topK, legs>>
    BY <1>5 DEF EmbeddingFails, Degrade
  <2> QED
    BY <2>1, QuietStep DEF Searching
<1>6. CASE EmbeddingUnreadable
  BY <1>6, QuietStep DEF EmbeddingUnreadable, Over, Searching
<1>7. CASE \E l \in {Lexical, Semantic} : LegAnswers(l) \/ LegFails(l)
  BY <1>7, LegAnswersStep, LegFailsStep
<1>8. CASE UNCHANGED vars
  BY <1>8 DEF vars, Searching, Answer, Depth, Found, Outcome, Fused, Asked
<1> QED
  BY <1>1, <1>2, <1>3, <1>4, <1>5, <1>6, <1>7, <1>8 DEF Next

LEMMA SearchAlways == Spec => []Searching
  BY SearchInit, SearchStep, PTL DEF Spec

\* What became of the embedding: a search has its vector, or has given it up, as soon as it
\* asks a leg, and one that has given it up ends as its leg does.
Fate ==
  /\ pc # "over" => out = "none"
  /\ embedded => ~ gaveUp /\ pc \in {"searching", "over"}
  /\ gaveUp => pc \in {"searching", "over"}
  /\ pc = "searching" => embedded \/ gaveUp
  /\ pc = "over" /\ gaveUp => out \in {"fts_only", "KB_ERROR"}
  /\ out = "fts_only" => gaveUp

LEMMA FateInit == Init => Fate
BY DEF Init, Fate

LEMMA FateStep == Fate /\ [Next]_vars => Fate'
<1> SUFFICES ASSUME Fate, [Next]_vars PROVE Fate'
  OBVIOUS
<1>1. CASE Refuse
  BY <1>1 DEF Refuse, Over, Fate
<1>2. CASE Begin
  BY <1>2 DEF Begin, Degrade, Fate
<1>3. CASE EmbeddingArrives
  BY <1>3 DEF EmbeddingArrives, Fate
<1>4. CASE EmbeddingRefused
  BY <1>4 DEF EmbeddingRefused, Degrade, Fate
<1>5. CASE EmbeddingFails
  <2>1. CASE try < Attempts
    BY <1>5, <2>1 DEF EmbeddingFails, Fate
  <2>2. CASE ~ (try < Attempts)
    BY <1>5, <2>2 DEF EmbeddingFails, Degrade, Fate
  <2> QED
    BY <2>1, <2>2
<1>6. CASE EmbeddingUnreadable
  BY <1>6 DEF EmbeddingUnreadable, Over, Fate
<1>7. ASSUME NEW l \in {Lexical, Semantic}, LegAnswers(l)
      PROVE  Fate'
  <2>1. /\ pc = "searching" /\ UNCHANGED <<embedded, gaveUp>>
        /\ \/ pc' = "over" /\ out' = Outcome
           \/ UNCHANGED <<pc, out>>
    BY <1>7 DEF LegAnswers, Over
  <2> QED
    BY <2>1 DEF Fate, Outcome
<1>8. ASSUME NEW l \in {Lexical, Semantic}, LegFails(l)
      PROVE  Fate'
  BY <1>8 DEF LegFails, Over, Fate
<1>9. CASE UNCHANGED vars
  BY <1>9 DEF vars, Fate
<1> QED
  BY <1>1, <1>2, <1>3, <1>4, <1>5, <1>6, <1>7, <1>8, <1>9 DEF Next

LEMMA FateAlways == Spec => []Fate
  BY FateInit, FateStep, PTL DEF Spec

-----------------------------------------------------------------------------
(* What a search returns.                                                  *)

LEMMA FoundLegs ==
  ASSUME Searching, Found, NEW lex, NEW sem,
         lex = legs[Lexical].ranking, sem = legs[Semantic].ranking
  PROVE  /\ Answer(lex) /\ Answer(sem) /\ Legs(lex, sem)
         /\ Len(lex) <= RrfK + 1 /\ Len(sem) <= RrfK + 1
<1>1. Answer(lex) /\ Answer(sem)
  BY DEF Searching
<1>2. Depth(topK) \in Nat /\ Depth(topK) <= RrfK + 1 /\ RrfK \in Nat
  BY DepthIs, RankAssumption DEF Searching
<1>3. Len(lex) \in Nat /\ Len(sem) \in Nat
  BY <1>1, LenProperties DEF Answer
<1>4. Hits(lex, sem) \subseteq Chunks
  BY <1>1 DEF Hits, Answer
<1>5. IsFiniteSet(Chunks) /\ Chunks \subseteq Int
  BY SearchAssumption
<1>6. IsFiniteSet(Hits(lex, sem))
  BY <1>4, <1>5, FS_Subset
<1>7. Len(lex) <= Depth(topK) /\ Len(sem) <= Depth(topK)
  BY <1>1 DEF Answer
<1>8. Len(lex) <= RrfK + 1 /\ Len(sem) <= RrfK + 1
  BY <1>2, <1>3, <1>7
<1>9. Legs(lex, sem)
  BY <1>1, <1>4, <1>5, <1>6 DEF Legs, Answer
<1> QED
  BY <1>1, <1>8, <1>9

\* The top of an order.
LEMMA TopIs ==
  ASSUME NEW order \in Seq(Int), NEW k \in Nat, NEW top,
         top = SubSeq(order, 1, IF Len(order) < k THEN Len(order) ELSE k)
  PROVE  IsPrefix(top, order) /\ Len(top) = IF Len(order) < k THEN Len(order) ELSE k
<1>1. PICK n \in Nat : n = Len(order)
  BY LenProperties
<1>2. PICK m \in 0..n : m = (IF n < k THEN n ELSE k)
  OBVIOUS
<1>3. top = SubSeq(order, 1, m)
  BY <1>1, <1>2
<1>4. Len(top) = m
  <2>1. Len(SubSeq(order, 1, m)) = IF 1 <= m THEN m - 1 + 1 ELSE 0
    BY <1>1, <1>2, SubSeqProperties
  <2> QED
    BY <1>2, <1>3, <2>1
<1>5. SubSeq(top, 1, m) = top
  <2>1. top \in Seq(Int) /\ m <= Len(top)
    BY <1>1, <1>2, <1>3, <1>4, SubSeqProperties
  <2>2. /\ SubSeq(top, 1, m) \in Seq(Int) /\ Len(SubSeq(top, 1, m)) = m
        /\ \A i \in 1..m : SubSeq(top, 1, m)[i] = top[i]
    BY <1>2, <2>1, SubSeqProperties, SMTT(60)
  <2> QED
    BY <1>4, <2>1, <2>2, SeqEqual
<1> QED
  BY <1>1, <1>2, <1>3, <1>4, <1>5 DEF IsPrefix

\* The results are the top of an order in which a chunk that both legs found comes before one
\* that one leg found, and one that no leg ranks lower, and some leg higher, before the
\* other: for every set of chunks, every ranking of the legs and every top_k whose depth is
\* at most RRF_K + 1.
THEOREM AgreementAlwaysWins == Spec => []AgreementWins
<1>1. Searching => AgreementWins
  <2> SUFFICES ASSUME Searching, Found PROVE AgreementWins
    BY DEF AgreementWins
  <2>1. PICK lex, sem : lex = legs[Lexical].ranking /\ sem = legs[Semantic].ranking
    OBVIOUS
  <2>2. /\ Answer(lex) /\ Answer(sem) /\ Legs(lex, sem)
        /\ Len(lex) <= RrfK + 1 /\ Len(sem) <= RrfK + 1
    BY <2>1, FoundLegs
  <2>3. lex \in Seq(Int) /\ sem \in Seq(Int)
    BY <2>2 DEF Answer
  <2>4. PICK d \in Nat, k \in Nat : d = Depth(topK) /\ k = topK
    BY DepthIs DEF Searching
  <2>5. PICK order \in Seq(Int) : order = Fuse(lex, sem)
    BY <2>2, FuseRanks
  <2>6. PICK hits : hits = Hits(lex, sem)
    OBVIOUS
  <2>7. /\ Len(order) = Cardinality(hits) /\ Range(order) = hits /\ IsInjective(order)
        /\ \A x, y \in hits : Before(lex, sem, x, y) => RankIn(order, x) < RankIn(order, y)
    BY <2>2, <2>5, <2>6, FuseRanks
  <2>8. ASSUME NEW x \in hits, NEW y \in hits,
               x \in Range(lex) \cap Range(sem), y \notin Range(lex) \cap Range(sem)
        PROVE  Before(lex, sem, x, y)
    BY <2>2, <2>3, <2>6, <2>8, AgreementOutranks DEF Before, Hits
  <2>9. ASSUME NEW x \in hits, NEW y \in hits,
               At(lex, d, x) <= At(lex, d, y), At(sem, d, x) <= At(sem, d, y),
               <<At(lex, d, x), At(sem, d, x)>> # <<At(lex, d, y), At(sem, d, y)>>
        PROVE  Before(lex, sem, x, y)
    <3>1. \A leg, z : leg \in Seq(Int) => At(leg, d, z) \in Nat
      <4> SUFFICES ASSUME NEW leg \in Seq(Int), NEW z PROVE At(leg, d, z) \in Nat
        OBVIOUS
      <4>1. z \in Range(leg) => RankIn(leg, z) \in Nat
        BY RankInLeg
      <4> QED
        BY <4>1 DEF At
    <3>2. At(lex, d, x) < At(lex, d, y) \/ At(sem, d, x) < At(sem, d, y)
      BY <2>3, <2>9, <3>1
    <3>3. Len(lex) <= d /\ Len(sem) <= d
      BY <2>2, <2>4 DEF Answer
    <3> QED
      BY <2>3, <2>9, <3>2, <3>3, BetterIsBefore
  <2>10. IsPrefix(results, order) /\ Len(results) = IF Len(order) < k THEN Len(order) ELSE k
    <3>1. results = SubSeq(order, 1, IF Len(order) < k THEN Len(order) ELSE k)
      BY <2>1, <2>4, <2>5 DEF Searching, Fused
    <3> QED
      BY <3>1, TopIs
  <2>11. Found => /\ Range(order) = hits /\ IsInjective(order)
                  /\ \A x, y \in hits :
                       \/ x \in Range(lex) \cap Range(sem) /\ y \notin Range(lex) \cap Range(sem)
                       \/ /\ At(lex, d, x) <= At(lex, d, y) /\ At(sem, d, x) <= At(sem, d, y)
                          /\ <<At(lex, d, x), At(sem, d, x)>> # <<At(lex, d, y), At(sem, d, y)>>
                       => RankIn(order, x) < RankIn(order, y)
                  /\ IsPrefix(results, order)
                  /\ Len(results) = IF Cardinality(hits) < k THEN Cardinality(hits) ELSE k
    BY <2>7, <2>8, <2>9, <2>10
  <2> QED
    BY <2>1, <2>4, <2>5, <2>6, <2>11, SMTT(60) DEF AgreementWins, At
<1> QED
  BY <1>1, SearchAlways, PTL

\* A search that got no vector ends as its lexical leg does, flagged; an error means that a
\* leg failed, the flag that the results are the lexical ranking as it was, and its absence
\* that both legs answered, whatever OpenAI and Postgres do and in whatever order the legs
\* answer (embed_query, hybrid_search, run_kb_search).
THEOREM DegradedIsFlagged == Spec => []DegradesHonestly
<1>1. Searching /\ Fate => DegradesHonestly
  <2> SUFFICES ASSUME Searching, Fate PROVE DegradesHonestly
    OBVIOUS
  <2>1. out = "ok" => \A l \in {Lexical, Semantic} : legs[l].state = "ranked"
    BY DEF Searching, Found, Outcome, Asked
  <2>2. ASSUME out = "fts_only"
        PROVE  legs[Semantic] = Pending /\ IsPrefix(results, legs[Lexical].ranking)
    <3>1. ~ embedded /\ legs[Semantic] = Pending /\ results = Fused(legs)
      BY <2>2 DEF Searching, Found, Outcome
    <3>2. PICK lex, sem : lex = legs[Lexical].ranking /\ sem = legs[Semantic].ranking
      OBVIOUS
    <3>3. sem = <<>> /\ lex \in Seq(Int) /\ IsInjective(lex)
      BY <3>1, <3>2 DEF Searching, Answer, Pending
    <3>4. Fuse(lex, sem) = lex
      BY <3>3, FuseOne
    <3>5. PICK k \in Nat : k = topK
      BY DepthIs DEF Searching
    <3>6. results = SubSeq(lex, 1, IF Len(lex) < k THEN Len(lex) ELSE k)
      BY <3>1, <3>2, <3>4, <3>5 DEF Fused
    <3>7. IsPrefix(results, lex)
      BY <3>3, <3>6, TopIs
    <3> QED
      BY <3>1, <3>2, <3>7
  <2>3. out = "KB_ERROR" => \E l \in Asked : legs[l] = Failed
    BY DEF Searching
  <2>4. ASSUME gaveUp, pc = "over"
        PROVE  out = (IF legs[Lexical] = Failed THEN "KB_ERROR" ELSE "fts_only")
    <3>1. ~ embedded /\ out \in {"fts_only", "KB_ERROR"} /\ Asked = {Lexical}
      BY <2>4 DEF Fate, Asked
    <3>2. out = "fts_only" => legs[Lexical].state = "ranked"
      BY <3>1 DEF Searching, Found
    <3>3. out = "KB_ERROR" => legs[Lexical] = Failed
      BY <2>3, <3>1
    <3>4. Failed.state = "failed"
      BY DEF Failed
    <3> QED
      BY <3>1, <3>2, <3>3, <3>4
  <2>5. out = "fts_only" => gaveUp
    BY DEF Fate
  <2> QED
    BY <2>1, <2>2, <2>3, <2>4, <2>5 DEF DegradesHonestly
<1> QED
  BY <1>1, SearchAlways, FateAlways, PTL
=============================================================================
