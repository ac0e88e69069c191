------------------------- MODULE Transcript_proofs -------------------------
(* What the operators on turns compute, for every transcript: the messages one turn   *)
(* adds to, which of them the API accepts, that curation keeps their shape, what the  *)
(* newest user text is and what depends on it.                                        *)
EXTENDS Transcript, SequenceTheorems, FiniteSetTheorems, TLAPS

-----------------------------------------------------------------------------
(* Going through a sequence.  What is true of a length is a set of numbers, so that *)
(* induction needs no operator.                                                     *)

LEMMA Climb ==
  ASSUME NEW n \in Nat, NEW S, 0 \in S, \A k \in 1..n : k - 1 \in S => k \in S
  PROVE  0..n \subseteq S
<1> DEFINE Missing == (0..n) \ S
           T == {0..m : m \in Missing}
<1> SUFFICES ASSUME Missing # {}
             PROVE  FALSE
  OBVIOUS
<1>1. T \subseteq FiniteSubsetsOf(Nat) /\ T # {}
  <2>1. \A m \in Missing : IsFiniteSet(0..m) /\ 0..m \subseteq Nat
    BY FS_Interval
  <2> QED
    BY <2>1 DEF FiniteSubsetsOf
<1>2. IsWellFoundedOn(StrictSubsetOrdering(Nat), FiniteSubsetsOf(Nat))
  BY FS_StrictSubsetOrderingWellFounded
<1>3. PICK x \in T : \A y \in T : ~ (<<y, x>> \in StrictSubsetOrdering(Nat))
  <2> HIDE DEF T
  <2> QED
    BY <1>1, <1>2, WFMin
<1>4. PICK m \in Missing : x = 0..m
  OBVIOUS
<1>5. m \in 1..n /\ m - 1 \notin S
  OBVIOUS
<1>6. m - 1 \in Missing
  BY <1>5
<1>7. 0..(m - 1) \subseteq 0..m /\ 0..(m - 1) # 0..m /\ 0..(m - 1) \in T
      /\ 0..(m - 1) \in SUBSET Nat /\ 0..m \in SUBSET Nat
  <2>1. m \in 0..m /\ m \notin 0..(m - 1)
    BY <1>5
  <2> QED
    BY <1>5, <1>6, <2>1
<1> QED
  BY <1>3, <1>4, <1>7 DEF StrictSubsetOrdering

\* A value that is carried along, and changed at every place.
Carried(T, first, step, n, b) ==
  b \in [0..n -> T] /\ b[0] = first /\ \A k \in 1..n : b[k] = step[k][b[k - 1]]

LEMMA CarriedAlong ==
  ASSUME NEW T, NEW first \in T, NEW n \in Nat, NEW step \in [1..n -> [T -> T]]
  PROVE  \E b : Carried(T, first, step, n, b)
<1> DEFINE S == {m \in 0..n : \E b : Carried(T, first, step, m, b)}
<1>1. 0 \in S
  <2>1. Carried(T, first, step, 0, [k \in 0..0 |-> first])
    BY DEF Carried
  <2> QED
    BY <2>1
<1>2. ASSUME NEW m \in 1..n, m - 1 \in S
      PROVE  m \in S
  <2>1. PICK b : Carried(T, first, step, m - 1, b)
    BY <1>2
  <2>2. b \in [0..(m - 1) -> T] /\ b[m - 1] \in T /\ step[m] \in [T -> T]
    BY <2>1 DEF Carried
  <2>3. step[m][b[m - 1]] \in T
    BY <2>2
  <2>4. PICK c : c = [k \in 0..m |-> IF k = m THEN step[m][b[m - 1]] ELSE b[k]]
    OBVIOUS
  <2>5. c \in [0..m -> T]
    BY <2>2, <2>3, <2>4
  <2>6. c[0] = first /\ \A k \in 1..m : c[k] = step[k][c[k - 1]]
    <3>1. b[0] = first /\ \A k \in 1..m - 1 : b[k] = step[k][b[k - 1]]
      BY <2>1 DEF Carried
    <3>2. c[m] = step[m][b[m - 1]] /\ \A k \in 0..m - 1 : c[k] = b[k]
      BY <2>4
    <3>3. /\ 0 \in 0..m - 1
          /\ \A k \in 1..m : k - 1 \in 0..m - 1
          /\ \A k \in 1..m : k = m \/ (k \in 1..m - 1 /\ k \in 0..m - 1)
      BY ONLY n \in Nat, m \in 1..n
    <3>4. \A k \in 1..m : c[k] = step[k][c[k - 1]]
      BY <3>1, <3>2, <3>3, Zenon
    <3> QED
      BY <3>1, <3>2, <3>3, <3>4, Zenon
  <2>7. Carried(T, first, step, m, c)
    BY <2>5, <2>6 DEF Carried
  <2> QED
    BY <2>7
<1>3. 0..n \subseteq S
  <2> HIDE DEF S
  <2> QED
    BY <1>1, <1>2, Climb, ZenonT(20), SMTT(60)
<1> QED
  BY <1>3

\* x and y are alike over S.
AgreeOn(x, y, S) == \A k \in S : x[k] = y[k]

\* What is carried along depends on the changes so far only.
LEMMA CarriedAlike ==
  ASSUME NEW T, NEW first, NEW n \in Nat, NEW m \in 0..n, NEW f, NEW g,
         NEW step, NEW other, AgreeOn(step, other, 1..m),
         Carried(T, first, step, m, f), Carried(T, first, other, n, g)
  PROVE  AgreeOn(f, g, 0..m)
<1> DEFINE S == {k \in 0..m : f[k] = g[k]}
<1>1. 0 \in S
  BY DEF Carried
<1>2. ASSUME NEW k \in 1..m, k - 1 \in S
      PROVE  k \in S
  BY <1>2 DEF Carried, AgreeOn
<1>3. 0..m \subseteq S
  <2> HIDE DEF S
  <2>1. m \in Nat
    OBVIOUS
  <2> QED
    BY <1>1, <1>2, <2>1, Climb, ZenonT(60)
<1> QED
  BY <1>3 DEF AgreeOn

-----------------------------------------------------------------------------
(* Blocks picked by their type.                                            *)

KeepOne(types, block, s) == IF block.type \in types THEN Append(s, block) ELSE s

\* The blocks kept of the first so many.
Kept(blocks, types, b) ==
  /\ b \in [0..Len(blocks) -> Seq(Block)] /\ b[0] = <<>>
  /\ \A k \in 1..Len(blocks) : b[k] = KeepOne(types, blocks[k], b[k - 1])

LEMMA OfTypesIs ==
  ASSUME NEW blocks \in Seq(Block), NEW types
  PROVE  \E b : Kept(blocks, types, b) /\ OfTypes(blocks, types) = b[Len(blocks)]
<1> DEFINE n == Len(blocks)
           F(e, b) == [k \in 0..n |-> IF k = 0 THEN e ELSE KeepOne(types, blocks[k], b[k - 1])]
           step == [k \in 1..n |-> [s \in Seq(Block) |-> KeepOne(types, blocks[k], s)]]
<1>1. n \in Nat /\ \A k \in 1..n : blocks[k] \in Block
  BY LenProperties, ElementOfSeq
<1>2. \A k \in 1..n : \A s \in Seq(Block) : KeepOne(types, blocks[k], s) \in Seq(Block)
  BY <1>1, AppendProperties DEF KeepOne
<1>3. step \in [1..n -> [Seq(Block) -> Seq(Block)]]
  BY <1>2
<1>4. PICK e \in Seq(Block) : e = <<>>
  BY EmptySeq
<1>5. PICK b : Carried(Seq(Block), e, step, n, b)
  <2> HIDE DEF step, n
  <2> QED
    BY <1>1, <1>3, CarriedAlong
<1>6. b = F(e, b)
  <2>1. b \in [0..n -> Seq(Block)] /\ b[0] = e
    BY <1>5 DEF Carried
  <2>2. ASSUME NEW k \in 1..n
        PROVE  b[k] = KeepOne(types, blocks[k], b[k - 1])
    <3>1. b[k - 1] \in Seq(Block)
      BY <1>1, <2>1, SMTT(60)
    <3>2. b[k] = step[k][b[k - 1]]
      BY <1>5 DEF Carried
    <3> QED
      BY <3>1, <3>2
  <2>3. \A k \in 0..n : b[k] = IF k = 0 THEN e ELSE KeepOne(types, blocks[k], b[k - 1])
    BY <1>1, <2>1, <2>2
  <2> QED
    BY <2>1, <2>3
<1>7. PICK h : h = F(e, h) /\ OfTypes(blocks, types) = h[n]
  <2>1. OfTypes(blocks, types) = (CHOOSE h : h = F(<<>>, h))[n]
    BY DEF OfTypes, KeepOne
  <2>2. OfTypes(blocks, types) = (CHOOSE h : h = F(e, h))[n]
    BY <1>4, <2>1
  <2> QED
    BY <1>6, <2>2
<1>8. h[0] = e /\ \A k \in 1..n : h[k] = KeepOne(types, blocks[k], h[k - 1])
  <2>1. n \in Nat
    BY <1>1
  <2>2. \A k \in 0..n : h[k] = F(e, h)[k]
    BY <1>7
  <2>3. \A k \in 0..n : h[k] = IF k = 0 THEN e ELSE KeepOne(types, blocks[k], h[k - 1])
    <3> HIDE DEF n
    <3> QED
      BY ONLY <2>2
  <2> HIDE DEF n, F
  <2> QED
    BY ONLY <2>1, <2>3
<1>9. \A k \in 0..n : h[k] \in Seq(Block)
  <2> DEFINE S == {k \in 0..n : h[k] \in Seq(Block)}
  <2>1. 0 \in S
    BY <1>1, <1>8
  <2>2. ASSUME NEW k \in 1..n, k - 1 \in S
        PROVE  k \in S
    <3>1. h[k - 1] \in Seq(Block) /\ h[k] = KeepOne(types, blocks[k], h[k - 1])
      BY <1>8, <2>2
    <3>2. KeepOne(types, blocks[k], h[k - 1]) \in Seq(Block)
      BY <1>2, <3>1
    <3> QED
      BY <3>1, <3>2
  <2>3. 0..n \subseteq S
    <3> HIDE DEF S, n, F
    <3> QED
      BY <1>1, <2>1, <2>2, Climb, ZenonT(20), SMTT(60)
  <2> QED
    BY <2>3
<1>10. h \in [0..n -> Seq(Block)]
  <2>1. DOMAIN h = 0..n /\ h = [k \in 0..n |-> h[k]]
    BY <1>7
  <2> QED
    BY <1>9, <2>1
<1> QED
  BY <1>4, <1>7, <1>8, <1>10 DEF Kept

\* s holds those of the first m blocks that are of the types, and no others.
Picks(blocks, types, m, s) ==
  /\ \A j \in 1..Len(s) : s[j].type \in types /\ \E k \in 1..m : s[j] = blocks[k]
  /\ \A k \in 1..m : blocks[k].type \in types => \E j \in 1..Len(s) : s[j] = blocks[k]

LEMMA KeepOnePicks ==
  ASSUME NEW blocks \in Seq(Block), NEW types, NEW m \in 1..Len(blocks), NEW s \in Seq(Block),
         Picks(blocks, types, m - 1, s)
  PROVE  Picks(blocks, types, m, KeepOne(types, blocks[m], s))
<1>1. blocks[m] \in Block /\ m \in Nat /\ Len(s) \in Nat
  BY LenProperties, ElementOfSeq
<1>2. CASE blocks[m].type \in types
  <2>1. PICK r : r = Append(s, blocks[m])
    OBVIOUS
  <2>2. /\ Len(r) = Len(s) + 1 /\ r[Len(s) + 1] = blocks[m]
        /\ \A j \in 1..Len(s) : r[j] = s[j]
    BY <1>1, <2>1, AppendProperties
  <2>3. ASSUME NEW j \in 1..Len(r)
        PROVE  r[j].type \in types /\ \E k \in 1..m : r[j] = blocks[k]
    <3>1. CASE j = Len(s) + 1
      BY <1>1, <1>2, <2>2, <3>1
    <3>2. CASE j \in 1..Len(s)
      <4>1. s[j].type \in types /\ \E k \in 1..m - 1 : s[j] = blocks[k]
        BY <3>2, Zenon DEF Picks
      <4>2. r[j] = s[j] /\ 1..m - 1 \subseteq 1..m
        BY <1>1, <2>2, <3>2
      <4> QED
        BY <4>1, <4>2, Zenon
    <3> QED
      BY <1>1, <2>2, <3>1, <3>2
  <2>4. ASSUME NEW k \in 1..m, blocks[k].type \in types
        PROVE  \E j \in 1..Len(r) : r[j] = blocks[k]
    <3>1. CASE k = m
      BY <1>1, <2>2, <3>1
    <3>2. CASE k \in 1..(m - 1)
      <4>1. PICK j \in 1..Len(s) : s[j] = blocks[k]
        BY <2>4, <3>2 DEF Picks
      <4> QED
        BY <1>1, <2>2, <4>1
    <3> QED
      BY <1>1, <3>1, <3>2
  <2>5. Picks(blocks, types, m, r)
    BY <2>3, <2>4 DEF Picks
  <2> QED
    BY <1>2, <2>1, <2>5 DEF KeepOne
<1>3. CASE blocks[m].type \notin types
  <2>1. KeepOne(types, blocks[m], s) = s
    BY <1>3 DEF KeepOne
  <2>2. Picks(blocks, types, m, s)
    <3>1. ASSUME NEW j \in 1..Len(s)
          PROVE  s[j].type \in types /\ \E k \in 1..m : s[j] = blocks[k]
      <4>1. s[j].type \in types /\ \E k \in 1..m - 1 : s[j] = blocks[k]
        BY DEF Picks
      <4>2. PICK k \in 1..m - 1 : s[j] = blocks[k]
        BY <4>1
      <4>3. k \in 1..m
        BY <1>1
      <4> QED
        BY <4>1, <4>2, <4>3
    <3>2. ASSUME NEW k \in 1..m, blocks[k].type \in types
          PROVE  \E j \in 1..Len(s) : s[j] = blocks[k]
      <4>1. k \in 1..(m - 1)
        BY <1>1, <1>3, <3>2
      <4> QED
        BY <3>2, <4>1 DEF Picks
    <3> QED
      BY <3>1, <3>2 DEF Picks
  <2> QED
    BY <2>1, <2>2
<1> QED
  BY <1>2, <1>3

LEMMA OfTypesPicks ==
  ASSUME NEW blocks \in Seq(Block), NEW types
  PROVE  /\ OfTypes(blocks, types) \in Seq(Block)
         /\ Picks(blocks, types, Len(blocks), OfTypes(blocks, types))
<1>1. PICK b : Kept(blocks, types, b) /\ OfTypes(blocks, types) = b[Len(blocks)]
  BY OfTypesIs
<1>2. Len(blocks) \in Nat
  BY LenProperties
<1> DEFINE S == {m \in 0..Len(blocks) : Picks(blocks, types, m, b[m])}
<1>3. 0 \in S
  <2>1. b[0] = <<>> /\ Len(b[0]) = 0
    BY <1>1, EmptySeq DEF Kept
  <2> QED
    BY <1>2, <2>1 DEF Picks
<1>4. ASSUME NEW m \in 1..Len(blocks), m - 1 \in S
      PROVE  m \in S
  <2>1. b[m - 1] \in Seq(Block) /\ b[m] = KeepOne(types, blocks[m], b[m - 1])
    <3>1. m - 1 \in 0..Len(blocks)
      BY <1>2
    <3> QED
      BY <1>1, <3>1 DEF Kept
  <2>2. Picks(blocks, types, m, b[m])
    BY <1>4, <2>1, KeepOnePicks
  <2> QED
    BY <1>2, <2>2
<1>5. 0..Len(blocks) \subseteq S
  <2> HIDE DEF S
  <2> QED
    BY <1>2, <1>3, <1>4, Climb, ZenonT(20), SMTT(60)
<1>6. b[Len(blocks)] \in Seq(Block)
  BY <1>1, <1>2 DEF Kept
<1> QED
  BY <1>1, <1>2, <1>5, <1>6

\* Blocks that differ in their payloads only.
SameBlocks(x, y) ==
  Len(x) = Len(y) /\ \A k \in 1..Len(x) : x[k].type = y[k].type /\ x[k].id = y[k].id

LEMMA OfTypesSame ==
  ASSUME NEW x \in Seq(Block), NEW y \in Seq(Block), NEW types, SameBlocks(x, y)
  PROVE  SameBlocks(OfTypes(x, types), OfTypes(y, types))
<1>1. PICK b : Kept(x, types, b) /\ OfTypes(x, types) = b[Len(x)]
  BY OfTypesIs
<1>2. PICK c : Kept(y, types, c) /\ OfTypes(y, types) = c[Len(y)]
  BY OfTypesIs
<1>3. Len(x) \in Nat /\ Len(y) = Len(x)
  BY LenProperties DEF SameBlocks
<1> DEFINE S == {m \in 0..Len(x) : SameBlocks(b[m], c[m])}
<1>4. 0 \in S
  <2>1. b[0] = <<>> /\ c[0] = <<>> /\ Len(b[0]) = 0
    BY <1>1, <1>2, EmptySeq DEF Kept
  <2> QED
    BY <1>3, <2>1 DEF SameBlocks
<1>5. ASSUME NEW m \in 1..Len(x), m - 1 \in S
      PROVE  m \in S
  <2>0. b[m - 1] \in Seq(Block) /\ c[m - 1] \in Seq(Block)
    <3>1. m - 1 \in 0..Len(x) /\ m - 1 \in 0..Len(y)
      BY <1>3
    <3> QED
      BY <1>1, <1>2, <3>1 DEF Kept
  <2>1. PICK p \in Seq(Block), q \in Seq(Block) : p = b[m - 1] /\ q = c[m - 1]
    BY <2>0
  <2>2. b[m] = KeepOne(types, x[m], p) /\ c[m] = KeepOne(types, y[m], q)
    BY <1>1, <1>2, <1>3, <2>1 DEF Kept
  <2>3. SameBlocks(p, q) /\ x[m].type = y[m].type /\ x[m].id = y[m].id
    BY <1>5, <2>1 DEF SameBlocks
  <2>4. x[m] \in Block /\ y[m] \in Block
    BY <1>3, ElementOfSeq
  <2>5. SameBlocks(Append(p, x[m]), Append(q, y[m]))
    <3>1. /\ Len(Append(p, x[m])) = Len(p) + 1 /\ Append(p, x[m])[Len(p) + 1] = x[m]
          /\ \A k \in 1..Len(p) : Append(p, x[m])[k] = p[k]
          /\ Len(p) \in Nat
      BY <2>4, AppendProperties, LenProperties
    <3>2. /\ Len(Append(q, y[m])) = Len(q) + 1 /\ Append(q, y[m])[Len(q) + 1] = y[m]
          /\ \A k \in 1..Len(q) : Append(q, y[m])[k] = q[k]
      BY <2>4, AppendProperties
    <3> QED
      BY <2>3, <3>1, <3>2, SMTT(60) DEF SameBlocks
  <2>6. SameBlocks(b[m], c[m])
    BY <2>2, <2>3, <2>5 DEF KeepOne
  <2> QED
    BY <1>3, <2>6
<1>6. 0..Len(x) \subseteq S
  <2> HIDE DEF S
  <2> QED
    BY <1>3, <1>4, <1>5, Climb, ZenonT(20), SMTT(60)
<1> QED
  BY <1>1, <1>2, <1>3, <1>6

LEMMA SameBlocksConcat ==
  ASSUME NEW p \in Seq(Block), NEW q \in Seq(Block), NEW r \in Seq(Block), NEW s \in Seq(Block),
         SameBlocks(p, q), SameBlocks(r, s)
  PROVE  SameBlocks(p \o r, q \o s)
<1>1. /\ Len(p \o r) = Len(p) + Len(r) /\ Len(p) \in Nat /\ Len(r) \in Nat
      /\ \A i \in 1..Len(p) + Len(r) : (p \o r)[i] = IF i <= Len(p) THEN p[i] ELSE r[i - Len(p)]
  BY ConcatProperties, LenProperties
<1>2. /\ Len(q \o s) = Len(q) + Len(s) /\ Len(q) = Len(p) /\ Len(s) = Len(r)
      /\ \A i \in 1..Len(q) + Len(s) : (q \o s)[i] = IF i <= Len(q) THEN q[i] ELSE s[i - Len(q)]
  BY ConcatProperties, LenProperties DEF SameBlocks
<1>3. ASSUME NEW i \in 1..Len(p) + Len(r)
      PROVE  (p \o r)[i].type = (q \o s)[i].type /\ (p \o r)[i].id = (q \o s)[i].id
  <2>1. CASE i <= Len(p)
    <3>1. i \in 1..Len(p) /\ (p \o r)[i] = p[i] /\ (q \o s)[i] = q[i]
      BY <1>1, <1>2, <2>1
    <3> QED
      BY <3>1 DEF SameBlocks
  <2>2. CASE ~ (i <= Len(p))
    <3>1. i - Len(p) \in 1..Len(r) /\ (p \o r)[i] = r[i - Len(p)] /\ (q \o s)[i] = s[i - Len(p)]
      BY <1>1, <1>2, <2>2
    <3> QED
      BY <3>1 DEF SameBlocks
  <2> QED
    BY <2>1, <2>2
<1> QED
  BY <1>1, <1>2, <1>3 DEF SameBlocks

LEMMA ResultsFirstSame ==
  ASSUME NEW c \in Seq(Block), NEW d \in Seq(Block), SameBlocks(c, d)
  PROVE  SameBlocks(ResultsFirst[c], ResultsFirst[d])
<1>1. \A types : OfTypes(c, types) \in Seq(Block) /\ OfTypes(d, types) \in Seq(Block)
  BY OfTypesPicks
<1>2. \A types : SameBlocks(OfTypes(c, types), OfTypes(d, types))
  BY OfTypesSame
<1> QED
  BY <1>1, <1>2, SameBlocksConcat DEF ResultsFirst

\* The partition of a message keeps its blocks, and puts the results first.
LEMMA ResultsFirstKeeps ==
  ASSUME NEW c \in Seq(Block)
  PROVE  /\ ResultsFirst[c] \in Seq(Block) /\ LeadsWithResults(ResultsFirst[c])
         /\ \A i \in 1..Len(ResultsFirst[c]) : \E k \in 1..Len(c) : ResultsFirst[c][i] = c[k]
         /\ \A k \in 1..Len(c) : \E i \in 1..Len(ResultsFirst[c]) : ResultsFirst[c][i] = c[k]
<1> DEFINE first == {"tool_result"}
           rest == {"text", "tool_use"}
<1>1. PICK p \in Seq(Block), q \in Seq(Block) : p = OfTypes(c, first) /\ q = OfTypes(c, rest)
  <2>1. OfTypes(c, first) \in Seq(Block) /\ OfTypes(c, rest) \in Seq(Block)
    BY OfTypesPicks
  <2> QED
    BY <2>1
<1>2. Picks(c, first, Len(c), p) /\ Picks(c, rest, Len(c), q)
  BY <1>1, OfTypesPicks
<1>3. PICK r : r = p \o q
  OBVIOUS
<1>4. ResultsFirst[c] = r
  BY <1>1, <1>3 DEF ResultsFirst
<1>5. /\ r \in Seq(Block) /\ Len(r) = Len(p) + Len(q) /\ Len(p) \in Nat /\ Len(q) \in Nat
      /\ DOMAIN r = 1..Len(r)
      /\ \A i \in 1..Len(p) + Len(q) : r[i] = IF i <= Len(p) THEN p[i] ELSE q[i - Len(p)]
  BY <1>3, ConcatProperties, LenProperties
<1>6. \A i \in 1..Len(r) :
        \/ i \in 1..Len(p) /\ r[i] = p[i]
        \/ i - Len(p) \in 1..Len(q) /\ r[i] = q[i - Len(p)]
  BY <1>5
<1>7. LeadsWithResults(r)
  <2> SUFFICES ASSUME NEW i \in 1..Len(r), NEW j \in 1..Len(r), i < j, IsResult(r[j])
               PROVE  IsResult(r[i])
    BY <1>5 DEF LeadsWithResults
  <2>1. j \in 1..Len(p)
    <3>1. SUFFICES ASSUME j - Len(p) \in 1..Len(q), r[j] = q[j - Len(p)]
                   PROVE  FALSE
      BY <1>6
    <3>2. q[j - Len(p)].type \in rest
      BY <1>2, <3>1 DEF Picks
    <3> QED
      BY <3>1, <3>2 DEF IsResult
  <2>2. i \in 1..Len(p) /\ r[i] = p[i]
    <3>1. Len(p) \in Nat
      BY <1>5
    <3>2. ~ (i - Len(p) \in 1..Len(q))
      BY ONLY <2>1, <3>1, i \in 1..Len(r), j \in 1..Len(r), i < j
    <3> QED
      BY <1>6, <3>2
  <2>3. p[i].type \in first
    BY <1>2, <2>2 DEF Picks
  <2> QED
    BY <2>2, <2>3 DEF IsResult
<1>8. ASSUME NEW i \in 1..Len(r)
      PROVE  \E k \in 1..Len(c) : r[i] = c[k]
  <2>1. CASE i \in 1..Len(p) /\ r[i] = p[i]
    BY <1>2, <2>1 DEF Picks
  <2>2. CASE i - Len(p) \in 1..Len(q) /\ r[i] = q[i - Len(p)]
    <3>1. PICK j \in 1..Len(q) : r[i] = q[j]
      BY <2>2
    <3> QED
      BY <1>2, <3>1 DEF Picks
  <2> QED
    BY <1>6, <2>1, <2>2
<1>9. ASSUME NEW k \in 1..Len(c)
      PROVE  \E i \in 1..Len(r) : r[i] = c[k]
  <2>1. c[k] \in Block
    BY ElementOfSeq
  <2>2. CASE c[k].type \in first
    <3>1. PICK j \in 1..Len(p) : p[j] = c[k]
      BY <1>2, <2>2 DEF Picks
    <3> QED
      BY <1>5, <3>1, SMTT(60)
  <2>3. CASE c[k].type \in rest
    <3>1. PICK j \in 1..Len(q) : q[j] = c[k]
      BY <1>2, <2>3 DEF Picks
    <3>2. PICK i : i = Len(p) + j
      OBVIOUS
    <3>3. i \in 1..Len(p) + Len(q) /\ ~ (i <= Len(p)) /\ i - Len(p) = j
      BY <1>5, <3>2
    <3>4. i \in 1..Len(r) /\ r[i] = c[k]
      BY <1>5, <3>1, <3>3
    <3> QED
      BY <3>4
  <2> QED
    BY <2>1, <2>2, <2>3 DEF Block
<1> QED
  BY <1>4, <1>5, <1>7, <1>8, <1>9

-----------------------------------------------------------------------------
(* The messages array, one turn after the other.                           *)

\* The turn is merged into the last message, or starts one.
JoinedTo(ms, t, next) ==
  /\ Len(ms) > 0 /\ ms[Len(ms)].role = "user" /\ Role(t) = "user"
  /\ Len(next) = Len(ms) /\ \A k \in 1..Len(ms) - 1 : next[k] = ms[k]
  /\ next[Len(ms)].role = "user"
  /\ next[Len(ms)].content = ResultsFirst[ms[Len(ms)].content \o t.content]
StartedBy(ms, t, next) ==
  /\ Len(ms) > 0 => ~ (Role(t) = "user" /\ ms[Len(ms)].role = "user")
  /\ Len(next) = Len(ms) + 1 /\ \A k \in 1..Len(ms) : next[k] = ms[k]
  /\ next[Len(ms) + 1].role = Role(t) /\ next[Len(ms) + 1].content = t.content

LEMMA ExtendIs ==
  ASSUME NEW t \in Turn, NEW ms \in Seq(Message)
  PROVE  /\ Extend(t)[ms] \in Seq(Message)
         /\ JoinedTo(ms, t, Extend(t)[ms]) \/ StartedBy(ms, t, Extend(t)[ms])
<1>1. Len(ms) \in Nat /\ (ms # <<>> => Len(ms) > 0)
  BY EmptySeq, LenProperties
<1>2. t.content \in Seq(Block) /\ Role(t) \in {"user", "assistant"}
  BY DEF Turn, Role
<1>3. CASE Joins(ms, t)
  <2>1. ms # <<>> /\ Role(t) = "user" /\ ms[Len(ms)].role = "user"
    BY <1>3 DEF Joins, Last
  <2>2. ms[Len(ms)] \in Message /\ Len(ms) \in 1..Len(ms)
    BY <1>1, <2>1, ElementOfSeq
  <2>3. PICK c \in Seq(Block) : c = ms[Len(ms)].content \o t.content
    <3>1. ms[Len(ms)].content \in Seq(Block)
      BY <2>2 DEF Message
    <3> QED
      BY <1>2, <3>1, ConcatProperties
  <2>4. PICK last \in Message : last = [role |-> "user", content |-> ResultsFirst[c]]
    BY ResultsFirstKeeps DEF Message
  <2>5. PICK f : f = Front(ms)
    OBVIOUS
  <2>6. f \in Seq(Message) /\ Len(f) = Len(ms) - 1 /\ \A k \in 1..Len(ms) - 1 : f[k] = ms[k]
    <3>1. \A i \in 1..(Len(ms) - 1) : ms[i] \in Message
      BY <1>1, ElementOfSeq
    <3>2. PICK n \in Int : n = Len(ms) - 1
      BY <1>1
    <3>3. f = SubSeq(ms, 1, n) /\ n >= 0 /\ n - 1 + 1 = n /\ \A i \in 1..n : 1 + i - 1 = i
      BY <1>1, <2>1, <2>5, <3>2 DEF Front
    <3>4. /\ SubSeq(ms, 1, n) \in Seq(Message)
          /\ Len(SubSeq(ms, 1, n)) = IF 1 <= n THEN n - 1 + 1 ELSE 0
          /\ \A i \in 1..(n - 1 + 1) : SubSeq(ms, 1, n)[i] = ms[1 + i - 1]
      BY <3>1, <3>2, SubSeqProperties
    <3> QED
      BY <3>2, <3>3, <3>4
  <2>7. Extend(t)[ms] = Append(f, last)
    BY <1>3, <2>3, <2>4, <2>5 DEF Extend, Last
  <2>8. /\ Append(f, last) \in Seq(Message) /\ Len(Append(f, last)) = Len(ms)
        /\ \A k \in 1..Len(ms) - 1 : Append(f, last)[k] = ms[k]
        /\ Append(f, last)[Len(ms)] = last
    BY <1>1, <2>1, <2>6, AppendProperties
  <2>9. JoinedTo(ms, t, Append(f, last))
    BY <1>1, <2>1, <2>3, <2>4, <2>8 DEF JoinedTo
  <2> QED
    BY <2>7, <2>8, <2>9
<1>4. CASE ~ Joins(ms, t)
  <2>1. PICK m \in Message : m = [role |-> Role(t), content |-> t.content]
    BY <1>2 DEF Message
  <2>2. Extend(t)[ms] = Append(ms, m)
    BY <1>4, <2>1 DEF Extend
  <2>3. /\ Append(ms, m) \in Seq(Message) /\ Len(Append(ms, m)) = Len(ms) + 1
        /\ \A k \in 1..Len(ms) : Append(ms, m)[k] = ms[k]
        /\ Append(ms, m)[Len(ms) + 1] = m
    BY <1>1, AppendProperties
  <2>4. Len(ms) > 0 => ~ (Role(t) = "user" /\ ms[Len(ms)].role = "user")
    BY <1>4, EmptySeq DEF Joins, Last
  <2>5. StartedBy(ms, t, Append(ms, m))
    BY <2>1, <2>3, <2>4 DEF StartedBy
  <2> QED
    BY <2>2, <2>3, <2>5
<1> QED
  BY <1>3, <1>4

\* The messages of the first so many turns.
Built(turns, b) ==
  /\ b \in [0..Len(turns) -> Seq(Message)] /\ b[0] = <<>>
  /\ \A k \in 1..Len(turns) : b[k] = Extend(turns[k])[b[k - 1]]

LEMMA MessagesAre ==
  ASSUME NEW turns \in Seq(Turn)
  PROVE  \E b : Built(turns, b) /\ Messages[turns] = b[Len(turns)]
<1> DEFINE n == Len(turns)
           F(e, b) == [k \in 0..n |-> IF k = 0 THEN e ELSE Extend(turns[k])[b[k - 1]]]
           step == [k \in 1..n |-> Extend(turns[k])]
<1>1. n \in Nat /\ \A k \in 1..n : turns[k] \in Turn
  BY LenProperties, ElementOfSeq
<1>2. \A k \in 1..n : Extend(turns[k]) \in [Seq(Message) -> Seq(Message)]
  <2>1. \A t \in Turn : \A s \in Seq(Message) : Extend(t)[s] \in Seq(Message)
    BY ExtendIs
  <2>2. \A t \in Turn : DOMAIN Extend(t) = Seq(Message)
                        /\ Extend(t) = [s \in Seq(Message) |-> Extend(t)[s]]
    BY DEF Extend
  <2> QED
    BY <1>1, <2>1, <2>2
<1>3. step \in [1..n -> [Seq(Message) -> Seq(Message)]]
  BY <1>2
<1>4. PICK e \in Seq(Message) : e = <<>>
  BY EmptySeq
<1>5. PICK b : Carried(Seq(Message), e, step, n, b)
  <2> HIDE DEF step, n
  <2> QED
    BY <1>1, <1>3, <1>4, CarriedAlong
<1>6. b = F(e, b)
  <2>1. b \in [0..n -> Seq(Message)] /\ b[0] = e
    BY <1>5 DEF Carried
  <2>2. ASSUME NEW k \in 1..n
        PROVE  b[k] = Extend(turns[k])[b[k - 1]]
    BY <1>5 DEF Carried
  <2>3. \A k \in 0..n : b[k] = IF k = 0 THEN e ELSE Extend(turns[k])[b[k - 1]]
    BY <1>1, <2>1, <2>2
  <2> QED
    BY <2>1, <2>3
<1>7. PICK h : h = F(e, h) /\ Messages[turns] = h[n]
  <2>1. Messages[turns] = (CHOOSE h : h = F(<<>>, h))[n]
    BY DEF Messages
  <2>2. Messages[turns] = (CHOOSE h : h = F(e, h))[n]
    BY <1>4, <2>1
  <2> QED
    BY <1>6, <2>2
<1>8. h[0] = e /\ \A k \in 1..n : h[k] = Extend(turns[k])[h[k - 1]]
  BY <1>1, <1>7, SMTT(60)
<1>9. \A k \in 0..n : h[k] \in Seq(Message)
  <2> DEFINE S == {k \in 0..n : h[k] \in Seq(Message)}
  <2>1. 0 \in S
    BY <1>1, <1>8
  <2>2. ASSUME NEW k \in 1..n, k - 1 \in S
        PROVE  k \in S
    BY <1>1, <1>8, <2>2, ExtendIs, SMTT(60)
  <2>3. 0..n \subseteq S
    <3> HIDE DEF S, n, F
    <3> QED
      BY <1>1, <2>1, <2>2, Climb, ZenonT(20), SMTT(60)
  <2> QED
    BY <2>3
<1>10. h \in [0..n -> Seq(Message)]
  <2>1. DOMAIN h = 0..n /\ h = [k \in 0..n |-> h[k]]
    BY <1>7
  <2> QED
    BY <1>9, <2>1
<1> QED
  BY <1>4, <1>7, <1>8, <1>10 DEF Built

LEMMA MessagesEmpty == Messages[<<>>] = <<>>
<1>1. PICK e \in Seq(Turn) : e = <<>> /\ Len(e) = 0
  BY EmptySeq
<1>2. PICK b : Built(e, b) /\ Messages[e] = b[Len(e)]
  BY MessagesAre
<1> QED
  BY <1>1, <1>2 DEF Built

LEMMA MessagesTyped ==
  ASSUME NEW turns \in Seq(Turn)
  PROVE  Messages[turns] \in Seq(Message)
<1>1. PICK b : Built(turns, b) /\ Messages[turns] = b[Len(turns)]
  BY MessagesAre
<1>2. Len(turns) \in 0..Len(turns)
  BY LenProperties
<1> QED
  BY <1>1, <1>2 DEF Built

LEMMA MessagesAppend ==
  ASSUME NEW turns \in Seq(Turn), NEW t \in Turn
  PROVE  /\ Messages[turns] \in Seq(Message)
         /\ Messages[Append(turns, t)] = Extend(t)[Messages[turns]]
<1>1. PICK ext \in Seq(Turn) : ext = Append(turns, t)
  BY AppendProperties
<1>2. /\ Len(turns) \in Nat /\ Len(ext) = Len(turns) + 1 /\ ext[Len(turns) + 1] = t
      /\ \A k \in 1..Len(turns) : ext[k] = turns[k]
  BY <1>1, AppendProperties, LenProperties
<1>3. PICK b : Built(turns, b) /\ Messages[turns] = b[Len(turns)]
  BY MessagesAre
<1>4. PICK c : Built(ext, c) /\ Messages[ext] = c[Len(ext)]
  BY MessagesAre
<1> DEFINE step == [k \in 1..Len(turns) |-> Extend(turns[k])]
           other == [k \in 1..Len(ext) |-> Extend(ext[k])]
<1>5. Carried(Seq(Message), <<>>, step, Len(turns), b)
  BY <1>3 DEF Built, Carried
<1>6. Carried(Seq(Message), <<>>, other, Len(ext), c)
  BY <1>4 DEF Built, Carried
<1>7. \A k \in 1..Len(turns) : step[k] = other[k]
  BY <1>2
<1>8. \A k \in 0..Len(turns) : b[k] = c[k]
  <2>1. Len(ext) \in Nat /\ Len(turns) \in 0..Len(ext)
    BY <1>2
  <2> HIDE DEF step, other
  <2>2. PICK n \in Nat : n = Len(ext)
    BY <2>1, <1>2
  <2>3. PICK m \in 0..n : m = Len(turns)
    BY <2>1, <2>2
  <2> QED
    <3>1. PICK e \in Seq(Message) : e = <<>>
      BY EmptySeq
    <3>2. Carried(Seq(Message), e, step, m, b) /\ Carried(Seq(Message), e, other, n, c)
          /\ AgreeOn(step, other, 1..m)
      BY <1>5, <1>6, <1>7, <2>2, <2>3, <3>1 DEF AgreeOn
    <3>3. AgreeOn(b, c, 0..m)
      BY <3>2, CarriedAlike, Zenon
    <3> QED
      BY <2>3, <3>3 DEF AgreeOn
<1>9. c[Len(ext)] = Extend(t)[c[Len(turns)]]
  BY <1>2, <1>4, SMTT(60) DEF Built
<1>10. b[Len(turns)] = c[Len(turns)]
  BY <1>2, <1>8
<1> QED
  BY <1>1, <1>2, <1>3, <1>4, <1>9, <1>10 DEF Built

\* Messages whose blocks differ in their payloads only.
SameMessages(x, y) ==
  Len(x) = Len(y)
  /\ \A k \in 1..Len(x) : x[k].role = y[k].role /\ SameBlocks(x[k].content, y[k].content)

LEMMA ExtendSame ==
  ASSUME NEW t \in Turn, NEW u \in Turn, NEW x \in Seq(Message), NEW y \in Seq(Message),
         t.kind = u.kind, SameBlocks(t.content, u.content), SameMessages(x, y)
  PROVE  SameMessages(Extend(t)[x], Extend(u)[y])
<1>1. PICK v \in Seq(Message) : v = Extend(t)[x] /\ (JoinedTo(x, t, v) \/ StartedBy(x, t, v))
  BY ExtendIs
<1>2. PICK w \in Seq(Message) : w = Extend(u)[y] /\ (JoinedTo(y, u, w) \/ StartedBy(y, u, w))
  BY ExtendIs
<1>3. Role(t) = Role(u) /\ t.content \in Seq(Block) /\ u.content \in Seq(Block)
  BY DEF Role, Turn
<1>4. Len(x) \in Nat /\ Len(y) = Len(x)
  BY LenProperties DEF SameMessages
<1>5. JoinedTo(x, t, v) <=> JoinedTo(y, u, w)
  BY <1>1, <1>2, <1>3, <1>4, SMTT(60) DEF JoinedTo, StartedBy, SameMessages
<1>6. CASE JoinedTo(x, t, v)
  <2>1. JoinedTo(y, u, w) /\ Len(x) \in 1..Len(x)
    BY <1>4, <1>5, <1>6 DEF JoinedTo
  <2>2. x[Len(x)] \in Message /\ y[Len(x)] \in Message
    BY <1>4, <2>1, ElementOfSeq
  <2>3. PICK c \in Seq(Block), d \in Seq(Block) :
          /\ c = x[Len(x)].content /\ d = y[Len(x)].content /\ SameBlocks(c, d)
    BY <2>1, <2>2 DEF Message, SameMessages
  <2>4. SameBlocks(c \o t.content, d \o u.content)
    BY <1>3, <2>3, SameBlocksConcat
  <2>5. c \o t.content \in Seq(Block) /\ d \o u.content \in Seq(Block)
    BY <1>3, <2>3, ConcatProperties
  <2>6. SameBlocks(ResultsFirst[c \o t.content], ResultsFirst[d \o u.content])
    BY <2>4, <2>5, ResultsFirstSame
  <2>7. SameBlocks(v[Len(x)].content, w[Len(x)].content) /\ v[Len(x)].role = w[Len(x)].role
    BY <1>4, <1>6, <2>1, <2>3, <2>6 DEF JoinedTo
  <2>8. ASSUME NEW k \in 1..Len(x)
        PROVE  v[k].role = w[k].role /\ SameBlocks(v[k].content, w[k].content)
    <3>1. CASE k = Len(x)
      BY <2>7, <3>1
    <3>2. CASE k \in 1..Len(x) - 1
      BY <1>4, <1>6, <2>1, <3>2 DEF JoinedTo, SameMessages
    <3> QED
      BY <1>4, <3>1, <3>2
  <2>9. Len(v) = Len(x) /\ Len(w) = Len(x)
    BY <1>4, <1>6, <2>1 DEF JoinedTo
  <2> QED
    BY <1>1, <1>2, <2>8, <2>9 DEF SameMessages
<1>7. CASE ~ JoinedTo(x, t, v)
  <2>1. StartedBy(x, t, v) /\ StartedBy(y, u, w)
    BY <1>1, <1>2, <1>5, <1>7
  <2>2. Len(v) = Len(x) + 1 /\ Len(w) = Len(x) + 1
    BY <1>4, <2>1 DEF StartedBy
  <2>3. ASSUME NEW k \in 1..Len(x) + 1
        PROVE  v[k].role = w[k].role /\ SameBlocks(v[k].content, w[k].content)
    <3>1. CASE k = Len(x) + 1
      BY <1>3, <1>4, <2>1, <3>1 DEF StartedBy
    <3>2. CASE k \in 1..Len(x)
      BY <1>4, <2>1, <3>2, SMTT(60) DEF StartedBy, SameMessages
    <3> QED
      BY <1>4, <3>1, <3>2, SMTT(60)
  <2> QED
    BY <1>1, <1>2, <2>2, <2>3 DEF SameMessages
<1> QED
  BY <1>6, <1>7

LEMMA MessagesSame ==
  ASSUME NEW x \in Seq(Turn), NEW y \in Seq(Turn), Len(x) = Len(y),
         \A k \in 1..Len(x) : x[k].kind = y[k].kind /\ SameBlocks(x[k].content, y[k].content)
  PROVE  SameMessages(Messages[x], Messages[y])
<1>1. PICK b : Built(x, b) /\ Messages[x] = b[Len(x)]
  BY MessagesAre
<1>2. PICK c : Built(y, c) /\ Messages[y] = c[Len(y)]
  BY MessagesAre
<1>3. Len(x) \in Nat
  BY LenProperties
<1> DEFINE S == {m \in 0..Len(x) : SameMessages(b[m], c[m])}
<1>4. 0 \in S
  <2>1. b[0] = <<>> /\ c[0] = <<>> /\ Len(b[0]) = 0
    BY <1>1, <1>2, EmptySeq DEF Built
  <2> QED
    BY <1>3, <2>1 DEF SameMessages
<1>5. ASSUME NEW m \in 1..Len(x), m - 1 \in S
      PROVE  m \in S
  <2>1. b[m - 1] \in Seq(Message) /\ c[m - 1] \in Seq(Message)
    <3>1. m - 1 \in 0..Len(x) /\ m - 1 \in 0..Len(y)
      BY <1>3
    <3> QED
      BY <1>1, <1>2, <3>1 DEF Built
  <2>2. x[m] \in Turn /\ y[m] \in Turn
    BY <1>3, ElementOfSeq
  <2>3. SameMessages(b[m - 1], c[m - 1])
    BY <1>5
  <2>4. SameMessages(Extend(x[m])[b[m - 1]], Extend(y[m])[c[m - 1]])
    BY <2>1, <2>2, <2>3, ExtendSame
  <2>5. b[m] = Extend(x[m])[b[m - 1]] /\ c[m] = Extend(y[m])[c[m - 1]]
    BY <1>1, <1>2, <1>3 DEF Built
  <2> QED
    BY <1>3, <2>4, <2>5
<1>6. 0..Len(x) \subseteq S
  <2> HIDE DEF S
  <2> QED
    BY <1>3, <1>4, <1>5, Climb, ZenonT(20), SMTT(60)
<1>7. Len(x) \in S
  BY <1>3, <1>6
<1> QED
  BY <1>1, <1>2, <1>7

\* Whether the API accepts messages does not depend on their payloads.
LEMMA ValidSame ==
  ASSUME NEW x \in Seq(Message), NEW y \in Seq(Message), SameMessages(x, y), WireValid[x]
  PROVE  WireValid[y]
<1>1. Len(x) \in Nat /\ Len(y) = Len(x) /\ DOMAIN x = 1..Len(x) /\ DOMAIN y = 1..Len(x)
  BY LenProperties DEF SameMessages
<1>2. ASSUME NEW k \in 1..Len(x)
      PROVE  /\ \A type : Ids(x[k].content, type) = Ids(y[k].content, type)
             /\ x[k].content # <<>> => y[k].content # <<>>
             /\ LeadsWithResults(x[k].content) => LeadsWithResults(y[k].content)
  <2>1. x[k] \in Message /\ y[k] \in Message
    BY <1>1, ElementOfSeq
  <2>2. PICK c \in Seq(Block), d \in Seq(Block) : c = x[k].content /\ d = y[k].content
    BY <2>1 DEF Message
  <2>3. SameBlocks(c, d)
    BY <2>2 DEF SameMessages
  <2>4. Len(c) \in Nat /\ Len(d) = Len(c) /\ DOMAIN c = 1..Len(c) /\ DOMAIN d = 1..Len(c)
    BY <2>3, LenProperties DEF SameBlocks
  <2>5. \A type : Ids(c, type) = Ids(d, type)
    BY <2>3, <2>4, ZenonT(60) DEF Ids, SameBlocks
  <2>6. c # <<>> => d # <<>>
    BY <2>4, EmptySeq
  <2>7. LeadsWithResults(c) => LeadsWithResults(d)
    BY <2>3, <2>4 DEF LeadsWithResults, IsResult, SameBlocks
  <2> QED
    BY <2>2, <2>5, <2>6, <2>7
<1>3. ASSUME NEW k \in 1..Len(x)
      PROVE  ResultsAfter(x, k) = ResultsAfter(y, k) /\ UsesBefore(x, k) = UsesBefore(y, k)
  <2>1. ResultsAfter(x, k) = ResultsAfter(y, k)
    <3>1. k < Len(x) => k + 1 \in 1..Len(x)
      BY <1>1
    <3>2. k < Len(x) => Ids(x[k + 1].content, "tool_result") = Ids(y[k + 1].content, "tool_result")
      BY <1>2, <3>1
    <3> QED
      BY <1>1, <3>2 DEF ResultsAfter
  <2>2. UsesBefore(x, k) = UsesBefore(y, k)
    <3>1. k > 1 => k - 1 \in 1..Len(x)
      BY <1>1
    <3>2. k > 1 => Ids(x[k - 1].content, "tool_use") = Ids(y[k - 1].content, "tool_use")
      BY <1>2, <3>1
    <3> QED
      BY <3>2 DEF UsesBefore
  <2> QED
    BY <2>1, <2>2
<1>4. \A k \in 1..Len(x) :
        /\ x[k].content # <<>>
        /\ Ids(x[k].content, "tool_use") = ResultsAfter(x, k)
        /\ Ids(x[k].content, "tool_result") = UsesBefore(x, k)
        /\ LeadsWithResults(x[k].content)
  BY <1>1 DEF WireValid
<1> QED
  BY <1>1, <1>2, <1>3, <1>4 DEF WireValid

-----------------------------------------------------------------------------
(* Questions and answers.  While a round's results are on their way to the thread, some *)
(* tool_use of the last reply are open.                                                 *)

Asked(m) == Ids(m.content, "tool_use")
Replied(m) == Ids(m.content, "tool_result")

Pairs(ms, open) ==
  /\ \A k \in 1..Len(ms) : ms[k].content # <<>> /\ LeadsWithResults(ms[k].content)
  /\ \A k \in 1..Len(ms) : ms[k].role = "user" => Asked(ms[k]) = {}
  /\ \A k \in 1..Len(ms) - 1 :
       Asked(ms[k]) = Replied(ms[k + 1])
         \cup (IF k = Len(ms) - 1 /\ ms[Len(ms)].role = "user" THEN open ELSE {})
  /\ Len(ms) > 0 => Replied(ms[1]) = {}
  /\ Len(ms) > 0 /\ ms[Len(ms)].role = "assistant" => Asked(ms[Len(ms)]) = open
  /\ (Len(ms) = 0 \/ (Len(ms) = 1 /\ ms[1].role = "user")) => open = {}

LEMMA IdsAre ==
  ASSUME NEW c \in Seq(Block), NEW type
  PROVE  \A x : x \in Ids(c, type) <=> \E k \in 1..Len(c) : c[k].type = type /\ c[k].id = x
<1>1. DOMAIN c = 1..Len(c)
  BY LenProperties
<1> QED
  BY <1>1 DEF Ids

LEMMA IdsConcat ==
  ASSUME NEW p \in Seq(Block), NEW q \in Seq(Block), NEW type
  PROVE  Ids(p \o q, type) = Ids(p, type) \cup Ids(q, type)
<1>1. PICK r \in Seq(Block) : r = p \o q
  BY ConcatProperties
<1>2. /\ Len(r) = Len(p) + Len(q) /\ Len(p) \in Nat /\ Len(q) \in Nat
      /\ \A i \in 1..Len(p) + Len(q) : r[i] = IF i <= Len(p) THEN p[i] ELSE q[i - Len(p)]
  BY <1>1, ConcatProperties, LenProperties
<1>3. \A i \in 1..Len(r) : (\E k \in 1..Len(p) : r[i] = p[k]) \/ (\E k \in 1..Len(q) : r[i] = q[k])
  <2> SUFFICES ASSUME NEW i \in 1..Len(r)
               PROVE  (\E k \in 1..Len(p) : r[i] = p[k]) \/ (\E k \in 1..Len(q) : r[i] = q[k])
    OBVIOUS
  <2>1. CASE i <= Len(p)
    BY <1>2, <2>1
  <2>2. CASE ~ (i <= Len(p))
    <3>1. i - Len(p) \in 1..Len(q) /\ r[i] = q[i - Len(p)]
      BY <1>2, <2>2
    <3> QED
      BY <3>1
  <2> QED
    BY <2>1, <2>2
<1>4. \A i \in 1..Len(p) : \E k \in 1..Len(r) : r[k] = p[i]
  BY <1>2, SMTT(60)
<1>5. \A j \in 1..Len(q) : \E k \in 1..Len(r) : r[k] = q[j]
  <2> SUFFICES ASSUME NEW j \in 1..Len(q)
               PROVE  \E k \in 1..Len(r) : r[k] = q[j]
    OBVIOUS
  <2>1. PICK i : i = Len(p) + j
    OBVIOUS
  <2>2. i \in 1..Len(r) /\ ~ (i <= Len(p)) /\ i - Len(p) = j
    BY <1>2, <2>1
  <2> QED
    BY <1>2, <2>2
<1>6. \A x : x \in Ids(r, type) <=> \E k \in 1..Len(r) : r[k].type = type /\ r[k].id = x
  BY IdsAre
<1>7. \A x : x \in Ids(p, type) <=> \E k \in 1..Len(p) : p[k].type = type /\ p[k].id = x
  BY IdsAre
<1>8. \A x : x \in Ids(q, type) <=> \E k \in 1..Len(q) : q[k].type = type /\ q[k].id = x
  BY IdsAre
<1>9. ASSUME NEW x
      PROVE  x \in Ids(r, type) <=> x \in Ids(p, type) \/ x \in Ids(q, type)
  <2>1. ASSUME x \in Ids(r, type)
        PROVE  x \in Ids(p, type) \/ x \in Ids(q, type)
    <3>1. PICK i \in 1..Len(r) : r[i].type = type /\ r[i].id = x
      BY <1>6, <2>1
    <3> QED
      BY <1>3, <1>7, <1>8, <3>1, SMTT(60)
  <2>2. ASSUME x \in Ids(p, type)
        PROVE  x \in Ids(r, type)
    <3>1. PICK i \in 1..Len(p) : p[i].type = type /\ p[i].id = x
      BY <1>7, <2>2
    <3>2. PICK k \in 1..Len(r) : r[k] = p[i]
      BY <1>4
    <3> QED
      BY <1>6, <3>1, <3>2
  <2>3. ASSUME x \in Ids(q, type)
        PROVE  x \in Ids(r, type)
    <3>1. PICK i \in 1..Len(q) : q[i].type = type /\ q[i].id = x
      BY <1>8, <2>3
    <3>2. PICK k \in 1..Len(r) : r[k] = q[i]
      BY <1>5
    <3> QED
      BY <1>6, <3>1, <3>2
  <2> QED
    BY <2>1, <2>2, <2>3
<1> QED
  BY <1>1, <1>9

LEMMA ResultsFirstIds ==
  ASSUME NEW c \in Seq(Block), NEW type
  PROVE  Ids(ResultsFirst[c], type) = Ids(c, type)
<1>1. PICK r \in Seq(Block) : r = ResultsFirst[c]
  BY ResultsFirstKeeps
<1>2. /\ \A i \in 1..Len(r) : \E k \in 1..Len(c) : r[i] = c[k]
      /\ \A k \in 1..Len(c) : \E i \in 1..Len(r) : r[i] = c[k]
  BY <1>1, ResultsFirstKeeps, ZenonT(60)
<1>3. \A x : x \in Ids(r, type) <=> \E k \in 1..Len(r) : r[k].type = type /\ r[k].id = x
  BY IdsAre
<1>4. \A x : x \in Ids(c, type) <=> \E k \in 1..Len(c) : c[k].type = type /\ c[k].id = x
  BY IdsAre
<1>5. ASSUME NEW x
      PROVE  x \in Ids(r, type) <=> x \in Ids(c, type)
  <2>1. ASSUME x \in Ids(r, type)
        PROVE  x \in Ids(c, type)
    <3>1. PICK i \in 1..Len(r) : r[i].type = type /\ r[i].id = x
      BY <1>3, <2>1
    <3>2. PICK k \in 1..Len(c) : r[i] = c[k]
      BY <1>2
    <3> QED
      BY <1>4, <3>1, <3>2
  <2>2. ASSUME x \in Ids(c, type)
        PROVE  x \in Ids(r, type)
    <3>1. PICK k \in 1..Len(c) : c[k].type = type /\ c[k].id = x
      BY <1>4, <2>2
    <3>2. PICK i \in 1..Len(r) : r[i] = c[k]
      BY <1>2
    <3> QED
      BY <1>3, <3>1, <3>2
  <2> QED
    BY <2>1, <2>2
<1> QED
  BY <1>1, <1>5

\* The merged content of two turns' blocks.
LEMMA Merged ==
  ASSUME NEW p \in Seq(Block), NEW q \in Seq(Block), p # <<>>
  PROVE  /\ ResultsFirst[p \o q] # <<>> /\ LeadsWithResults(ResultsFirst[p \o q])
         /\ \A type : Ids(ResultsFirst[p \o q], type) = Ids(p, type) \cup Ids(q, type)
<1>1. PICK c \in Seq(Block) : c = p \o q
  BY ConcatProperties
<1>2. PICK r \in Seq(Block) : r = ResultsFirst[c]
  BY ResultsFirstKeeps
<1>3. r # <<>>
  <2>1. Len(c) = Len(p) + Len(q) /\ Len(p) > 0 /\ Len(q) \in Nat /\ Len(p) \in Nat
    BY <1>1, ConcatProperties, EmptySeq, LenProperties
  <2>2. 1 \in 1..Len(c)
    BY <2>1
  <2>3. PICK i \in 1..Len(r) : r[i] = c[1]
    BY <1>2, <2>2, ResultsFirstKeeps
  <2>4. Len(r) # 0
    BY <2>3
  <2> QED
    BY <2>4, EmptySeq
<1>4. LeadsWithResults(r)
  BY <1>2, ResultsFirstKeeps
<1>5. \A type : Ids(r, type) = Ids(c, type)
  BY <1>2, ResultsFirstIds
<1>6. \A type : Ids(c, type) = Ids(p, type) \cup Ids(q, type)
  BY <1>1, IdsConcat
<1> QED
  BY <1>1, <1>2, <1>3, <1>4, <1>5, <1>6

LEMMA PairsUser ==
  ASSUME NEW t \in Turn, NEW ms \in Seq(Message), NEW open, Pairs(ms, open),
         Role(t) = "user", t.content # <<>>, LeadsWithResults(t.content),
         Ids(t.content, "tool_use") = {}, Ids(t.content, "tool_result") \subseteq open
  PROVE  Pairs(Extend(t)[ms], open \ Ids(t.content, "tool_result"))
<1> DEFINE n == Len(ms)
           R == Ids(t.content, "tool_result")
<1>1. PICK v \in Seq(Message) : v = Extend(t)[ms] /\ (JoinedTo(ms, t, v) \/ StartedBy(ms, t, v))
  BY ExtendIs
<1>p. /\ \A k \in 1..n : ms[k].content # <<>> /\ LeadsWithResults(ms[k].content)
      /\ \A k \in 1..n : ms[k].role = "user" => Asked(ms[k]) = {}
      /\ \A k \in 1..n - 1 : k # n - 1 \/ ms[n].role # "user" => Asked(ms[k]) = Replied(ms[k + 1])
      /\ \A k \in 1..n - 1 : k = n - 1 /\ ms[n].role = "user"
           => Asked(ms[k]) = Replied(ms[k + 1]) \cup open
      /\ n > 0 => Replied(ms[1]) = {}
      /\ n > 0 /\ ms[n].role = "assistant" => Asked(ms[n]) = open
      /\ n = 0 => open = {}
      /\ n = 1 /\ ms[1].role = "user" => open = {}
  BY DEF Pairs
<1>2. n \in Nat /\ t.content \in Seq(Block)
  BY LenProperties DEF Turn
<1>3. \A k \in 1..n : ms[k].content \in Seq(Block) /\ ms[k].role \in {"user", "assistant"}
  <2>1. \A k \in 1..n : ms[k] \in Message
    BY ElementOfSeq
  <2> QED
    BY <2>1 DEF Message
<1>4. CASE JoinedTo(ms, t, v)
  <2>1. /\ n > 0 /\ ms[n].role = "user" /\ Len(v) = n /\ \A k \in 1..n - 1 : v[k] = ms[k]
        /\ v[n].role = "user" /\ v[n].content = ResultsFirst[ms[n].content \o t.content]
    BY <1>4 DEF JoinedTo
  <2>2. n \in 1..n /\ ms[n].content # <<>> /\ Asked(ms[n]) = {}
    <3>1. n \in 1..n
      BY <1>2, <2>1
    <3> QED
      BY <2>1, <3>1, <1>p
  <2>3. /\ v[n].content # <<>> /\ LeadsWithResults(v[n].content)
        /\ Asked(v[n]) = {} /\ Replied(v[n]) = Replied(ms[n]) \cup R
    BY <1>2, <1>3, <2>1, <2>2, Merged DEF Asked, Replied
  <2>4. \A k \in 1..Len(v) : /\ v[k].content # <<>> /\ LeadsWithResults(v[k].content)
                             /\ v[k].role = "user" => Asked(v[k]) = {}
    <3> SUFFICES ASSUME NEW k \in 1..n
                 PROVE  /\ v[k].content # <<>> /\ LeadsWithResults(v[k].content)
                        /\ v[k].role = "user" => Asked(v[k]) = {}
      BY <2>1
    <3>1. k = n \/ k \in 1..n - 1
      BY <1>2
    <3> QED
      BY <2>1, <2>3, <3>1, <1>p
  <2>5. ASSUME NEW k \in 1..n - 1
        PROVE  Asked(v[k]) = Replied(v[k + 1]) \cup (IF k = n - 1 THEN open \ R ELSE {})
    <3>1. CASE k = n - 1
      <4>1. k + 1 = n /\ v[k] = ms[k]
        BY <1>2, <2>1, <2>5, <3>1
      <4>2. Asked(ms[k]) = Replied(ms[k + 1]) \cup open
        BY <2>1, <2>5, <3>1, <1>p
      <4> QED
        BY <2>3, <3>1, <4>1, <4>2
    <3>2. CASE k # n - 1
      <4>1. k + 1 \in 1..n - 1 /\ v[k] = ms[k] /\ v[k + 1] = ms[k + 1]
        BY <1>2, <2>1, <2>5, <3>2
      <4>2. Asked(ms[k]) = Replied(ms[k + 1])
        BY <2>5, <3>2, <1>p
      <4> QED
        BY <3>2, <4>1, <4>2
    <3> QED
      BY <3>1, <3>2
  <2>6. Replied(v[1]) = {}
    <3>1. CASE n = 1
      BY <2>1, <2>3, <3>1, <1>p
    <3>2. CASE n # 1
      <4>1. 1 \in 1..n - 1
        BY <1>2, <2>1, <3>2
      <4> QED
        BY <2>1, <4>1, <1>p
    <3> QED
      BY <3>1, <3>2
  <2>7. n = 1 => open \ R = {}
    BY <2>1, <1>p, SMTT(60)
  <2> QED
    BY <1>1, <1>2, <2>1, <2>4, <2>5, <2>6, <2>7, ZenonT(60) DEF Pairs
<1>5. CASE StartedBy(ms, t, v)
  <2>1. /\ n > 0 => ms[n].role = "assistant"
        /\ Len(v) = n + 1 /\ \A k \in 1..n : v[k] = ms[k]
        /\ v[n + 1].role = "user" /\ v[n + 1].content = t.content
    <3>1. n > 0 => n \in 1..n
      BY <1>2
    <3> QED
      BY <1>3, <1>5, <3>1 DEF StartedBy
  <2>2. Asked(v[n + 1]) = {} /\ Replied(v[n + 1]) = R
    BY <2>1 DEF Asked, Replied
  <2>3. \A k \in 1..Len(v) : /\ v[k].content # <<>> /\ LeadsWithResults(v[k].content)
                             /\ v[k].role = "user" => Asked(v[k]) = {}
    <3> SUFFICES ASSUME NEW k \in 1..n + 1
                 PROVE  /\ v[k].content # <<>> /\ LeadsWithResults(v[k].content)
                        /\ v[k].role = "user" => Asked(v[k]) = {}
      BY <2>1
    <3>1. k = n + 1 \/ k \in 1..n
      BY <1>2
    <3> QED
      BY <2>1, <2>2, <3>1, <1>p
  <2>4. ASSUME NEW k \in 1..n
        PROVE  Asked(v[k]) = Replied(v[k + 1]) \cup (IF k = n THEN open \ R ELSE {})
    <3>1. CASE k = n
      <4>1. v[k] = ms[n] /\ Asked(ms[n]) = open /\ Replied(v[k + 1]) = R
        BY <1>2, <2>1, <2>2, <3>1, <1>p
      <4> QED
        BY <3>1, <4>1
    <3>2. CASE k # n
      <4>1. k \in 1..n - 1 /\ k + 1 \in 1..n /\ v[k] = ms[k] /\ v[k + 1] = ms[k + 1]
        BY <1>2, <2>1, <3>2
      <4>2. Asked(ms[k]) = Replied(ms[k + 1])
        BY <1>2, <2>1, <3>2, <4>1, <1>p
      <4> QED
        BY <3>2, <4>1, <4>2
    <3> QED
      BY <3>1, <3>2
  <2>5. Replied(v[1]) = {} /\ (n = 0 => open \ R = {})
    <3>1. CASE n = 0
      BY <2>2, <3>1, <1>p
    <3>2. CASE n # 0
      <4>1. 1 \in 1..n
        BY <1>2, <3>2
      <4> QED
        BY <2>1, <3>2, <4>1, <1>p
    <3> QED
      BY <3>1, <3>2
  <2>6. Len(v) - 1 = n /\ Len(v) # 0 /\ (Len(v) = 1 => n = 0)
    BY <1>2, <2>1
  <2> QED
    BY <1>1, <1>2, <2>1, <2>3, <2>4, <2>5, <2>6, ZenonT(60) DEF Pairs
<1> QED
  BY <1>1, <1>4, <1>5

LEMMA PairsReply ==
  ASSUME NEW t \in Turn, NEW ms \in Seq(Message), Pairs(ms, {}),
         Role(t) = "assistant", t.content # <<>>, LeadsWithResults(t.content),
         Ids(t.content, "tool_result") = {}
  PROVE  Pairs(Extend(t)[ms], Ids(t.content, "tool_use"))
<1> DEFINE n == Len(ms)
           U == Ids(t.content, "tool_use")
<1>1. PICK v \in Seq(Message) : v = Extend(t)[ms] /\ StartedBy(ms, t, v)
  <2>1. ~ JoinedTo(ms, t, Extend(t)[ms])
    BY DEF JoinedTo
  <2> QED
    BY <2>1, ExtendIs
<1>p. /\ \A k \in 1..n : ms[k].content # <<>> /\ LeadsWithResults(ms[k].content)
      /\ \A k \in 1..n : ms[k].role = "user" => Asked(ms[k]) = {}
      /\ \A k \in 1..n - 1 : k # n - 1 \/ ms[n].role # "user" => Asked(ms[k]) = Replied(ms[k + 1])
      /\ \A k \in 1..n - 1 : k = n - 1 /\ ms[n].role = "user"
           => Asked(ms[k]) = Replied(ms[k + 1]) \cup {}
      /\ n > 0 => Replied(ms[1]) = {}
      /\ n > 0 /\ ms[n].role = "assistant" => Asked(ms[n]) = {}
  BY DEF Pairs
<1>2. n \in Nat
  BY LenProperties
<1>3. /\ Len(v) = n + 1 /\ \A k \in 1..n : v[k] = ms[k]
      /\ v[n + 1].role = "assistant" /\ v[n + 1].content = t.content
  BY <1>1 DEF StartedBy
<1>4. Asked(v[n + 1]) = U /\ Replied(v[n + 1]) = {}
  BY <1>3 DEF Asked, Replied
<1>5. \A k \in 1..Len(v) : /\ v[k].content # <<>> /\ LeadsWithResults(v[k].content)
                           /\ v[k].role = "user" => Asked(v[k]) = {}
  <2> SUFFICES ASSUME NEW k \in 1..n + 1
               PROVE  /\ v[k].content # <<>> /\ LeadsWithResults(v[k].content)
                      /\ v[k].role = "user" => Asked(v[k]) = {}
    BY <1>3
  <2>1. k = n + 1 \/ k \in 1..n
    BY <1>2
  <2> QED
    BY <1>3, <2>1, <1>p
<1>6. ASSUME NEW k \in 1..n
      PROVE  Asked(v[k]) = Replied(v[k + 1])
  <2>1. \A j \in 1..n : ms[j].role \in {"user", "assistant"}
    <3>1. \A j \in 1..n : ms[j] \in Message
      BY ElementOfSeq
    <3> QED
      BY <3>1 DEF Message
  <2>2. CASE k = n
    <3>1. v[k] = ms[k] /\ ms[k].role \in {"user", "assistant"}
      BY <1>3, <2>1
    <3>2. n > 0 /\ n \in 1..n /\ ms[n].role \in {"user", "assistant"}
      BY <1>2, <2>2, <3>1
    <3>3. Asked(ms[k]) = {}
      <4>1. CASE ms[n].role = "user"
        BY <2>2, <3>2, <4>1, <1>p
      <4>2. CASE ms[n].role = "assistant"
        BY <2>2, <3>2, <4>2, <1>p
      <4> QED
        BY <3>2, <4>1, <4>2
    <3> QED
      BY <1>4, <2>2, <3>1, <3>3
  <2>3. CASE k # n
    <3>1. k \in 1..n - 1 /\ k + 1 \in 1..n /\ v[k] = ms[k] /\ v[k + 1] = ms[k + 1]
      BY <1>2, <1>3, <2>3
    <3>2. Asked(ms[k]) = Replied(ms[k + 1])
      BY <3>1, <1>p
    <3> QED
      BY <3>1, <3>2
  <2> QED
    BY <2>2, <2>3
<1>7. Replied(v[1]) = {}
  <2>1. CASE n = 0
    BY <1>4, <2>1
  <2>2. CASE n # 0
    <3>1. 1 \in 1..n
      BY <1>2, <2>2
    <3> QED
      BY <1>3, <2>2, <3>1, <1>p
  <2> QED
    BY <2>1, <2>2
<1>8. Len(v) - 1 = n /\ Len(v) # 0 /\ v[Len(v)].role = "assistant" /\ Asked(v[Len(v)]) = U
      /\ (Len(v) = 1 => v[1].role = "assistant")
  BY <1>2, <1>3, <1>4
<1> QED
  BY <1>1, <1>3, <1>5, <1>6, <1>7, <1>8, ZenonT(60) DEF Pairs

\* With no question open the API accepts the messages.
LEMMA PairsValid ==
  ASSUME NEW ms \in Seq(Message), Pairs(ms, {})
  PROVE  WireValid[ms]
<1>1. Len(ms) \in Nat /\ DOMAIN ms = 1..Len(ms)
  BY LenProperties
<1>2. ASSUME NEW k \in 1..Len(ms)
      PROVE  Asked(ms[k]) = ResultsAfter(ms, k)
  <2>1. CASE k < Len(ms)
    <3>1. Asked(ms[k]) = Replied(ms[k + 1])
      BY <1>1, <2>1 DEF Pairs
    <3> QED
      BY <2>1, <3>1 DEF ResultsAfter, Replied
  <2>2. CASE k = Len(ms)
    <3>1. ms[k] \in Message
      BY ElementOfSeq
    <3>2. Asked(ms[k]) = {}
      BY <1>1, <2>2, <3>1, SMTT(60) DEF Pairs, Message
    <3> QED
      BY <1>1, <2>2, <3>2 DEF ResultsAfter
  <2>3. k < Len(ms) \/ k = Len(ms)
    <3>1. Len(ms) \in Nat
      BY <1>1
    <3> QED
      BY <3>1
  <2> QED
    BY <2>1, <2>2, <2>3
<1>3. ASSUME NEW k \in 1..Len(ms)
      PROVE  Replied(ms[k]) = UsesBefore(ms, k)
  <2>1. CASE k > 1
    <3>1. PICK j \in 1..Len(ms) - 1 : j = k - 1 /\ k = j + 1
      BY <1>1, <2>1
    <3>2. Asked(ms[j]) = Replied(ms[j + 1])
      BY DEF Pairs
    <3> QED
      BY <2>1, <3>1, <3>2 DEF UsesBefore, Asked
  <2>2. CASE k = 1
    BY <1>1, <2>2 DEF Pairs, UsesBefore
  <2>3. k > 1 \/ k = 1
    BY <1>1
  <2> QED
    BY <2>1, <2>2, <2>3
<1> QED
  BY <1>1, <1>2, <1>3 DEF WireValid, Pairs, Asked, Replied

-----------------------------------------------------------------------------
(* What each kind of turn brings. *)

\* The user's turns and what tools and widgets add to them hold one block each.
Single(t) ==
  Role(t) = "user" => Len(t.content) = 1 /\ (IsResult(t.content[1]) <=> t.kind = "tool_result")

\* As it was appended: nothing is stubbed.
Fresh(t) == Single(t) /\ \A k \in DOMAIN t.content : ~ t.content[k].stub

BlockIds == Nat \X Nat
FirstId(t) == Head(t.content).id

\* A turn in the user's role, without questions.
Tells(t, results) ==
  /\ Role(t) = "user" /\ t.content # <<>> /\ LeadsWithResults(t.content)
  /\ Ids(t.content, "tool_use") = {} /\ Ids(t.content, "tool_result") = results

\* A user-role turn of one block.
LEMMA OneBlock ==
  ASSUME NEW b \in Block
  PROVE  /\ <<b>> \in Seq(Block) /\ Len(<<b>>) = 1 /\ <<b>>[1] = b /\ DOMAIN <<b>> = 1..1
         /\ <<b>> # <<>> /\ LeadsWithResults(<<b>>)
         /\ \A type : Ids(<<b>>, type) = IF b.type = type THEN {b.id} ELSE {}
<1> DEFINE c == <<b>>
<1>1. c \in Seq(Block)
  OBVIOUS
<1>2. Len(c) = 1 /\ c[1] = b
  OBVIOUS
<1>3. DOMAIN c = 1..1 /\ c # <<>>
  OBVIOUS
<1> HIDE DEF c
<1>4. LeadsWithResults(c)
  BY <1>3 DEF LeadsWithResults
<1>5. ASSUME NEW type
      PROVE  Ids(c, type) = IF b.type = type THEN {b.id} ELSE {}
  BY <1>2, <1>3 DEF Ids
<1> QED
  BY <1>1, <1>2, <1>3, <1>4, <1>5 DEF c

LEMMA UserTextIs ==
  ASSUME NEW q \in Nat, NEW says \in Sayings, NEW t, t = UserText(q, says)
  PROVE  /\ t \in Turn /\ Fresh(t) /\ t.seq = q /\ t.kind = "user_text" /\ t.says = says
         /\ Tells(t, {})
<1> DEFINE b == Text(q, 0)
           c == <<b>>
<1>1. b \in Block
  BY DEF Text, Block
<1>2. /\ c \in Seq(Block) /\ Len(c) = 1 /\ DOMAIN c = 1..1 /\ c[1] = b /\ c # <<>>
      /\ LeadsWithResults(c)
      /\ \A type : Ids(c, type) = IF b.type = type THEN {b.id} ELSE {}
  <2> HIDE DEF b
  <2> QED
    BY <1>1, OneBlock
<1>3. Head(c) = b
  OBVIOUS
<1>4. b.type = "text" /\ b.stub = FALSE
  BY DEF Text
<1>5. t = [seq |-> q, kind |-> "user_text", content |-> c,
           tool |-> "none", err |-> FALSE, says |-> says]
  BY DEF UserText, b, c
<1> HIDE DEF b, c
<1>6. t \in Turn /\ t.content = c /\ t.seq = q /\ t.kind = "user_text" /\ t.says = says
  BY <1>2, <1>5 DEF Turn, TurnKinds, ToolKinds, Sayings
<1>7. Ids(c, "tool_use") = {} /\ Ids(c, "tool_result") = {}
  BY <1>2, <1>4
<1>8. Fresh(t)
  BY <1>2, <1>4, <1>6 DEF Fresh, Single, IsResult
<1>9. t.content # <<>> /\ LeadsWithResults(t.content) /\ Head(t.content) = b
  BY <1>2, <1>3, <1>6
<1> QED
  BY <1>4, <1>6, <1>7, <1>8, <1>9 DEF Tells, Role

LEMMA FlowEventIs ==
  ASSUME NEW q \in Nat, NEW id \in BlockIds, NEW tool \in {"none", "ticket"},
         NEW t, t = FlowEvent(q, id, tool)
  PROVE  /\ t \in Turn /\ Fresh(t)
         /\ t.seq = q /\ t.kind = "flow_event"
         /\ t.tool = tool
         /\ FirstId(t) = id
         /\ Tells(t, {})
<1> DEFINE b == Text(id[1], id[2])
           c == <<b>>
<1>1. b \in Block
  BY DEF Text, Block, BlockIds
<1>2. /\ c \in Seq(Block) /\ Len(c) = 1 /\ DOMAIN c = 1..1 /\ c[1] = b /\ c # <<>>
      /\ LeadsWithResults(c)
      /\ \A type : Ids(c, type) = IF b.type = type THEN {b.id} ELSE {}
  <2> HIDE DEF b
  <2> QED
    BY <1>1, OneBlock
<1>3. Head(c) = b
  OBVIOUS
<1>4. b.type = "text" /\ b.stub = FALSE /\ b.id = id
  BY DEF Text, BlockIds
<1>5. t = [seq |-> q, kind |-> "flow_event", content |-> c,
           tool |-> tool, err |-> FALSE, says |-> "plain"]
  BY DEF FlowEvent, b, c
<1> HIDE DEF b, c
<1>6. t \in Turn /\ t.content = c /\ t.seq = q /\ t.kind = "flow_event" /\ t.tool = tool
  BY <1>2, <1>5 DEF Turn, TurnKinds, ToolKinds, Sayings
<1>7. Ids(c, "tool_use") = {} /\ Ids(c, "tool_result") = {}
  BY <1>2, <1>4
<1>8. Fresh(t)
  BY <1>2, <1>4, <1>6 DEF Fresh, Single, IsResult
<1>9. t.content # <<>> /\ LeadsWithResults(t.content) /\ Head(t.content) = b
  BY <1>2, <1>3, <1>6
<1> QED
  BY <1>4, <1>6, <1>7, <1>8, <1>9 DEF FirstId, Tells, Role

LEMMA ToolResultIs ==
  ASSUME NEW q \in Nat, NEW id \in BlockIds, NEW tool \in ToolKinds, NEW err, err \in BOOLEAN,
         NEW t, t = ToolResult(q, id, tool, err)
  PROVE  /\ t \in Turn /\ Fresh(t)
         /\ t.seq = q
         /\ t.kind = "tool_result" /\ t.tool = tool
         /\ FirstId(t) = id
         /\ Tells(t, {id})
<1> DEFINE b == Result(id)
           c == <<b>>
<1>1. b \in Block
  BY DEF Result, Block, BlockIds
<1>2. /\ c \in Seq(Block) /\ Len(c) = 1 /\ DOMAIN c = 1..1 /\ c[1] = b /\ c # <<>>
      /\ LeadsWithResults(c)
      /\ \A type : Ids(c, type) = IF b.type = type THEN {b.id} ELSE {}
  <2> HIDE DEF b
  <2> QED
    BY <1>1, OneBlock
<1>3. Head(c) = b
  OBVIOUS
<1>4. b.type = "tool_result" /\ b.stub = FALSE /\ b.id = id
  BY DEF Result
<1>5. t = [seq |-> q, kind |-> "tool_result", content |-> c,
           tool |-> tool, err |-> err, says |-> "plain"]
  BY DEF ToolResult, b, c
<1> HIDE DEF b, c
<1>6. t \in Turn /\ t.content = c /\ t.seq = q /\ t.kind = "tool_result" /\ t.tool = tool
  BY <1>2, <1>5 DEF Turn, TurnKinds, ToolKinds, Sayings
<1>7. Ids(c, "tool_use") = {} /\ Ids(c, "tool_result") = {id}
  BY <1>2, <1>4
<1>8. Fresh(t)
  BY <1>2, <1>4, <1>6 DEF Fresh, Single, IsResult
<1>9. t.content # <<>> /\ LeadsWithResults(t.content) /\ Head(t.content) = b
  BY <1>2, <1>3, <1>6
<1> QED
  BY <1>4, <1>6, <1>7, <1>8, <1>9 DEF FirstId, Tells, Role

\* The turn that holds a reply of the model.
IsReplyTurn(t, q, text, tools) ==
  /\ t \in Turn /\ Fresh(t) /\ t.seq = q /\ Role(t) = "assistant"
  /\ t.kind \in {"assistant_text", "assistant_tool_use"}
  /\ text \/ tools # <<>> => t.content # <<>>
  /\ LeadsWithResults(t.content) /\ Ids(t.content, "tool_result") = {}
  /\ Ids(t.content, "tool_use") = {<<q, n>> : n \in 1..Len(tools)}

LEMMA AssistantIs ==
  ASSUME NEW q \in Nat, NEW text \in BOOLEAN, NEW tools \in Seq(ToolKinds), NEW says \in Sayings,
         NEW t, t = Assistant(q, text, tools, says)
  PROVE  IsReplyTurn(t, q, text, tools)
<1> SUFFICES /\ t \in Turn /\ Fresh(t) /\ t.seq = q /\ Role(t) = "assistant"
             /\ t.kind \in {"assistant_text", "assistant_tool_use"}
             /\ text \/ tools # <<>> => t.content # <<>>
             /\ LeadsWithResults(t.content) /\ Ids(t.content, "tool_result") = {}
             /\ Ids(t.content, "tool_use") = {<<q, n>> : n \in 1..Len(tools)}
  BY DEF IsReplyTurn
<1>1. Len(tools) \in Nat /\ (tools # <<>> => Len(tools) > 0)
  BY EmptySeq, LenProperties
<1>2. PICK uses : uses = [n \in 1..Len(tools) |-> ToolUse(<<q, n>>)]
  OBVIOUS
<1>3. uses \in Seq(Block) /\ Len(uses) = Len(tools)
      /\ \A n \in 1..Len(tools) : uses[n] = ToolUse(<<q, n>>)
  <2>1. \A n \in 1..Len(tools) : ToolUse(<<q, n>>) \in Block
    BY DEF ToolUse, Block
  <2>2. uses \in Seq(Block)
    <3>1. uses \in [1..Len(tools) -> Block]
      BY <1>2, <2>1
    <3> QED
      BY <1>1, <3>1
  <2>3. Len(uses) = Len(tools)
    BY <1>1, <1>2
  <2> QED
    BY <1>2, <2>2, <2>3
<1>4. PICK intro \in Seq(Block) :
        /\ intro = IF text THEN <<Text(q, 0)>> ELSE <<>>
        /\ text => intro # <<>>
        /\ \A k \in 1..Len(intro) : intro[k] = Text(q, 0)
        /\ \A type : type # "text" => Ids(intro, type) = {}
  <2>1. CASE text
    <3>1. PICK b \in Block : b = Text(q, 0)
      BY DEF Text, Block
    <3>2. PICK c \in Seq(Block) : c = <<b>> /\ Len(c) = 1 /\ c[1] = b /\ c # <<>>
      BY OneBlock
    <3>3. \A type : type # "text" => Ids(c, type) = {}
      BY <3>1, <3>2, OneBlock DEF Text
    <3>4. \A k \in 1..Len(c) : c[k] = Text(q, 0)
      BY <3>1, <3>2
    <3> QED
      BY <2>1, <3>1, <3>2, <3>3, <3>4
  <2>2. CASE ~ text
    <3>1. PICK e \in Seq(Block) : e = <<>> /\ Len(e) = 0
      BY EmptySeq
    <3>2. ASSUME NEW type
          PROVE  Ids(e, type) = {}
      <4>1. \A x : x \in Ids(e, type) <=> \E k \in 1..Len(e) : e[k].type = type /\ e[k].id = x
        BY IdsAre
      <4> QED
        BY <3>1, <4>1
    <3>3. \A k \in 1..Len(e) : e[k] = Text(q, 0)
      BY <3>1
    <3> QED
      BY <2>2, <3>1, <3>2, <3>3
  <2> QED
    BY <2>1, <2>2
<1>5. PICK c \in Seq(Block) : c = intro \o uses
  BY <1>3, ConcatProperties
<1>6. t = Assistant(q, text, tools, says)
  OBVIOUS
<1>7. PICK kind \in {"assistant_text", "assistant_tool_use"} :
        t = [seq |-> q, kind |-> kind, content |-> c, tool |-> "none", err |-> FALSE, says |-> says]
  <2>1. t.content = c /\ t = [seq |-> q, kind |-> t.kind, content |-> c,
                              tool |-> "none", err |-> FALSE, says |-> says]
    BY <1>2, <1>4, <1>5, <1>6, SMTT(60) DEF Assistant
  <2>2. t.kind \in {"assistant_text", "assistant_tool_use"}
    BY <1>6 DEF Assistant
  <2> QED
    BY <2>1, <2>2
<1>8. /\ Len(c) = Len(intro) + Len(uses) /\ Len(intro) \in Nat /\ DOMAIN c = 1..Len(c)
      /\ \A i \in 1..Len(intro) + Len(uses) :
           c[i] = IF i <= Len(intro) THEN intro[i] ELSE uses[i - Len(intro)]
  <2>1. Len(intro) \in Nat /\ DOMAIN c = 1..Len(c)
    BY LenProperties
  <2>2. /\ Len(intro \o uses) = Len(intro) + Len(uses)
        /\ \A i \in 1..Len(intro) + Len(uses) :
             (intro \o uses)[i] = IF i <= Len(intro) THEN intro[i] ELSE uses[i - Len(intro)]
    BY <1>3, ConcatProperties, ZenonT(60)
  <2> QED
    BY <1>5, <2>1, <2>2
<1>9. \A i \in 1..Len(c) : c[i].type \in {"text", "tool_use"} /\ c[i].stub = FALSE
  <2> SUFFICES ASSUME NEW i \in 1..Len(c)
               PROVE  c[i].type \in {"text", "tool_use"} /\ c[i].stub = FALSE
    OBVIOUS
  <2>1. CASE i <= Len(intro)
    <3>1. i \in 1..Len(intro) /\ c[i] = intro[i]
      BY <1>8, <2>1, SMTT(60)
    <3> QED
      BY <1>4, <3>1 DEF Text
  <2>2. CASE ~ (i <= Len(intro))
    <3>1. i - Len(intro) \in 1..Len(tools) /\ c[i] = uses[i - Len(intro)]
      BY <1>1, <1>3, <1>8, <2>2
    <3>2. c[i] = ToolUse(<<q, i - Len(intro)>>)
      BY <1>3, <3>1
    <3> QED
      BY <3>2 DEF ToolUse
  <2> QED
    BY <2>1, <2>2
<1>10. Fresh(t) /\ LeadsWithResults(c)
  <2>1. Single(t)
    BY <1>7 DEF Single, Role
  <2>2. \A k \in DOMAIN t.content : ~ t.content[k].stub
    BY <1>7, <1>8, <1>9
  <2>3. LeadsWithResults(c)
    BY <1>8, <1>9 DEF LeadsWithResults, IsResult
  <2> QED
    BY <2>1, <2>2, <2>3 DEF Fresh
<1>11. text \/ tools # <<>> => c # <<>>
  <2>1. text \/ tools # <<>> => Len(c) > 0
    BY <1>1, <1>3, <1>4, <1>8, EmptySeq
  <2> QED
    BY <2>1, EmptySeq
<1>12. Ids(c, "tool_result") = {}
  BY <1>9, IdsAre, SMTT(60)
<1>13. Ids(uses, "tool_use") = {<<q, n>> : n \in 1..Len(tools)}
  <2>1. ASSUME NEW n \in 1..Len(tools)
        PROVE  uses[n].type = "tool_use" /\ uses[n].id = <<q, n>>
    <3>1. uses[n] = ToolUse(<<q, n>>)
      BY <1>3
    <3> QED
      BY <3>1 DEF ToolUse
  <2>2. \A x : x \in Ids(uses, "tool_use") <=>
               \E k \in 1..Len(tools) : uses[k].type = "tool_use" /\ uses[k].id = x
    BY <1>3, IdsAre, SMTT(60)
  <2>3. ASSUME NEW x \in Ids(uses, "tool_use")
        PROVE  x \in {<<q, n>> : n \in 1..Len(tools)}
    <3>1. PICK k \in 1..Len(tools) : uses[k].id = x
      BY <2>2
    <3>2. x = <<q, k>>
      BY <2>1, <3>1
    <3> QED
      BY <3>2
  <2>4. ASSUME NEW n \in 1..Len(tools)
        PROVE  <<q, n>> \in Ids(uses, "tool_use")
    BY <2>1, <2>2
  <2> QED
    BY <2>3, <2>4
<1>14. Ids(c, "tool_use") = Ids(uses, "tool_use")
  <2>1. Ids(intro \o uses, "tool_use") = Ids(intro, "tool_use") \cup Ids(uses, "tool_use")
    BY <1>3, IdsConcat
  <2> QED
    BY <1>4, <1>5, <2>1
<1>15. t \in Turn /\ t.seq = q /\ t.kind = kind /\ t.content = c /\ Role(t) = "assistant"
  BY <1>7 DEF Turn, TurnKinds, ToolKinds, Role
<1> QED
  BY <1>6, <1>10, <1>11, <1>12, <1>13, <1>14, <1>15

\* Curation replaces payloads, nothing else.
LEMMA CuratedSame ==
  ASSUME NEW turns \in Seq(Turn)
  PROVE  /\ Curated(turns) \in Seq(Turn) /\ Len(Curated(turns)) = Len(turns)
         /\ \A k \in 1..Len(turns) : /\ turns[k].kind = Curated(turns)[k].kind
                                     /\ SameBlocks(turns[k].content, Curated(turns)[k].content)
<1>1. Len(turns) \in Nat /\ DOMAIN turns = 1..Len(turns) /\ \A k \in 1..Len(turns) : turns[k] \in Turn
  BY LenProperties, ElementOfSeq
<1> DEFINE Stubbed(t) == [t EXCEPT !.content = StubBlocks(t)]
<1>2. ASSUME NEW t \in Turn
      PROVE  Stubbed(t) \in Turn /\ Stubbed(t).kind = t.kind
             /\ SameBlocks(t.content, Stubbed(t).content)
  <2>1. PICK c \in Seq(Block) : c = t.content
    BY DEF Turn
  <2>2. Len(c) \in Nat /\ DOMAIN c = 1..Len(c) /\ \A k \in 1..Len(c) : c[k] \in Block
    BY LenProperties, ElementOfSeq
  <2>3. \A k \in 1..Len(c) : [c[k] EXCEPT !.stub = IsResult(c[k])] \in Block
    BY <2>2, ZenonT(60) DEF Block, IsResult
  <2>4. StubBlocks(t) = [k \in 1..Len(c) |-> [c[k] EXCEPT !.stub = IsResult(c[k])]]
    BY <2>1, <2>2 DEF StubBlocks
  <2>5. PICK d \in Seq(Block) : d = StubBlocks(t)
    <3>1. StubBlocks(t) \in [1..Len(c) -> Block]
      BY <2>3, <2>4
    <3>2. StubBlocks(t) \in Seq(Block)
      BY <2>2, <3>1, SMTT(60)
    <3> QED
      BY <3>2
  <2>6. Len(d) = Len(c)
    BY <2>2, <2>4, <2>5
  <2>7. ASSUME NEW k \in 1..Len(c)
        PROVE  c[k].type = d[k].type /\ c[k].id = d[k].id
    <3>1. d[k] = [c[k] EXCEPT !.stub = IsResult(c[k])]
      BY <2>4, <2>5
    <3> QED
      BY <2>2, <3>1 DEF Block
  <2>8. Stubbed(t) \in Turn /\ Stubbed(t).kind = t.kind /\ Stubbed(t).content = d
    BY <2>5 DEF Turn
  <2>9. SameBlocks(c, d)
    BY <2>6, <2>7 DEF SameBlocks
  <2> QED
    BY <2>1, <2>8, <2>9
<1>3. \A t \in Turn : SameBlocks(t.content, t.content)
  BY DEF SameBlocks
<1>4. DOMAIN Curated(turns) = 1..Len(turns)
      /\ \A k \in 1..Len(turns) : Curated(turns)[k] = Stubbed(turns[k]) \/ Curated(turns)[k] = turns[k]
  BY <1>1 DEF Curated
<1>5. Curated(turns) = [k \in 1..Len(turns) |-> Curated(turns)[k]]
  BY <1>1 DEF Curated
<1>6. \A k \in 1..Len(turns) : /\ Curated(turns)[k] \in Turn
                               /\ turns[k].kind = Curated(turns)[k].kind
                               /\ SameBlocks(turns[k].content, Curated(turns)[k].content)
  <2> HIDE DEF Stubbed
  <2> QED
    BY <1>1, <1>2, <1>3, <1>4
<1>7. Curated(turns) \in Seq(Turn) /\ Len(Curated(turns)) = Len(turns)
  <2>1. PICK f : f = Curated(turns)
    OBVIOUS
  <2>2. f \in [1..Len(turns) -> Turn]
    BY <1>4, <1>5, <1>6, <2>1
  <2>3. f \in Seq(Turn) /\ Len(f) = Len(turns)
    BY <1>1, <2>2
  <2> QED
    BY <2>1, <2>3
<1> QED
  BY <1>6, <1>7

\* Curation never makes the API reject a history it would accept.
LEMMA HistoryValid ==
  ASSUME NEW turns \in Seq(Turn), Pairs(Messages[turns], {})
  PROVE  WireValid[MessagesForModel(turns)]
<1>1. Messages[turns] \in Seq(Message)
  BY MessagesTyped
<1>2. PICK c \in Seq(Turn) : c = Curated(turns)
  BY CuratedSame
<1>3. Messages[c] \in Seq(Message) /\ SameMessages(Messages[turns], Messages[c])
  BY <1>2, CuratedSame, MessagesSame, MessagesTyped
<1>4. WireValid[Messages[turns]]
  BY <1>1, PairsValid
<1>5. WireValid[Messages[c]]
  BY <1>1, <1>3, <1>4, ValidSame
<1> QED
  BY <1>2, <1>5 DEF MessagesForModel

-----------------------------------------------------------------------------
(* The newest user text, and what depends on it. *)

\* The user text at m is the last one of the thread.
Newest(turns, m) ==
  /\ m \in 1..Len(turns) /\ IsUserText(turns[m])
  /\ \A k \in m + 1..Len(turns) : ~ IsUserText(turns[k])

LEMMA LargestOf ==
  ASSUME NEW n \in Nat, NEW J, J \subseteq 1..n, J # {}
  PROVE  \E x \in J : \A y \in J : x >= y
<1> DEFINE S == {k \in 0..n : \/ \A y \in J : y > k
                              \/ \E x \in J : x <= k /\ \A y \in J : y <= k => x >= y}
<1>1. 0 \in S
  BY DEF S
<1>2. ASSUME NEW k \in 1..n, k - 1 \in S PROVE k \in S
  <2>1. CASE k \in J
    BY <2>1
  <2>2. CASE k \notin J
    <3>1. \A y \in J : y <= k <=> y <= k - 1
      BY <2>2
    <3> QED
      BY <1>2, <3>1
  <2> QED
    BY <2>1, <2>2
<1> HIDE DEF S
<1>3. 0..n \subseteq S
  BY <1>1, <1>2, Climb, ZenonT(20), SMTT(60)
<1>4. (\A y \in J : y \in Nat /\ y <= n) /\ \E y \in J : TRUE
  <2>1. \E y \in J : TRUE
    OBVIOUS
  <2> QED
    BY <2>1
<1>5. (\A y \in J : y > n) \/ \E x \in J : x <= n /\ \A y \in J : y <= n => x >= y
  <2>1. n \in S
    BY <1>3
  <2> QED
    BY <2>1 DEF S
<1>6. ~ \A y \in J : y > n
  BY <1>4
<1> QED
  BY <1>4, <1>5, <1>6

LEMMA LastUserTextIs ==
  ASSUME NEW turns \in Seq(Turn), NEW m, Newest(turns, m)
  PROVE  LastUserText(turns) = m
<1> DEFINE I == {i \in 1..Len(turns) : IsUserText(turns[i])}
<1>1. Len(turns) \in Nat /\ m \in I /\ \A y \in I : m >= y
  BY LenProperties DEF Newest
<1>2. \A x \in I : (\A y \in I : x >= y) => x = m
  BY <1>1
<1>3. Max(I) = m
  BY <1>1, <1>2 DEF Max
<1>4. LastUserText(turns) = IF I # {} THEN Max(I) ELSE 0
  BY DEF LastUserText, SelectLastInSeq
<1> QED
  BY <1>1, <1>3, <1>4

LEMMA PrefixIs ==
  ASSUME NEW x \in Seq(Turn), NEW p \in Nat, p <= Len(x)
  PROVE  /\ SubSeq(x, 1, p) \in Seq(Turn) /\ Len(SubSeq(x, 1, p)) = p
         /\ \A k \in 1..p : SubSeq(x, 1, p)[k] = x[k]
<1>1. Len(x) \in Nat
  BY LenProperties
<1>2. \A k \in 1..p : x[k] \in Turn
  BY <1>1, ElementOfSeq
<1>3. /\ SubSeq(x, 1, p) \in Seq(Turn)
      /\ Len(SubSeq(x, 1, p)) = IF 1 <= p THEN p - 1 + 1 ELSE 0
      /\ \A k \in 1..p - 1 + 1 : SubSeq(x, 1, p)[k] = x[1 + k - 1]
  BY <1>2, SubSeqProperties
<1>4. \A k \in 1..p : k \in 1..p - 1 + 1 /\ 1 + k - 1 = k
  OBVIOUS
<1> QED
  BY <1>3, <1>4

LEMMA SamePrefix ==
  ASSUME NEW x \in Seq(Turn), NEW y \in Seq(Turn), NEW p \in Nat, p <= Len(x), p <= Len(y),
         \A k \in 1..p : y[k] = x[k]
  PROVE  SubSeq(y, 1, p) = SubSeq(x, 1, p)
<1>1. SubSeq(x, 1, p) \in Seq(Turn) /\ Len(SubSeq(x, 1, p)) = p
      /\ \A k \in 1..p : SubSeq(x, 1, p)[k] = x[k]
  BY PrefixIs
<1>2. SubSeq(y, 1, p) \in Seq(Turn) /\ Len(SubSeq(y, 1, p)) = p
      /\ \A k \in 1..p : SubSeq(y, 1, p)[k] = y[k]
  BY PrefixIs
<1> QED
  BY <1>1, <1>2, SeqEqual

\* Up to the newest user text the thread is as it was: the consent rule reads no further.
LEMMA ConsentIsPrefix ==
  ASSUME NEW turns \in Seq(Turn), NEW m, Newest(turns, m)
  PROVE  UserInitiated(turns) <=> UserInitiated(SubSeq(turns, 1, m))
<1>1. Len(turns) \in Nat /\ m \in 1..Len(turns) /\ m \in Int
  BY LenProperties DEF Newest
<1>2. PICK front \in Seq(Turn) : /\ front = SubSeq(turns, 1, m) /\ Len(front) = m
                                 /\ \A k \in 1..m : front[k] = turns[k]
  <2>1. m \in Nat /\ m <= Len(turns)
    BY <1>1
  <2>2. SubSeq(turns, 1, m) \in Seq(Turn) /\ Len(SubSeq(turns, 1, m)) = m
        /\ \A k \in 1..m : SubSeq(turns, 1, m)[k] = turns[k]
    BY <2>1, PrefixIs
  <2> QED
    BY <2>2
<1>3. Newest(front, m)
  BY <1>1, <1>2 DEF Newest
<1>4. LastUserText(turns) = m /\ LastUserText(front) = m
  BY <1>2, <1>3, LastUserTextIs
<1>5. PreviousUserText(turns) = PreviousUserText(front)
  <2>1. {i \in 1..m - 1 : IsUserText(turns[i])} = {i \in 1..m - 1 : IsUserText(front[i])}
    BY <1>1, <1>2
  <2> QED
    BY <1>4, <2>1 DEF PreviousUserText, SelectLastInSubSeq
<1>6. PreviousUserText(turns) + 1 \in Nat \ {0}
  <2>1. PICK J : J = {i \in 1..m - 1 : IsUserText(turns[i])}
    OBVIOUS
  <2>2. PreviousUserText(turns) = IF J # {} THEN Max(J) ELSE 0
    BY <1>4, <2>1 DEF PreviousUserText, SelectLastInSubSeq
  <2>3. J \subseteq 1..m - 1 /\ m - 1 \in Nat
    BY <1>1, <2>1
  <2>4. CASE J # {}
    <3>1. \E x \in J : \A y \in J : x >= y
      BY <2>3, <2>4, LargestOf
    <3>2. PICK p \in J : p = Max(J)
      BY <3>1 DEF Max
    <3>3. p \in Nat /\ PreviousUserText(turns) = p
      BY <2>2, <2>3, <2>4, <3>2
    <3> QED
      BY <3>3
  <2>5. CASE J = {}
    BY <2>2, <2>5
  <2> QED
    BY <2>4, <2>5
<1>7. turns[m] = front[m]
      /\ \A k \in PreviousUserText(turns) + 1..m - 1 : turns[k] = front[k]
  BY <1>1, <1>2, <1>6
<1> QED
  BY <1>2, <1>4, <1>5, <1>7, ZenonT(60) DEF UserInitiated

\* No result of the newest message is stubbed.
LEMMA CuratedFresh ==
  ASSUME NEW turns \in Seq(Turn), NEW m, Newest(turns, m),
         \A k \in DOMAIN turns : turns[k].seq = k /\ Fresh(turns[k]),
         NEW t \in ToSet(Curated(turns)), t.seq > m
  PROVE  \A k \in DOMAIN t.content : ~ t.content[k].stub
<1>1. LastUserText(turns) = m /\ m \in DOMAIN turns /\ DOMAIN turns = 1..Len(turns)
      /\ Len(turns) \in Nat
  BY LastUserTextIs, LenProperties DEF Newest
<1>2. Watermark(turns) = m
  BY <1>1 DEF Watermark
<1>3. PICK k \in DOMAIN turns : t = Curated(turns)[k]
  BY DEF Curated, ToSet
<1>4. t = turns[k] \/ (t.seq = turns[k].seq /\ turns[k].seq < m)
  <2>1. turns[k] \in Turn
    BY <1>1, ElementOfSeq
  <2>2. CASE turns[k].seq < Watermark(turns) /\ Curatable(turns[k])
    <3>1. t = [turns[k] EXCEPT !.content = StubBlocks(turns[k])]
      BY <1>3, <2>2 DEF Curated
    <3> QED
      BY <1>2, <2>1, <2>2, <3>1 DEF Turn
  <2>3. CASE ~ (turns[k].seq < Watermark(turns) /\ Curatable(turns[k]))
    BY <1>3, <2>3 DEF Curated
  <2> QED
    BY <2>2, <2>3
<1>5. t = turns[k]
  <2>1. turns[k].seq = k /\ k \in Int /\ m \in Int
    BY <1>1
  <2> QED
    BY <1>4, <2>1
<1> QED
  BY <1>5 DEF Fresh

-----------------------------------------------------------------------------
(* Sequences of blocks one after the other.                                *)

Pieces == Seq(Seq(Block))

\* What the first so many pieces make.
Flat(ss, b) ==
  /\ b \in [0..Len(ss) -> Seq(Block)] /\ b[0] = <<>>
  /\ \A k \in 1..Len(ss) : b[k] = b[k - 1] \o ss[k]

LEMMA FlattenIs ==
  ASSUME NEW ss \in Pieces
  PROVE  \E b : Flat(ss, b) /\ FlattenSeq(ss) = b[Len(ss)]
<1> DEFINE n == Len(ss)
           G(h) == [i \in 1..n |-> IF i = 1 THEN ss[i] ELSE h[i - 1] \o ss[i]]
           step == [k \in 1..n |-> [s \in Seq(Block) |-> s \o ss[k]]]
<1>1. n \in Nat /\ \A k \in 1..n : ss[k] \in Seq(Block)
  BY LenProperties, ElementOfSeq DEF Pieces
<1>2. PICK e \in Seq(Block) : e = <<>>
  BY EmptySeq
<1>3. step \in [1..n -> [Seq(Block) -> Seq(Block)]]
  <2>1. \A k \in 1..n : \A s \in Seq(Block) : s \o ss[k] \in Seq(Block)
    BY <1>1, ConcatProperties
  <2> QED
    BY <2>1
<1>4. PICK b : Carried(Seq(Block), e, step, n, b)
  <2> HIDE DEF step, n
  <2> QED
    BY <1>1, <1>3, CarriedAlong
<1>5. b \in [0..n -> Seq(Block)] /\ b[0] = e
  BY <1>4 DEF Carried
<1>6. ASSUME NEW k \in 1..n PROVE b[k] = b[k - 1] \o ss[k]
  <2>1. b[k - 1] \in Seq(Block)
    BY <1>1, <1>5, SMTT(60)
  <2>2. b[k] = step[k][b[k - 1]]
    BY <1>4 DEF Carried
  <2> QED
    BY <2>1, <2>2
<1>7. Flat(ss, b)
  BY <1>2, <1>5, <1>6 DEF Flat
<1>8. ASSUME n # 0 PROVE b[1] = ss[1]
  <2>1. 1 \in 1..n /\ 1 - 1 = 0
    BY <1>1, <1>8
  <2>2. b[1] = b[1 - 1] \o ss[1]
    BY <1>6, <2>1
  <2>3. ss[1] \in Seq(Block) /\ b[1] = e \o ss[1]
    BY <1>1, <1>5, <2>1, <2>2
  <2> QED
    BY <1>2, <2>3, ConcatEmptySeq
<1>9. CASE n = 0
  <2>1. FlattenSeq(ss) = ss
    BY <1>9 DEF FlattenSeq
  <2>2. ss = <<>>
    BY <1>9, EmptySeq DEF Pieces
  <2> QED
    BY <1>2, <1>5, <1>7, <1>9, <2>1, <2>2
<1>10. CASE n # 0
  <2>1. PICK g : g = [i \in 1..n |-> b[i]]
    OBVIOUS
  <2>2. g = G(g)
    <3>1. ASSUME NEW i \in 1..n
          PROVE  g[i] = IF i = 1 THEN ss[i] ELSE g[i - 1] \o ss[i]
      <4>1. CASE i = 1
        BY <1>10, <1>8, <2>1, <4>1
      <4>2. CASE i # 1
        <5>1. g[i - 1] = b[i - 1] /\ g[i] = b[i]
          BY <1>1, <2>1, <4>2
        <5> QED
          BY <1>6, <4>2, <5>1
      <4> QED
        BY <4>1, <4>2
    <3> QED
      BY <2>1, <3>1
  <2>3. FlattenSeq(ss) = (CHOOSE h : h = G(h))[n]
    BY <1>10 DEF FlattenSeq
  <2>4. PICK h : h = G(h) /\ FlattenSeq(ss) = h[n]
    BY <2>2, <2>3
  <2>5. \A i \in 1..n : h[i] = IF i = 1 THEN ss[i] ELSE h[i - 1] \o ss[i]
    <3>1. \A i \in 1..n : h[i] = G(h)[i]
      BY <2>4
    <3> HIDE DEF n
    <3> QED
      BY ONLY <3>1
  <2> DEFINE S == {k \in 0..n : k > 0 => h[k] = b[k]}
  <2>6. 0 \in S
    BY <1>1
  <2>7. ASSUME NEW k \in 1..n, k - 1 \in S PROVE k \in S
    <3>1. CASE k = 1
      <4>1. h[k] = b[k]
        BY <1>10, <1>8, <2>5, <3>1
      <4> QED
        BY <1>1, <4>1
    <3>2. CASE k # 1
      <4>1. h[k - 1] = b[k - 1]
        BY <1>1, <2>7, <3>2
      <4>2. h[k] = h[k - 1] \o ss[k]
        BY <2>5, <3>2
      <4>3. b[k] = b[k - 1] \o ss[k]
        BY <1>6
      <4>4. h[k] = b[k]
        BY <4>1, <4>2, <4>3
      <4> QED
        BY <1>1, <4>4
    <3> QED
      BY <3>1, <3>2
  <2>8. 0..n \subseteq S
    <3> HIDE DEF S, n
    <3> QED
      BY <1>1, <2>6, <2>7, Climb, ZenonT(20), SMTT(60)
  <2>9. h[n] = b[n]
    BY <1>1, <1>10, <2>8
  <2> QED
    BY <1>7, <2>4, <2>9
<1> QED
  BY <1>9, <1>10

LEMMA FlatPrefix ==
  ASSUME NEW x \in Pieces, NEW y \in Pieces, NEW b, NEW c, Flat(x, b), Flat(y, c),
         NEW p \in Nat, p <= Len(x), p <= Len(y), \A k \in 1..p : x[k] = y[k]
  PROVE  \A k \in 0..p : b[k] = c[k]
<1> DEFINE S == {k \in 0..p : b[k] = c[k]}
<1>1. 0 \in S
  BY DEF Flat
<1>2. ASSUME NEW k \in 1..p, k - 1 \in S PROVE k \in S
  <2>1. Len(x) \in Nat /\ Len(y) \in Nat
    BY LenProperties DEF Pieces
  <2>2. k \in 1..Len(x) /\ k \in 1..Len(y)
    BY <2>1
  <2>3. b[k] = b[k - 1] \o x[k] /\ c[k] = c[k - 1] \o y[k] /\ b[k - 1] = c[k - 1]
    BY <1>2, <2>2 DEF Flat
  <2>4. x[k] = y[k]
    OBVIOUS
  <2>5. b[k] = c[k]
    BY ONLY <2>3, <2>4
  <2> QED
    BY <2>5
<1>3. 0..p \subseteq S
  <2> HIDE DEF S
  <2> QED
    BY <1>1, <1>2, Climb, ZenonT(20), SMTT(60)
<1> QED
  BY <1>3

LEMMA FlattenAppend ==
  ASSUME NEW ss \in Pieces, NEW c \in Seq(Block)
  PROVE  /\ FlattenSeq(ss) \in Seq(Block)
         /\ Append(ss, c) \in Pieces
         /\ FlattenSeq(Append(ss, c)) = FlattenSeq(ss) \o c
<1>1. PICK n \in Nat, x \in Pieces : n = Len(ss) /\ x = Append(ss, c)
  BY AppendProperties, LenProperties DEF Pieces
<1>2. Len(x) = n + 1 /\ x[n + 1] = c /\ \A k \in 1..n : x[k] = ss[k]
  BY <1>1, AppendProperties DEF Pieces
<1>3. PICK b : Flat(ss, b) /\ FlattenSeq(ss) = b[n]
  BY <1>1, FlattenIs
<1>4. PICK d : Flat(x, d) /\ FlattenSeq(x) = d[n + 1]
  BY <1>2, FlattenIs
<1>5. d[n] = b[n]
  <2>1. Flat(ss, b) /\ Flat(x, d) /\ n <= Len(ss) /\ n <= Len(x) /\ \A k \in 1..n : ss[k] = x[k]
    BY <1>1, <1>2, <1>3, <1>4
  <2>2. \A k \in 0..n : b[k] = d[k]
    BY <2>1, FlatPrefix
  <2> QED
    BY <2>2
<1>6. d[n + 1] = d[n] \o c
  <2>1. PICK k \in 1..Len(x) : k = n + 1 /\ k - 1 = n
    BY <1>2
  <2>2. \A i \in 1..Len(x) : d[i] = d[i - 1] \o x[i]
    BY <1>4 DEF Flat
  <2>3. d[k] = d[k - 1] \o x[k]
    BY <2>2
  <2> QED
    BY <1>2, <2>1, <2>3
<1>7. b[n] \in Seq(Block)
  BY <1>1, <1>3 DEF Flat
<1> QED
  BY <1>1, <1>3, <1>4, <1>5, <1>6, <1>7

LEMMA FlattenNone == FlattenSeq(<<>>) = <<>>
  BY DEF FlattenSeq

\* Putting the results first loses and doubles nothing.
LEMMA ResultsFirstLen ==
  ASSUME NEW c \in Seq(Block)
  PROVE  Len(ResultsFirst[c]) = Len(c)
<1>1. PICK n \in Nat : n = Len(c)
  BY LenProperties
<1>2. PICK p : Kept(c, {"tool_result"}, p) /\ OfTypes(c, {"tool_result"}) = p[n]
  BY <1>1, OfTypesIs
<1>3. PICK q : Kept(c, {"text", "tool_use"}, q) /\ OfTypes(c, {"text", "tool_use"}) = q[n]
  BY <1>1, OfTypesIs
<1>4. \A k \in 0..n : p[k] \in Seq(Block) /\ q[k] \in Seq(Block) /\ Len(p[k]) \in Nat /\ Len(q[k]) \in Nat
  BY <1>1, <1>2, <1>3, LenProperties DEF Kept
<1> DEFINE All(k) == Len(p[k]) + Len(q[k]) = k
           S == {k \in 0..n : All(k)}
<1> HIDE DEF All
<1>5. 0 \in S
  <2>1. p[0] = <<>> /\ q[0] = <<>>
    BY <1>2, <1>3 DEF Kept
  <2>2. Len(<<>>) = 0
    OBVIOUS
  <2>3. All(0)
    BY <2>1, <2>2 DEF All
  <2> QED
    BY <1>1, <2>3
<1>6. ASSUME NEW k \in 1..n, k - 1 \in S
      PROVE  k \in S
  <2> SUFFICES All(k)
    OBVIOUS
  <2>1. PICK b \in Block : b = c[k]
    BY <1>1, ElementOfSeq
  <2>2. PICK x \in Seq(Block), y \in Seq(Block) : x = p[k - 1] /\ y = q[k - 1]
    BY <1>4
  <2>3. p[k] = KeepOne({"tool_result"}, b, x) /\ q[k] = KeepOne({"text", "tool_use"}, b, y)
    BY <1>1, <1>2, <1>3, <2>1, <2>2 DEF Kept
  <2>4. Len(x) + Len(y) = k - 1
    BY <1>6, <2>2 DEF All
  <2>5. /\ Len(x) \in Nat /\ Len(y) \in Nat
        /\ Len(Append(x, b)) = Len(x) + 1 /\ Len(Append(y, b)) = Len(y) + 1
    BY <2>1, <2>2, LenProperties, AppendProperties
  <2>6. CASE b.type = "tool_result"
    <3>1. p[k] = Append(x, b) /\ q[k] = y
      BY <2>3, <2>6 DEF KeepOne
    <3>2. Len(p[k]) + Len(q[k]) = k
      BY <2>4, <2>5, <3>1
    <3> QED
      BY <3>2 DEF All
  <2>7. CASE b.type # "tool_result"
    <3>1. b.type \in {"text", "tool_use"}
      BY <2>1, <2>7 DEF Block
    <3>2. p[k] = x /\ q[k] = Append(y, b)
      BY <2>3, <2>7, <3>1 DEF KeepOne
    <3>3. Len(p[k]) + Len(q[k]) = k
      BY <2>4, <2>5, <3>2
    <3> QED
      BY <3>3 DEF All
  <2> QED
    BY <2>6, <2>7
<1>7. n \in S
  <2> HIDE DEF S
  <2>1. 0..n \subseteq S
    BY <1>5, <1>6, Climb, ZenonT(20), SMTT(60)
  <2> QED
    BY <2>1
<1>8. ResultsFirst[c] = p[n] \o q[n]
  BY <1>2, <1>3 DEF ResultsFirst
<1>9. Len(p[n] \o q[n]) = Len(p[n]) + Len(q[n])
  BY <1>4, ConcatProperties
<1> QED
  BY <1>1, <1>7, <1>8, <1>9 DEF All

Contents(ms) == [k \in DOMAIN ms |-> ms[k].content]

LEMMA ContentsIs ==
  ASSUME NEW ms \in Seq(Message)
  PROVE  /\ Len(ms) \in Nat /\ DOMAIN ms = 1..Len(ms)
         /\ \A k \in 1..Len(ms) : ms[k] \in Message /\ ms[k].content \in Seq(Block)
         /\ Contents(ms) \in Pieces /\ Len(Contents(ms)) = Len(ms)
         /\ \A k \in 1..Len(ms) : Contents(ms)[k] = ms[k].content
<1>1. Len(ms) \in Nat /\ DOMAIN ms = 1..Len(ms) /\ \A k \in 1..Len(ms) : ms[k] \in Message
  BY LenProperties, ElementOfSeq
<1>2. \A k \in 1..Len(ms) : ms[k].content \in Seq(Block)
  BY <1>1 DEF Message
<1>3. Contents(ms) = [k \in 1..Len(ms) |-> ms[k].content]
  BY <1>1 DEF Contents
<1>4. Contents(ms) \in Pieces
  BY <1>1, <1>2, <1>3, IsASeq DEF Pieces
<1>5. Len(Contents(ms)) = Len(ms)
  BY <1>1, <1>3, <1>4, LenProperties DEF Pieces
<1> QED
  BY <1>1, <1>2, <1>3, <1>4, <1>5

-----------------------------------------------------------------------------
(* What a longer thread keeps of the messages of a shorter one.            *)

\* One more block, picked or not.
LEMMA OfTypesAppend ==
  ASSUME NEW c \in Seq(Block), NEW b \in Block, NEW types
  PROVE  OfTypes(Append(c, b), types) = KeepOne(types, b, OfTypes(c, types))
<1>1. PICK n \in Nat, x \in Seq(Block) : n = Len(c) /\ x = Append(c, b)
  BY LenProperties, AppendProperties
<1>2. Len(x) = n + 1 /\ x[n + 1] = b /\ \A k \in 1..n : x[k] = c[k]
  BY <1>1, AppendProperties
<1>3. PICK p : Kept(c, types, p) /\ OfTypes(c, types) = p[n]
  BY <1>1, OfTypesIs
<1>4. PICK q : Kept(x, types, q) /\ OfTypes(x, types) = q[n + 1]
  BY <1>2, OfTypesIs
<1> DEFINE S == {k \in 0..n : p[k] = q[k]}
<1>5. 0 \in S
  BY <1>1, <1>3, <1>4 DEF Kept
<1>6. ASSUME NEW k \in 1..n, k - 1 \in S PROVE k \in S
  <2>1. p[k] = KeepOne(types, c[k], p[k - 1])
    BY <1>1, <1>3 DEF Kept
  <2>2. q[k] = KeepOne(types, x[k], q[k - 1])
    BY <1>2, <1>4 DEF Kept
  <2>3. p[k - 1] = q[k - 1] /\ x[k] = c[k]
    BY <1>2, <1>6
  <2>4. p[k] = q[k]
    BY ONLY <2>1, <2>2, <2>3
  <2> QED
    BY <2>4
<1>7. p[n] = q[n]
  <2> HIDE DEF S
  <2>1. 0..n \subseteq S
    BY <1>5, <1>6, Climb, ZenonT(20), SMTT(60)
  <2> QED
    BY <2>1 DEF S
<1>8. q[n + 1] = KeepOne(types, b, q[n])
  <2>1. PICK k \in 1..Len(x) : k = n + 1 /\ k - 1 = n
    BY <1>2
  <2>2. q[k] = KeepOne(types, x[k], q[k - 1])
    BY <1>4 DEF Kept
  <2> QED
    BY <1>2, <2>1, <2>2
<1> QED
  BY <1>1, <1>3, <1>4, <1>7, <1>8

\* What is no result goes behind what is there.
LEMMA ResultsFirstAppend ==
  ASSUME NEW c \in Seq(Block), NEW b \in Block, ~ IsResult(b)
  PROVE  ResultsFirst[Append(c, b)] = Append(ResultsFirst[c], b)
<1>1. PICK x \in Seq(Block) : x = Append(c, b)
  BY AppendProperties
<1>2. PICK p \in Seq(Block), q \in Seq(Block) :
        p = OfTypes(c, {"tool_result"}) /\ q = OfTypes(c, {"text", "tool_use"})
  BY OfTypesPicks
<1>3. b.type \notin {"tool_result"} /\ b.type \in {"text", "tool_use"}
  BY DEF Block, IsResult
<1>4. OfTypes(x, {"tool_result"}) = p
  BY <1>1, <1>2, <1>3, OfTypesAppend DEF KeepOne
<1>5. OfTypes(x, {"text", "tool_use"}) = Append(q, b)
  BY <1>1, <1>2, <1>3, OfTypesAppend DEF KeepOne
<1>6. ResultsFirst[x] = p \o Append(q, b) /\ ResultsFirst[c] = p \o q
  BY <1>2, <1>4, <1>5 DEF ResultsFirst
<1>7. p \o Append(q, b) = Append(p \o q, b)
  BY SMTT(60)
<1> QED
  BY <1>1, <1>6, <1>7

\* Blocks whose results lead are in their places already.
LEMMA LedIsSorted ==
  ASSUME NEW c \in Seq(Block), LeadsWithResults(c)
  PROVE  ResultsFirst[c] = c
<1>1. PICK n \in Nat : n = Len(c) /\ DOMAIN c = 1..n
  BY LenProperties
<1>2. PICK p : Kept(c, {"tool_result"}, p) /\ OfTypes(c, {"tool_result"}) = p[n]
  BY <1>1, OfTypesIs
<1>3. PICK q : Kept(c, {"text", "tool_use"}, q) /\ OfTypes(c, {"text", "tool_use"}) = q[n]
  BY <1>1, OfTypesIs
<1>4. \A k \in 0..n : p[k] \in Seq(Block) /\ q[k] \in Seq(Block)
  BY <1>1, <1>2, <1>3 DEF Kept
<1> DEFINE Done(k) ==
      /\ Len(p[k] \o q[k]) = k /\ \A j \in 1..k : (p[k] \o q[k])[j] = c[j]
      /\ q[k] # <<>> => \E j \in 1..k : ~ IsResult(c[j])
           S == {k \in 0..n : Done(k)}
<1> HIDE DEF Done
<1>5. 0 \in S
  <2>1. p[0] = <<>> /\ q[0] = <<>>
    BY <1>2, <1>3 DEF Kept
  <2>2. Done(0)
    BY <2>1 DEF Done
  <2> QED
    BY <1>1, <2>2
<1>6. ASSUME NEW k \in 1..n, k - 1 \in S PROVE k \in S
  <2> SUFFICES Done(k)
    OBVIOUS
  <2>1. PICK b \in Block : b = c[k]
    BY <1>1, ElementOfSeq
  <2>2. PICK x \in Seq(Block), y \in Seq(Block) : x = p[k - 1] /\ y = q[k - 1]
    BY <1>4
  <2>3. p[k] = KeepOne({"tool_result"}, b, x) /\ q[k] = KeepOne({"text", "tool_use"}, b, y)
    BY <1>1, <1>2, <1>3, <2>1, <2>2 DEF Kept
  <2>4. PICK z \in Seq(Block) : z = x \o y
    BY ConcatProperties
  <2>5. /\ Len(z) = k - 1 /\ \A j \in 1..k - 1 : z[j] = c[j]
        /\ y # <<>> => \E j \in 1..k - 1 : ~ IsResult(c[j])
    BY <1>6, <2>2, <2>4 DEF Done
  <2>6. p[k] \o q[k] = Append(z, b) /\ (q[k] # <<>> => \E j \in 1..k : ~ IsResult(c[j]))
    <3>1. CASE IsResult(b)
      <4>1. y = <<>>
        <5>1. \A j \in 1..k - 1 : j \in DOMAIN c /\ k \in DOMAIN c /\ j < k
          BY <1>1
        <5>2. \A i, j \in DOMAIN c : i < j /\ IsResult(c[j]) => IsResult(c[i])
          BY DEF LeadsWithResults
        <5>3. \A j \in 1..k - 1 : IsResult(c[j])
          BY <2>1, <3>1, <5>1, <5>2
        <5> QED
          BY <2>5, <5>3
      <4>2. p[k] = Append(x, b) /\ q[k] = y
        BY <2>3, <3>1 DEF KeepOne, IsResult
      <4>3. x \o <<>> = x /\ Append(x, b) \in Seq(Block) /\ Append(x, b) \o <<>> = Append(x, b)
        BY AppendProperties, ConcatEmptySeq
      <4> QED
        BY <2>4, <4>1, <4>2, <4>3
    <3>2. CASE ~ IsResult(b)
      <4>1. b.type \in {"text", "tool_use"}
        BY <3>2 DEF Block, IsResult
      <4>2. p[k] = x /\ q[k] = Append(y, b)
        BY <2>3, <3>2, <4>1 DEF KeepOne, IsResult
      <4>3. x \o Append(y, b) = Append(x \o y, b)
        BY SMTT(60)
      <4>4. k \in 1..k /\ ~ IsResult(c[k])
        BY <2>1, <3>2
      <4> QED
        BY <2>4, <4>2, <4>3, <4>4
    <3> QED
      BY <3>1, <3>2
  <2>7. /\ Len(Append(z, b)) = Len(z) + 1 /\ Append(z, b)[Len(z) + 1] = b
        /\ \A j \in 1..Len(z) : Append(z, b)[j] = z[j]
    BY AppendProperties
  <2>8. Len(p[k] \o q[k]) = k /\ \A j \in 1..k : (p[k] \o q[k])[j] = c[j]
    <3>1. \A j \in 1..k : j \in 1..k - 1 \/ j = k
      OBVIOUS
    <3> QED
      BY <2>1, <2>5, <2>6, <2>7, <3>1, SMTT(60)
  <2> QED
    BY <2>6, <2>8 DEF Done
<1>7. Done(n)
  <2> HIDE DEF S
  <2>1. 0..n \subseteq S
    BY <1>5, <1>6, Climb, ZenonT(20), SMTT(60)
  <2> QED
    BY <2>1 DEF S
<1>8. ResultsFirst[c] = p[n] \o q[n]
  BY <1>2, <1>3 DEF ResultsFirst
<1>9. PICK z \in Seq(Block) : z = p[n] \o q[n]
  <2>1. PICK x \in Seq(Block), y \in Seq(Block) : x = p[n] /\ y = q[n]
    BY <1>4
  <2>2. x \o y \in Seq(Block)
    BY ConcatProperties
  <2> QED
    BY <2>1, <2>2
<1>10. Len(z) = Len(c) /\ \A j \in 1..Len(z) : z[j] = c[j]
  BY <1>1, <1>7, <1>9 DEF Done
<1>11. z = c
  BY <1>10, SeqEqual
<1> QED
  BY <1>8, <1>9, <1>11

\* Results lead every message of the user's.
Led(ms) == \A k \in 1..Len(ms) : ms[k].role = "user" => LeadsWithResults(ms[k].content)

LEMMA LedOn ==
  ASSUME NEW ms \in Seq(Message), NEW t \in Turn, NEW next, next = Extend(t)[ms], Led(ms), Single(t)
  PROVE  Led(next)
<1>1. next \in Seq(Message) /\ (JoinedTo(ms, t, next) \/ StartedBy(ms, t, next))
  BY ExtendIs
<1>2. PICK m \in Nat : m = Len(ms)
  BY LenProperties
<1>3. CASE StartedBy(ms, t, next)
  <2>1. /\ Len(next) = m + 1 /\ next[m + 1].content = t.content /\ next[m + 1].role = Role(t)
        /\ \A k \in 1..m : next[k] = ms[k]
    BY <1>2, <1>3 DEF StartedBy
  <2>2. Role(t) = "user" => LeadsWithResults(t.content)
    <3>1. PICK c \in Seq(Block) : c = t.content /\ DOMAIN c = 1..Len(c)
      BY LenProperties DEF Turn
    <3> QED
      BY <3>1 DEF Single, LeadsWithResults
  <2>3. \A k \in 1..m + 1 : k \in 1..m \/ k = m + 1
    OBVIOUS
  <2> QED
    BY <1>2, <2>1, <2>2, <2>3 DEF Led
<1>4. CASE JoinedTo(ms, t, next)
  <2>1. m > 0 /\ Len(next) = m /\ \A k \in 1..m - 1 : next[k] = ms[k]
    BY <1>2, <1>4 DEF JoinedTo
  <2>2. LeadsWithResults(next[m].content)
    <3>1. PICK d \in Seq(Block), c \in Seq(Block) : d = ms[m].content /\ c = t.content
      BY <1>2, <2>1, ContentsIs DEF Turn
    <3>2. PICK e \in Seq(Block) : e = d \o c
      BY ConcatProperties
    <3> QED
      BY <1>2, <1>4, <3>1, <3>2, ResultsFirstKeeps DEF JoinedTo
  <2>3. \A k \in 1..m : k \in 1..m - 1 \/ k = m
    OBVIOUS
  <2> QED
    BY <1>2, <2>1, <2>2, <2>3 DEF Led
<1> QED
  BY <1>1, <1>3, <1>4

Begins(x, y) == Len(x) <= Len(y) /\ \A k \in 1..Len(x) : y[k] = x[k]

\* The old messages stay, but for the last: turns merged into it make it longer, and if they
\* came calmly - no result among them - they stand behind what it held.
Onto(old, new, calm) ==
  /\ Len(old) <= Len(new) /\ \A k \in 1..Len(old) - 1 : new[k] = old[k]
  /\ Len(old) > 0 =>
       /\ new[Len(old)].role = old[Len(old)].role
       /\ \/ new[Len(old)] = old[Len(old)]
          \/ Len(new[Len(old)].content) > Len(old[Len(old)].content)
       /\ calm => Begins(old[Len(old)].content, new[Len(old)].content)

LEMMA OntoItself ==
  ASSUME NEW ms \in Seq(Message), NEW calm
  PROVE  Onto(ms, ms, calm)
<1>1. Len(ms) \in Nat /\ \A k \in 1..Len(ms) : ms[k].content \in Seq(Block)
  BY ContentsIs
<1>2. \A c \in Seq(Block) : Begins(c, c)
  BY LenProperties DEF Begins
<1> QED
  BY <1>1, <1>2 DEF Onto

LEMMA OntoOn ==
  ASSUME NEW old \in Seq(Message), NEW new \in Seq(Message), NEW calm, calm \in BOOLEAN,
         Onto(old, new, calm), Led(new), NEW t \in Turn, Single(t),
         calm /\ Len(new) = Len(old) => t.kind # "tool_result",
         NEW next, next = Extend(t)[new]
  PROVE  Onto(old, next, calm)
<1>1. next \in Seq(Message) /\ (JoinedTo(new, t, next) \/ StartedBy(new, t, next))
  BY ExtendIs
<1>2. PICK m \in Nat, n \in Nat : m = Len(old) /\ n = Len(new)
  BY LenProperties
<1>3. m <= n /\ \A k \in 1..m - 1 : new[k] = old[k]
  BY <1>2 DEF Onto
<1>4. CASE m < n \/ StartedBy(new, t, next)
  <2>1. n <= Len(next) /\ \A k \in 1..m : next[k] = new[k]
    <3>1. CASE StartedBy(new, t, next)
      BY <1>2, <1>3, <3>1 DEF StartedBy
    <3>2. CASE m < n /\ JoinedTo(new, t, next)
      BY <1>2, <1>3, <3>2 DEF JoinedTo
    <3> QED
      BY <1>1, <1>4, <3>1, <3>2
  <2> QED
    BY <1>2, <1>3, <2>1 DEF Onto
<1>5. CASE m = n /\ JoinedTo(new, t, next)
  <2>1. /\ n > 0 /\ Len(next) = n /\ new[n].role = "user" /\ Role(t) = "user" /\ next[n].role = "user"
        /\ \A k \in 1..n - 1 : next[k] = new[k]
        /\ next[n].content = ResultsFirst[new[n].content \o t.content]
    BY <1>2, <1>5 DEF JoinedTo
  <2>2. PICK a \in Seq(Block), d \in Seq(Block), c \in Seq(Block) :
          a = old[m].content /\ d = new[n].content /\ c = t.content
    <3>1. \A k \in 1..Len(old) : old[k].content \in Seq(Block)
      BY ContentsIs
    <3>2. \A k \in 1..Len(new) : new[k].content \in Seq(Block)
      BY ContentsIs
    <3>3. n \in 1..Len(old) /\ n \in 1..Len(new)
      BY <1>2, <1>5, <2>1
    <3> QED
      BY <1>5, <3>1, <3>2, <3>3 DEF Turn
  <2>3. PICK e \in Seq(Block), f \in Seq(Block) : e = d \o c /\ f = ResultsFirst[e]
    BY ConcatProperties, ResultsFirstKeeps
  <2>4. next[n].content = f
    BY <2>1, <2>2, <2>3
  <2>5. /\ Len(a) \in Nat /\ Len(d) \in Nat /\ Len(c) = 1
        /\ (IsResult(c[1]) <=> t.kind = "tool_result")
    BY <2>1, <2>2, LenProperties DEF Single
  <2>6. Len(f) = Len(d) + 1
    <3>1. Len(e) = Len(d) + Len(c)
      BY <2>3, ConcatProperties
    <3>2. Len(f) = Len(e)
      BY <2>3, ResultsFirstLen
    <3> QED
      BY <2>5, <3>1, <3>2
  <2>7. Len(f) > Len(a) /\ new[m].role = old[m].role /\ (calm => Begins(a, d))
    <3>1. /\ new[m].role = old[m].role /\ (new[m] = old[m] \/ Len(d) > Len(a))
          /\ (calm => Begins(a, d))
      BY <1>2, <1>5, <2>1, <2>2 DEF Onto
    <3>2. Len(d) >= Len(a)
      BY <1>5, <2>2, <2>5, <3>1, SMTT(60)
    <3> QED
      BY <2>5, <2>6, <3>1, <3>2
  <2>8. ASSUME calm
        PROVE  Begins(a, f)
    <3>1. PICK b \in Block : b = c[1]
      <4>1. \A k \in 1..Len(c) : c[k] \in Block
        BY ElementOfSeq
      <4> QED
        BY <2>5, <4>1
    <3>2. ~ IsResult(b)
      BY <1>2, <1>5, <2>5, <2>8, <3>1
    <3>3. e = Append(d, b)
      <4>1. c = <<b>>
        BY <2>5, <3>1
      <4> QED
        BY <2>3, <4>1
    <3>4. ResultsFirst[d] = d
      <4>1. LeadsWithResults(d)
        BY <1>2, <2>1, <2>2 DEF Led
      <4> QED
        BY <4>1, LedIsSorted
    <3>5. f = Append(d, b)
      BY <2>3, <3>2, <3>3, <3>4, ResultsFirstAppend
    <3>6. Len(f) = Len(d) + 1 /\ \A k \in 1..Len(d) : f[k] = d[k]
      BY <3>5, AppendProperties
    <3> QED
      BY <2>5, <2>7, <2>8, <3>6, SMTT(60) DEF Begins
  <2> QED
    BY <1>2, <1>3, <1>5, <2>1, <2>2, <2>4, <2>7, <2>8 DEF Onto
<1> QED
  BY <1>1, <1>3, <1>4, <1>5

\* The results after the first n turns follow a reply that came after them, too.
Calm(turns, n) ==
  \A k \in n + 1..Len(turns) :
    turns[k].kind = "tool_result" => \E j \in n + 1..k - 1 : Role(turns[j]) = "assistant"

LEMMA MessagesGrow ==
  ASSUME NEW turns \in Seq(Turn), \A k \in 1..Len(turns) : Single(turns[k]),
         NEW n \in Nat, n <= Len(turns), NEW calm, calm = Calm(turns, n)
  PROVE  Onto(Messages[SubSeq(turns, 1, n)], Messages[turns], calm)
<1>1. PICK w \in Nat : w = Len(turns) /\ n <= w
  BY LenProperties
<1>2. PICK x \in Seq(Turn) : /\ x = SubSeq(turns, 1, n) /\ Len(x) = n
                             /\ \A k \in 1..n : x[k] = turns[k]
  BY PrefixIs
<1>3. PICK b : Built(turns, b) /\ Messages[turns] = b[w]
  BY <1>1, MessagesAre
<1>4. PICK c : Built(x, c) /\ Messages[x] = c[n]
  BY <1>2, MessagesAre
<1>5. b[n] = c[n]
  <2> DEFINE S == {k \in 0..n : b[k] = c[k]}
  <2>1. 0 \in S
    BY <1>3, <1>4 DEF Built
  <2>2. ASSUME NEW k \in 1..n, k - 1 \in S PROVE k \in S
    <3>1. b[k] = Extend(turns[k])[b[k - 1]]
      BY <1>1, <1>3 DEF Built
    <3>2. c[k] = Extend(x[k])[c[k - 1]]
      BY <1>2, <1>4 DEF Built
    <3>3. b[k - 1] = c[k - 1] /\ x[k] = turns[k]
      BY <1>2, <2>2
    <3>4. b[k] = c[k]
      BY ONLY <3>1, <3>2, <3>3
    <3> QED
      BY <3>4
  <2> HIDE DEF S
  <2>3. 0..n \subseteq S
    BY <2>1, <2>2, Climb, ZenonT(20), SMTT(60)
  <2> QED
    BY <2>3 DEF S
<1>6. \A k \in 0..w : b[k] \in Seq(Message)
  BY <1>1, <1>3 DEF Built
<1>7. calm \in BOOLEAN
  BY DEF Calm
<1>8. PICK old \in Seq(Message) : old = b[n]
  BY <1>1, <1>6
<1> DEFINE Good(k) ==
      /\ Led(b[k])
      /\ k >= n =>
           /\ Onto(old, b[k], calm)
           /\ Len(b[k]) = Len(old) => \A j \in n + 1..k : Role(turns[j]) # "assistant"
           S == {k \in 0..w : Good(k)}
<1> HIDE DEF Good
<1>9. Good(0)
  <2>1. b[0] = <<>> /\ Len(b[0]) = 0
    BY <1>3, EmptySeq DEF Built
  <2>2. Led(b[0])
    BY <2>1 DEF Led
  <2>3. CASE n = 0
    BY <1>8, <2>2, <2>3, OntoItself DEF Good
  <2>4. CASE n > 0
    BY <2>2, <2>4 DEF Good
  <2> QED
    BY <2>3, <2>4
<1>10. ASSUME NEW k \in 1..w, k - 1 \in S PROVE k \in S
  <2> SUFFICES Good(k)
    OBVIOUS
  <2>1. PICK t \in Turn : t = turns[k] /\ Single(t)
    BY <1>1, ElementOfSeq
  <2>2. PICK new \in Seq(Message), next \in Seq(Message) :
          new = b[k - 1] /\ next = b[k] /\ next = Extend(t)[new]
    BY <1>1, <1>3, <1>6, <2>1, SMTT(60) DEF Built
  <2>3. Good(k - 1)
    BY <1>10
  <2>4. Led(next)
    BY <2>1, <2>2, <2>3, LedOn DEF Good
  <2>5. CASE k < n
    BY <2>2, <2>4, <2>5 DEF Good
  <2>6. CASE k = n
    <3>1. \A j \in n + 1..k : FALSE
      BY <2>6
    <3> QED
      BY <1>8, <2>2, <2>4, <2>6, <3>1, OntoItself DEF Good
  <2>7. CASE k > n
    <3>1. /\ Led(new) /\ Onto(old, new, calm)
          /\ Len(new) = Len(old) => \A j \in n + 1..k - 1 : Role(turns[j]) # "assistant"
      BY <2>2, <2>3, <2>7 DEF Good
    <3>2. ASSUME calm, Len(new) = Len(old)
          PROVE  t.kind # "tool_result"
      <4>1. k \in n + 1..Len(turns)
        BY <1>1, <2>7
      <4> QED
        BY <2>1, <3>1, <3>2, <4>1 DEF Calm
    <3>3. Onto(old, next, calm)
      BY <1>7, <2>1, <2>2, <3>1, <3>2, OntoOn
    <3>4. ASSUME Len(next) = Len(old), NEW j \in n + 1..k
          PROVE  Role(turns[j]) # "assistant"
      <4>1. JoinedTo(new, t, next) \/ StartedBy(new, t, next)
        BY <2>2, ExtendIs
      <4>2. Len(old) \in Nat /\ Len(new) \in Nat /\ Len(old) <= Len(new)
        BY <3>1, LenProperties DEF Onto
      <4>3. ~ StartedBy(new, t, next)
        BY <3>4, <4>2 DEF StartedBy
      <4>4. Len(new) = Len(old) /\ Role(t) = "user"
        BY <3>4, <4>1, <4>3 DEF JoinedTo
      <4>5. j \in n + 1..k - 1 \/ j = k
        OBVIOUS
      <4> QED
        BY <2>1, <3>1, <4>4, <4>5
    <3> QED
      BY <2>2, <2>4, <3>3, <3>4 DEF Good
  <2> QED
    BY <2>5, <2>6, <2>7
<1>11. Good(w)
  <2>1. 0 \in S
    BY <1>1, <1>9
  <2> HIDE DEF S
  <2>2. 0..w \subseteq S
    BY <1>10, <2>1, Climb, ZenonT(20), SMTT(60)
  <2> QED
    BY <2>2 DEF S
<1> QED
  BY <1>1, <1>2, <1>3, <1>4, <1>5, <1>8, <1>11 DEF Good

-----------------------------------------------------------------------------
(* And of its bytes. *)

LEMMA BytesIs ==
  ASSUME NEW ms \in Seq(Message)
  PROVE  Bytes[ms] = FlattenSeq(Contents(ms)) /\ Bytes[ms] \in Seq(Block)
<1>1. Bytes[ms] = FlattenSeq(Contents(ms))
  BY DEF Bytes, Contents
<1>2. PICK b, x : x \in Pieces /\ x = Contents(ms) /\ Flat(x, b) /\ FlattenSeq(x) = b[Len(x)]
  BY ContentsIs, FlattenIs
<1>3. Len(x) \in 0..Len(x)
  BY LenProperties DEF Pieces
<1> QED
  BY <1>1, <1>2, <1>3 DEF Flat

LEMMA BeginsConcat ==
  ASSUME NEW x \in Seq(Block), NEW y \in Seq(Block)
  PROVE  Begins(x, x \o y)
  BY ConcatProperties, LenProperties DEF Begins

LEMMA BeginsAfter ==
  ASSUME NEW a \in Seq(Block), NEW x \in Seq(Block), NEW y \in Seq(Block), Begins(x, y)
  PROVE  Begins(a \o x, a \o y)
<1>1. /\ Len(a) \in Nat /\ Len(x) \in Nat /\ Len(y) \in Nat
      /\ Len(x) <= Len(y) /\ \A k \in 1..Len(x) : y[k] = x[k]
  BY LenProperties DEF Begins
<1>2. /\ Len(a \o x) = Len(a) + Len(x)
      /\ \A i \in 1..Len(a) + Len(x) :
           (a \o x)[i] = IF i <= Len(a) THEN a[i] ELSE x[i - Len(a)]
  BY ConcatProperties
<1>3. /\ Len(a \o y) = Len(a) + Len(y)
      /\ \A i \in 1..Len(a) + Len(y) :
           (a \o y)[i] = IF i <= Len(a) THEN a[i] ELSE y[i - Len(a)]
  BY ConcatProperties
<1>4. ASSUME NEW i \in 1..Len(a) + Len(x) PROVE (a \o y)[i] = (a \o x)[i]
  <2>1. i \in 1..Len(a) + Len(y)
    BY <1>1
  <2>2. CASE i <= Len(a)
    BY <1>2, <1>3, <2>1, <2>2
  <2>3. CASE ~ (i <= Len(a))
    <3>1. i - Len(a) \in 1..Len(x)
      BY <1>1, <2>3
    <3> QED
      BY <1>1, <1>2, <1>3, <2>1, <2>3, <3>1
  <2> QED
    BY <2>2, <2>3
<1> QED
  BY <1>1, <1>2, <1>3, <1>4 DEF Begins

\* What the first pieces make begins what all of them make.
LEMMA FlatBegins ==
  ASSUME NEW x \in Pieces, NEW b, Flat(x, b), NEW p \in Nat, p <= Len(x)
  PROVE  \A k \in p..Len(x) : Begins(b[p], b[k])
<1>1. PICK n \in Nat : n = Len(x)
  BY LenProperties DEF Pieces
<1>2. \A k \in 0..n : b[k] \in Seq(Block)
  BY <1>1 DEF Flat
<1>3. PICK a \in Seq(Block) : a = b[p]
  BY <1>1, <1>2
<1> DEFINE S == {k \in 0..n : k >= p => Begins(a, b[k])}
<1>4. \A c \in Seq(Block) : Begins(c, c)
  BY LenProperties DEF Begins
<1>5. 0 \in S
  BY <1>3, <1>4
<1>6. ASSUME NEW k \in 1..n, k - 1 \in S PROVE k \in S
  <2>1. CASE k <= p
    BY <1>3, <1>4, <2>1
  <2>2. CASE k > p
    <3>1. PICK c \in Seq(Block), d \in Seq(Block), e \in Seq(Block) :
            c = b[k - 1] /\ d = x[k] /\ e = b[k]
      BY <1>1, <1>2, ElementOfSeq DEF Pieces
    <3>2. e = c \o d
      BY <1>1, <3>1 DEF Flat
    <3>3. Begins(a, c) /\ Begins(c, e)
      BY <1>6, <2>2, <3>1, <3>2, BeginsConcat
    <3>4. Begins(a, e)
      BY <3>3, LenProperties DEF Begins
    <3> QED
      BY <3>1, <3>4
  <2> QED
    BY <2>1, <2>2
<1>7. 0..n \subseteq S
  <2> HIDE DEF S
  <2> QED
    BY <1>5, <1>6, Climb, ZenonT(20), SMTT(60)
<1> QED
  BY <1>1, <1>3, <1>7

LEMMA BeginsIsPrefix ==
  ASSUME NEW x \in Seq(Block), NEW y \in Seq(Block), Begins(x, y)
  PROVE  SubSeq(y, 1, Len(x)) = x
<1>1. PICK n \in Nat : n = Len(x) /\ n <= Len(y) /\ Len(y) \in Nat
  BY LenProperties DEF Begins
<1>2. \A k \in 1..n : y[k] \in Block
  BY <1>1, ElementOfSeq
<1>3. PICK z \in Seq(Block) : z = SubSeq(y, 1, n) /\ Len(z) = n /\ \A k \in 1..n : z[k] = y[k]
  <2>1. /\ SubSeq(y, 1, n) \in Seq(Block)
        /\ Len(SubSeq(y, 1, n)) = IF 1 <= n THEN n - 1 + 1 ELSE 0
        /\ \A k \in 1..n - 1 + 1 : SubSeq(y, 1, n)[k] = y[1 + k - 1]
    BY <1>2, SubSeqProperties
  <2>2. \A k \in 1..n : k \in 1..n - 1 + 1 /\ 1 + k - 1 = k
    OBVIOUS
  <2>3. Len(SubSeq(y, 1, n)) = n
    BY <2>1
  <2>4. \A k \in 1..n : SubSeq(y, 1, n)[k] = y[k]
    BY <2>1, <2>2
  <2> QED
    BY <2>1, <2>3, <2>4
<1>4. \A k \in 1..n : z[k] = x[k]
  BY <1>1, <1>3 DEF Begins
<1> QED
  BY <1>1, <1>3, <1>4, SeqEqual

\* Messages that grew calmly begin with the bytes they had.
LEMMA BytesGrow ==
  ASSUME NEW old \in Seq(Message), NEW new \in Seq(Message), Onto(old, new, TRUE)
  PROVE  Begins(Bytes[old], Bytes[new])
<1>1. PICK m \in Nat, n \in Nat : m = Len(old) /\ n = Len(new) /\ m <= n
  BY LenProperties DEF Onto
<1>2. PICK x \in Pieces : /\ x = Contents(old) /\ Len(x) = m
                          /\ \A k \in 1..m : x[k] = old[k].content
  BY <1>1, ContentsIs
<1>3. PICK y \in Pieces : /\ y = Contents(new) /\ Len(y) = n
                          /\ \A k \in 1..n : y[k] = new[k].content
  BY <1>1, ContentsIs
<1>4. PICK b : Flat(x, b) /\ Bytes[old] = b[m]
  BY <1>2, FlattenIs, BytesIs
<1>5. PICK c : Flat(y, c) /\ Bytes[new] = c[n]
  BY <1>3, FlattenIs, BytesIs
<1>6. (\A k \in 0..m : b[k] \in Seq(Block)) /\ (\A k \in 0..n : c[k] \in Seq(Block))
  BY <1>2, <1>3, <1>4, <1>5 DEF Flat
<1>7. Begins(c[m], c[n])
  <2>1. m <= Len(y) /\ n \in m..Len(y)
    BY <1>1, <1>3
  <2> QED
    BY <1>5, <2>1, FlatBegins
<1>8. Begins(b[m], c[m])
  <2>1. CASE m = 0
    <3>1. b[m] = <<>> /\ Len(b[m]) = 0
      BY <1>4, <2>1, EmptySeq DEF Flat
    <3>2. c[m] \in Seq(Block)
      BY <1>1, <1>6
    <3> QED
      BY <3>1, <3>2, LenProperties DEF Begins
  <2>2. CASE m > 0
    <3>1. PICK p \in Nat : p = m - 1
      BY <2>2
    <3>2. \A k \in 1..p : x[k] = y[k]
      <4>1. \A k \in 1..p : new[k] = old[k]
        BY <1>1, <3>1 DEF Onto
      <4>2. \A k \in 1..p : k \in 1..m /\ k \in 1..n
        BY <1>1, <3>1
      <4> QED
        BY <1>2, <1>3, <4>1, <4>2, Zenon
    <3>3. b[p] = c[p]
      <4>1. p <= Len(x) /\ p <= Len(y) /\ p \in 0..p
        BY <1>1, <1>2, <1>3, <3>1
      <4>2. x \in Pieces /\ y \in Pieces /\ p \in Nat /\ Flat(x, b) /\ Flat(y, c)
        BY <1>4, <1>5
      <4>3. \A k \in 0..p : b[k] = c[k]
        BY ONLY <3>2, <4>1, <4>2, FlatPrefix
      <4> QED
        BY <4>3
    <3>4. PICK a \in Seq(Block), d \in Seq(Block), e \in Seq(Block) :
            a = b[p] /\ d = x[m] /\ e = y[m]
      <4>1. \A k \in 1..Len(x) : x[k] \in Seq(Block)
        BY ElementOfSeq DEF Pieces
      <4>2. \A k \in 1..Len(y) : y[k] \in Seq(Block)
        BY ElementOfSeq DEF Pieces
      <4> QED
        BY <1>1, <1>2, <1>3, <1>6, <2>2, <3>1, <4>1, <4>2
    <3>5. b[m] = a \o d
      <4>1. \A k \in 1..m : b[k] = b[k - 1] \o x[k]
        BY <1>2, <1>4 DEF Flat
      <4>2. m \in 1..m
        BY <2>2
      <4>3. b[m] = b[m - 1] \o x[m]
        BY <4>1, <4>2
      <4> QED
        BY <3>1, <3>4, <4>3
    <3>6. c[m] = a \o e
      <4>1. \A k \in 1..n : c[k] = c[k - 1] \o y[k]
        BY <1>3, <1>5 DEF Flat
      <4>2. m \in 1..n
        BY <1>1, <2>2
      <4>3. c[m] = c[m - 1] \o y[m]
        BY <4>1, <4>2
      <4> QED
        BY <3>1, <3>3, <3>4, <4>3
    <3>7. Begins(d, e)
      BY <1>1, <1>2, <1>3, <2>2, <3>4 DEF Onto
    <3> QED
      BY <3>5, <3>6, <3>7, BeginsAfter
  <2> QED
    BY <2>1, <2>2
<1>9. PICK f \in Seq(Block), g \in Seq(Block), h \in Seq(Block) : f = b[m] /\ g = c[m] /\ h = c[n]
  BY <1>1, <1>6
<1>10. Begins(f, g) /\ Begins(g, h)
  BY <1>7, <1>8, <1>9, Zenon
<1>11. Begins(f, h)
  <2>1. Len(f) \in Nat /\ Len(g) \in Nat /\ Len(h) \in Nat
    BY LenProperties
  <2>2. Len(f) <= Len(g) /\ Len(g) <= Len(h)
    BY <1>10, Zenon DEF Begins
  <2>3. Len(f) <= Len(h) /\ \A k \in 1..Len(f) : k \in 1..Len(g)
    BY <2>1, <2>2
  <2>4. \A k \in 1..Len(f) : h[k] = f[k]
    BY <1>10, <2>3, Zenon DEF Begins
  <2> QED
    BY <2>3, <2>4, Zenon DEF Begins
<1> QED
  BY <1>4, <1>5, <1>9, <1>11, Zenon

\* Curation leaves the shape of a turn.
LEMMA CuratedSingle ==
  ASSUME NEW turns \in Seq(Turn), \A k \in 1..Len(turns) : Single(turns[k])
  PROVE  \A k \in 1..Len(turns) : Single(Curated(turns)[k])
<1> SUFFICES ASSUME NEW k \in 1..Len(turns)
             PROVE  Single(Curated(turns)[k])
  OBVIOUS
<1>1. PICK t : t = turns[k] /\ Single(t)
  OBVIOUS
<1>2. PICK u : u = Curated(turns)[k] /\ u.kind = t.kind /\ SameBlocks(t.content, u.content)
  BY <1>1, CuratedSame
<1>3. Role(u) = Role(t)
  BY <1>2 DEF Role
<1>4. ASSUME Role(u) = "user"
      PROVE  Len(u.content) = 1 /\ (IsResult(u.content[1]) <=> u.kind = "tool_result")
  <2>1. Len(t.content) = 1 /\ (IsResult(t.content[1]) <=> t.kind = "tool_result")
    BY <1>1, <1>3, <1>4 DEF Single
  <2>2. Len(u.content) = 1 /\ u.content[1].type = t.content[1].type
    BY <1>2, <2>1 DEF SameBlocks
  <2> QED
    BY <1>2, <2>1, <2>2 DEF IsResult
<1> QED
  BY <1>2, <1>4 DEF Single

\* The first n turns were curated as they are now, when the newest user text of the thread was
\* among them already, or was the last of them.
LEMMA CuratedPrefix ==
  ASSUME NEW turns \in Seq(Turn), \A k \in 1..Len(turns) : turns[k].seq = k,
         NEW n \in Nat, n <= Len(turns), NEW m, Newest(SubSeq(turns, 1, n), m),
         NEW w, Newest(turns, w), w = m \/ (n = m /\ w > m)
  PROVE  Curated(SubSeq(turns, 1, n)) = SubSeq(Curated(turns), 1, n)
<1>1. PICK x \in Seq(Turn) : /\ x = SubSeq(turns, 1, n) /\ Len(x) = n
                             /\ \A k \in 1..n : x[k] = turns[k]
  BY PrefixIs
<1>2. PICK y \in Seq(Turn), z \in Seq(Turn) : y = Curated(turns) /\ z = Curated(x)
  BY CuratedSame
<1>3. Len(y) = Len(turns) /\ Len(z) = n /\ Len(turns) \in Nat
  BY <1>1, <1>2, CuratedSame, LenProperties
<1>4. DOMAIN turns = 1..Len(turns) /\ DOMAIN x = 1..n
  BY <1>1, LenProperties
<1>5. m \in 1..n /\ w \in 1..Len(turns) /\ IsUserText(x[m])
  BY <1>1 DEF Newest
<1>6. Watermark(turns) = w /\ Watermark(x) = m
  <2>1. LastUserText(turns) = w /\ LastUserText(x) = m
    BY <1>1, LastUserTextIs
  <2>2. turns[w].seq = w /\ x[m].seq = m
    BY <1>1, <1>3, <1>5
  <2> QED
    BY <1>5, <2>1, <2>2 DEF Watermark
<1>7. ASSUME NEW k \in 1..n PROVE z[k] = y[k]
  <2>1. PICK t : t = turns[k] /\ t = x[k] /\ t.seq = k
    BY <1>1, <1>3
  <2>2. y[k] = IF k < w /\ Curatable(t) THEN [t EXCEPT !.content = StubBlocks(t)] ELSE t
    <3>1. k \in DOMAIN turns
      BY <1>3, <1>4
    <3> QED
      BY <1>2, <1>6, <2>1, <3>1 DEF Curated
  <2>3. z[k] = IF k < m /\ Curatable(t) THEN [t EXCEPT !.content = StubBlocks(t)] ELSE t
    BY <1>2, <1>4, <1>6, <2>1 DEF Curated
  <2>4. k < w /\ Curatable(t) <=> k < m /\ Curatable(t)
    <3>1. CASE w = m
      BY <3>1
    <3>2. CASE n = m /\ w > m
      <4>1. k < w /\ (k < m \/ k = m)
        BY <1>3, <1>5, <3>2
      <4>2. k = m => ~ Curatable(t)
        BY <1>5, <2>1 DEF Curatable, IsUserText
      <4> QED
        BY <4>1, <4>2
    <3> QED
      BY <3>1, <3>2
  <2> QED
    BY <2>2, <2>3, <2>4
<1>8. SubSeq(y, 1, n) \in Seq(Turn) /\ Len(SubSeq(y, 1, n)) = n
      /\ \A k \in 1..n : SubSeq(y, 1, n)[k] = y[k]
  BY <1>3, PrefixIs
<1>9. z = SubSeq(y, 1, n)
  BY <1>3, <1>7, <1>8, SeqEqual
<1> QED
  BY <1>1, <1>2, <1>9

\* What goes on the wire for a thread, and what went for its first n turns.
LEMMA HistoryGrows ==
  ASSUME NEW turns \in Seq(Turn), \A k \in 1..Len(turns) : turns[k].seq = k /\ Single(turns[k]),
         NEW n \in Nat, n <= Len(turns), NEW m, Newest(SubSeq(turns, 1, n), m),
         NEW w, Newest(turns, w), w = m \/ (n = m /\ w > m),
         NEW calm, calm = Calm(turns, n)
  PROVE  /\ MessagesForModel(SubSeq(turns, 1, n)) \in Seq(Message)
         /\ MessagesForModel(turns) \in Seq(Message)
         /\ Onto(MessagesForModel(SubSeq(turns, 1, n)), MessagesForModel(turns), calm)
<1>1. PICK x \in Seq(Turn) : x = SubSeq(turns, 1, n) /\ Len(x) = n
  BY PrefixIs
<1>2. PICK y \in Seq(Turn) : /\ y = Curated(turns) /\ Len(y) = Len(turns)
                             /\ \A k \in 1..Len(turns) : turns[k].kind = y[k].kind
  BY CuratedSame
<1>3. Curated(x) = SubSeq(y, 1, n)
  BY <1>1, <1>2, CuratedPrefix
<1>4. \A k \in 1..Len(y) : Single(y[k])
  BY <1>2, CuratedSingle
<1>5. calm = Calm(y, n)
  <2>1. \A k \in 1..Len(turns) : Role(y[k]) = Role(turns[k])
    BY <1>2 DEF Role
  <2>2. Len(turns) \in Nat
    BY LenProperties
  <2>3. \A k \in n + 1..Len(turns) : k \in 1..Len(turns) /\ \A j \in n + 1..k - 1 : j \in 1..Len(turns)
    BY <2>2
  <2>4. ASSUME NEW k \in n + 1..Len(turns)
        PROVE  (turns[k].kind = "tool_result" => \E j \in n + 1..k - 1 : Role(turns[j]) = "assistant")
               <=> (y[k].kind = "tool_result" => \E j \in n + 1..k - 1 : Role(y[j]) = "assistant")
    <3>1. y[k].kind = turns[k].kind
      BY <1>2, <2>3
    <3>2. \A j \in n + 1..k - 1 : Role(y[j]) = Role(turns[j])
      BY <2>1, <2>3
    <3> QED
      BY <3>1, <3>2
  <2>5. Calm(turns, n) <=> Calm(y, n)
    BY <1>2, <2>4 DEF Calm
  <2>6. Calm(y, n) \in BOOLEAN /\ Calm(turns, n) \in BOOLEAN
    BY DEF Calm
  <2> QED
    BY <2>5, <2>6
<1>6. Onto(Messages[SubSeq(y, 1, n)], Messages[y], calm)
  BY <1>2, <1>4, <1>5, MessagesGrow
<1>7. Messages[y] \in Seq(Message) /\ Messages[Curated(x)] \in Seq(Message)
  BY CuratedSame, MessagesTyped
<1> QED
  BY <1>1, <1>2, <1>3, <1>6, <1>7 DEF MessagesForModel
=============================================================================
