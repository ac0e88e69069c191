------------------------- MODULE MarketClock_proofs -------------------------
(* The answers about the market, for every calendar, any number of slots and days, *)
(* and any edits of the file.                                                      *)
EXTENDS MarketClock, FiniteSetTheorems, SequenceTheorems, TLAPS

-----------------------------------------------------------------------------
(* The windows of a day.                                                   *)

\* Sets of numbers have a least element.  The library's theorem on that takes an operator;
\* its theorem on the subsets of a set does not, and a number is smaller when its interval is.
LEMMA LeastExists ==
  ASSUME NEW S \in SUBSET Nat, S # {}
  PROVE  Min(S) \in S /\ \A y \in S : Min(S) <= y
<1> DEFINE T == {0..n : n \in S}
<1>1. T \subseteq FiniteSubsetsOf(Nat) /\ T # {}
  <2>1. \A n \in S : IsFiniteSet(0..n) /\ 0..n \subseteq Nat
    BY FS_Interval
  <2> QED
    BY <2>1 DEF FiniteSubsetsOf
<1>2. IsWellFoundedOn(StrictSubsetOrdering(Nat), FiniteSubsetsOf(Nat))
  BY FS_StrictSubsetOrderingWellFounded
<1>3. PICK x \in T : \A y \in T : ~ (<<y, x>> \in StrictSubsetOrdering(Nat))
  <2> HIDE DEF T
  <2> QED
    BY <1>1, <1>2, WFMin
<1>4. PICK n \in S : x = 0..n
  OBVIOUS
<1>5. ASSUME NEW m \in S, m < n
      PROVE  FALSE
  <2>1. 0..m \subseteq 0..n /\ 0..m # 0..n /\ 0..m \in T /\ 0..m \in SUBSET Nat /\ 0..n \in SUBSET Nat
    <3>1. m \in Nat /\ n \in Nat /\ n \in 0..n /\ n \notin 0..m
      BY <1>5
    <3> QED
      BY <1>5, <3>1
  <2> QED
    BY <1>3, <1>4, <2>1 DEF StrictSubsetOrdering
<1>6. n \in S /\ \A y \in S : n <= y
  BY <1>5
<1> QED
  BY <1>6 DEF Min

\* What may be asked about: a calendar that parsed, or none.
Known == Editions \cup {NoCalendar}

LEMMA SessionsAre ==
  ASSUME NEW c \in Known
  PROVE  Sessions(c) \in Seq(Session)
BY ClockAssumption, SMTT(60) DEF Sessions, Known, IsCalendar

\* The special windows of a day, one by one.
LEMMA SpecialWindowsAre ==
  ASSUME NEW c \in Known, NEW d \in Int, IsSpecial(c, d)
  PROVE  LET special == Calendar[c].special[d].windows
             key == Calendar[c].special[d].key IN
         /\ c \in Editions /\ d \in DOMAIN Calendar[c].special /\ special \in Seq(Window)
         /\ key \in Keys
         /\ Len(special) \in Nat \ {0} /\ DOMAIN special = 1..Len(special)
         /\ SpecialWindows(c, d) \in Seq(Session) /\ Len(SpecialWindows(c, d)) = Len(special)
         /\ \A i \in 1..Len(special) :
              SpecialWindows(c, d)[i] =
                [key |-> key, start |-> special[i].start, end |-> special[i].end,
                 trading |-> FALSE]
<1> DEFINE special == Calendar[c].special[d].windows
           key == Calendar[c].special[d].key
           made == SpecialWindows(c, d)
<1>1. c \in Editions /\ d \in DOMAIN Calendar[c].special
  BY DEF IsSpecial, Covers, Known
<1>2. special \in Seq(Window) /\ special # <<>> /\ key \in Keys
  BY <1>1, ClockAssumption DEF IsCalendar
<1>3. made = [i \in DOMAIN special |->
                [key |-> key, start |-> special[i].start, end |-> special[i].end,
                 trading |-> FALSE]]
  BY DEF SpecialWindows
<1> HIDE DEF special, made, key
<1>4. Len(special) \in Nat \ {0} /\ DOMAIN special = 1..Len(special)
      /\ \A i \in 1..Len(special) : special[i] \in Window
  BY <1>2, EmptySeq
<1>5. ASSUME NEW i \in 1..Len(special)
      PROVE  [key |-> key, start |-> special[i].start, end |-> special[i].end,
              trading |-> FALSE] \in Session
  BY <1>2, <1>4 DEF Window, Session
<1>6. made \in [1..Len(special) -> Session]
  BY <1>3, <1>4, <1>5
<1>7. made \in Seq(Session) /\ Len(made) = Len(special)
  BY <1>4, <1>6, IsASeq, LenProperties
<1> QED
  BY <1>1, <1>2, <1>3, <1>4, <1>7 DEF special, made, key

\* A list of windows that is one list after another.
JoinOf(a, b, w) ==
  /\ w \in Seq(Session) /\ Len(w) = Len(a) + Len(b)
  /\ \A i \in 1 .. Len(a) + Len(b) : w[i] = IF i <= Len(a) THEN a[i] ELSE b[i - Len(a)]

LEMMA JoinIs ==
  ASSUME NEW a \in Seq(Session), NEW b \in Seq(Session)
  PROVE  JoinOf(a, b, a \o b)
BY ConcatProperties, SMTT(60) DEF JoinOf

\* All windows: the special ones first, then the sessions of the file.
LEMMA WindowsAre ==
  ASSUME NEW c \in Known, NEW d \in Int
  PROVE  LET n == IF IsSpecial(c, d) THEN Len(SpecialWindows(c, d)) ELSE 0
             m == Len(Sessions(c))
         IN /\ n \in Nat /\ m \in Nat /\ DOMAIN Sessions(c) = 1..m
            /\ DOMAIN Windows(c, d) = 1 .. n + m
            /\ \A i \in 1..m : Sessions(c)[i] \in Session
            /\ \A i \in 1..n : Windows(c, d)[i] = SpecialWindows(c, d)[i]
            /\ \A i \in 1..m : Windows(c, d)[n + i] = Sessions(c)[i]
            /\ \A i \in 1 .. n + m : Windows(c, d)[i] \in Session
<1> DEFINE first == IF IsSpecial(c, d) THEN SpecialWindows(c, d) ELSE <<>>
           second == Sessions(c)
<1>1. second \in Seq(Session)
  BY SessionsAre
<1>2. first \in Seq(Session)
        /\ Len(first) = IF IsSpecial(c, d) THEN Len(SpecialWindows(c, d)) ELSE 0
  BY SpecialWindowsAre, EmptySeq
<1>3. Windows(c, d) = first \o second
  BY DEF Windows
<1>4. \A i \in 1..Len(first) : first[i] = SpecialWindows(c, d)[i]
  <2>1. CASE IsSpecial(c, d)
    BY <2>1
  <2>2. CASE ~ IsSpecial(c, d)
    BY <1>2, <2>2
  <2> QED
    BY <2>1, <2>2
<1> HIDE DEF first, second
<1>5. /\ Windows(c, d) \in Seq(Session) /\ Len(Windows(c, d)) = Len(first) + Len(second)
      /\ \A i \in 1 .. Len(first) + Len(second) :
           Windows(c, d)[i] = IF i <= Len(first) THEN first[i] ELSE second[i - Len(first)]
  <2>1. JoinOf(first, second, first \o second)
    BY <1>1, <1>2, JoinIs, Zenon
  <2> QED
    BY <1>3, <2>1, Zenon DEF JoinOf
<1>6. Len(first) \in Nat /\ Len(second) \in Nat /\ DOMAIN second = 1..Len(second)
      /\ \A i \in 1..Len(second) : second[i] \in Session
  BY <1>1, <1>2
<1>7. DOMAIN Windows(c, d) = 1 .. Len(first) + Len(second)
      /\ \A i \in 1 .. Len(first) + Len(second) : Windows(c, d)[i] \in Session
  BY <1>5, <1>6
<1>8. /\ \A i \in 1..Len(first) : Windows(c, d)[i] = first[i]
      /\ \A i \in 1..Len(second) : Windows(c, d)[Len(first) + i] = second[i]
  BY <1>5, <1>6, SMTT(60)
<1> QED
  BY <1>2, <1>4, <1>6, <1>7, <1>8 DEF second

-----------------------------------------------------------------------------
(* When the market is said to be open.                                     *)

LEMMA MatchedIs ==
  ASSUME NEW c \in Known, NEW d \in Int, NEW t
  PROVE  /\ Matches(c, d, t) = {} => Matched(c, d, t).key = "DEFAULT"
         /\ Matches(c, d, t) # {} =>
              \E i \in Matches(c, d, t) :
                Matched(c, d, t) = Windows(c, d)[i] /\ \A j \in Matches(c, d, t) : i <= j
<1>1. Matches(c, d, t) \in SUBSET Nat
  BY WindowsAre DEF Matches, Candidates
<1>2. Matches(c, d, t) # {} =>
        Min(Matches(c, d, t)) \in Matches(c, d, t) /\ \A j \in Matches(c, d, t) : Min(Matches(c, d, t)) <= j
  BY <1>1, LeastExists
<1> QED
  BY <1>2 DEF Matched, NoWindow

LEMMA OpenIs ==
  ASSUME NEW c \in Known, NEW d \in Int, NEW t
  PROVE  OpenAt(c, d, t) <=>
           \/ Matched(c, d, t).key = "MARKET"
           \/ IsSpecial(c, d) /\ Matched(c, d, t).key = Calendar[c].special[d].key
BY DEF OpenAt, MarketState, State

\* A day with a special session is open in its windows: they are walked first.
LEMMA SpecialOpen ==
  ASSUME NEW c \in Known, NEW d \in Int, NEW t, IsSpecial(c, d), OwnKeys(c)
  PROVE  OpenAt(c, d, t) <=>
           \E i \in 1..Len(Calendar[c].special[d].windows) : Within(Calendar[c].special[d].windows[i], t)
<1> DEFINE special == Calendar[c].special[d].windows
           key == Calendar[c].special[d].key
           n == Len(special)
           m == Len(Sessions(c))
<1>1. /\ n \in Nat \ {0} /\ m \in Nat /\ DOMAIN Sessions(c) = 1..m
      /\ DOMAIN Windows(c, d) = 1 .. n + m
      /\ \A i \in 1..n : /\ Windows(c, d)[i].key = key /\ Windows(c, d)[i].trading = FALSE
                         /\ Windows(c, d)[i].start = special[i].start
                         /\ Windows(c, d)[i].end = special[i].end
      /\ \A i \in 1..m : Windows(c, d)[n + i] = Sessions(c)[i]
  <2>1. /\ n \in Nat \ {0} /\ Len(SpecialWindows(c, d)) = n
        /\ \A i \in 1..n : SpecialWindows(c, d)[i] =
             [key |-> key, start |-> special[i].start, end |-> special[i].end, trading |-> FALSE]
    BY SpecialWindowsAre
  <2>2. /\ m \in Nat /\ DOMAIN Sessions(c) = 1..m /\ DOMAIN Windows(c, d) = 1 .. n + m
        /\ \A i \in 1..n : Windows(c, d)[i] = SpecialWindows(c, d)[i]
        /\ \A i \in 1..m : Windows(c, d)[n + i] = Sessions(c)[i]
    <3> HIDE DEF n, m
    <3> QED
      BY <2>1, WindowsAre, ZenonT(60) DEF m
  <2> HIDE DEF n, m, special, key
  <2>3. ASSUME NEW i \in 1..n
        PROVE  /\ Windows(c, d)[i].key = key /\ Windows(c, d)[i].trading = FALSE
               /\ Windows(c, d)[i].start = special[i].start
               /\ Windows(c, d)[i].end = special[i].end
    <3>1. Windows(c, d)[i] =
            [key |-> key, start |-> special[i].start, end |-> special[i].end, trading |-> FALSE]
      BY <2>1, <2>2, Zenon
    <3> QED
      BY ONLY <3>1
  <2> QED
    BY <2>1, <2>2, <2>3, Zenon
<1> HIDE DEF n, m, special, key
<1>2. ~ Regular(c, d)
  BY DEF Regular
<1>3. \A i \in 1..m : Sessions(c)[i].key = "MARKET" \/ Sessions(c)[i].key = key => Sessions(c)[i].trading
  <2>1. key \in LiveKeys(c) /\ "MARKET" \in LiveKeys(c)
    <3>1. c # NoCalendar /\ d \in DOMAIN Calendar[c].special
      BY SpecialWindowsAre, ClockAssumption DEF NoCalendar
    <3> QED
      BY <3>1 DEF LiveKeys, SpecialKeys, key
  <2> QED
    BY <1>1, <2>1 DEF OwnKeys
<1>4. \A i \in 1 .. n + m : i \in 1..n \/ (i > n /\ i - n \in 1..m /\ i = n + (i - n))
  BY <1>1
<1>5. ASSUME NEW i \in Candidates(c, d), i \notin 1..n
      PROVE  Windows(c, d)[i].key # "MARKET" /\ Windows(c, d)[i].key # key
  <2>1. i \in 1 .. n + m /\ ~ Windows(c, d)[i].trading
    BY <1>1, <1>2 DEF Candidates
  <2>2. PICK k \in 1..m : Windows(c, d)[i] = Sessions(c)[k]
    BY <1>1, <1>4, <1>5, <2>1, ZenonT(60)
  <2> QED
    BY <1>3, <2>1, <2>2
<1>6. \A i \in 1..n : i \in Matches(c, d, t) <=> Within(special[i], t)
  BY <1>1 DEF Matches, Candidates, Within
<1>7. ASSUME NEW i \in 1..n, Within(special[i], t)
      PROVE  OpenAt(c, d, t)
  <2>1. PICK j \in Matches(c, d, t) : Matched(c, d, t) = Windows(c, d)[j] /\ j <= i
    BY <1>6, <1>7, MatchedIs
  <2>2. j \in 1..n
    BY <1>1, <2>1 DEF Matches, Candidates
  <2> QED
    BY <1>1, <2>1, <2>2, OpenIs DEF key
<1>8. ASSUME OpenAt(c, d, t)
      PROVE  \E i \in 1..n : Within(special[i], t)
  <2>1. PICK j \in Matches(c, d, t) :
          Windows(c, d)[j].key = "MARKET" \/ Windows(c, d)[j].key = key
    <3>1. key # "DEFAULT"
      BY SpecialWindowsAre DEF Keys, key
    <3>2. Matched(c, d, t).key = "MARKET" \/ Matched(c, d, t).key = key
      BY <1>8, OpenIs DEF key
    <3> QED
      BY <3>1, <3>2, MatchedIs
  <2>2. j \in Candidates(c, d)
    BY DEF Matches
  <2>3. j \in 1..n
    BY <1>5, <2>1, <2>2
  <2> QED
    BY <1>6, <2>3
<1> QED
  BY <1>7, <1>8 DEF n, special

\* Without a special session the windows are the sessions.
LEMMA RegularWindows ==
  ASSUME NEW c \in Known, NEW d \in Int, ~ IsSpecial(c, d)
  PROVE  LET m == Len(Sessions(c)) IN
         /\ m \in Nat /\ DOMAIN Sessions(c) = 1..m /\ DOMAIN Windows(c, d) = 1..m
         /\ \A i \in 1..m : Windows(c, d)[i] = Sessions(c)[i] /\ Sessions(c)[i] \in Session
<1> DEFINE m == Len(Sessions(c))
           n == IF IsSpecial(c, d) THEN Len(SpecialWindows(c, d)) ELSE 0
<1>1. n = 0
  OBVIOUS
<1>2. /\ m \in Nat /\ DOMAIN Sessions(c) = 1..m /\ DOMAIN Windows(c, d) = 1 .. n + m
      /\ \A i \in 1..m : Sessions(c)[i] \in Session
      /\ \A i \in 1..m : Windows(c, d)[n + i] = Sessions(c)[i]
  BY WindowsAre
<1> HIDE DEF n, m
<1>3. /\ m \in Nat /\ DOMAIN Sessions(c) = 1..m /\ DOMAIN Windows(c, d) = 1..m
      /\ \A i \in 1..m : Windows(c, d)[i] = Sessions(c)[i] /\ Sessions(c)[i] \in Session
  BY <1>1, <1>2
<1> QED
  BY <1>3 DEF m

\* Another day is open in the market's own window, if it is a trading day.
LEMMA RegularOpen ==
  ASSUME NEW c \in Known, NEW d \in Int, NEW t \in Int, ~ IsSpecial(c, d), OwnKeys(c), KeptApart(c)
  PROVE  OpenAt(c, d, t) <=>
           /\ IsTradingDay(c, d)
           /\ \E i \in DOMAIN Sessions(c) : Sessions(c)[i].key = "MARKET" /\ Within(Sessions(c)[i], t)
<1> DEFINE m == Len(Sessions(c))
<1>1. /\ m \in Nat /\ DOMAIN Sessions(c) = 1..m /\ DOMAIN Windows(c, d) = 1..m
      /\ \A i \in 1..m : Windows(c, d)[i] = Sessions(c)[i] /\ Sessions(c)[i] \in Session
  BY RegularWindows
<1>3. /\ \A i \in 1..m : Sessions(c)[i].key = "MARKET" => Sessions(c)[i].trading
      /\ \A i, j \in 1..m : Sessions(c)[i].key = "MARKET" /\ Sessions(c)[j].key # "MARKET" =>
           Sessions(c)[i].end <= Sessions(c)[j].start \/ Sessions(c)[j].end <= Sessions(c)[i].start
  <2> HIDE DEF m
  <2>1. DOMAIN Sessions(c) = 1..m
    BY <1>1
  <2>2. \A i \in 1..m : Sessions(c)[i].key = "MARKET" => Sessions(c)[i].trading
    BY <2>1, Zenon DEF OwnKeys, LiveKeys
  <2>3. \A i, j \in 1..m : Sessions(c)[i].key = "MARKET" /\ Sessions(c)[j].key # "MARKET" =>
          Sessions(c)[i].end <= Sessions(c)[j].start \/ Sessions(c)[j].end <= Sessions(c)[i].start
    BY <2>1, Zenon DEF KeptApart
  <2> QED
    BY <2>2, <2>3, Zenon
<1>4. Regular(c, d) <=> IsTradingDay(c, d)
  BY DEF Regular
<1>5. ASSUME OpenAt(c, d, t)
      PROVE  /\ IsTradingDay(c, d)
             /\ \E i \in 1..m : Sessions(c)[i].key = "MARKET" /\ Within(Sessions(c)[i], t)
  <2>1. PICK i \in Matches(c, d, t) : Windows(c, d)[i].key = "MARKET"
    BY <1>5, MatchedIs, OpenIs
  <2>2. i \in 1..m /\ Within(Sessions(c)[i], t) /\ (Sessions(c)[i].trading => Regular(c, d))
    BY <1>1, <2>1 DEF Matches, Candidates
  <2> QED
    BY <1>1, <1>3, <1>4, <2>1, <2>2
<1>6. ASSUME IsTradingDay(c, d), NEW i \in 1..m, Sessions(c)[i].key = "MARKET", Within(Sessions(c)[i], t)
      PROVE  OpenAt(c, d, t)
  <2>1. i \in Matches(c, d, t)
    BY <1>1, <1>4, <1>6 DEF Matches, Candidates
  <2>2. PICK j \in Matches(c, d, t) : Matched(c, d, t) = Windows(c, d)[j]
    BY <2>1, MatchedIs
  <2>3. j \in 1..m /\ Within(Sessions(c)[j], t)
    BY <1>1, <2>2 DEF Matches, Candidates
  <2>4. Sessions(c)[j].key = "MARKET"
    <3>1. /\ Sessions(c)[i].start \in Int /\ Sessions(c)[i].end \in Int
          /\ Sessions(c)[j].start \in Int /\ Sessions(c)[j].end \in Int
      BY <1>1, <2>3, ClockAssumption, SMTT(60) DEF Session
    <3> QED
      BY <1>3, <1>6, <2>3, <3>1, SMTT(60) DEF Within
  <2> QED
    BY <1>1, <2>2, <2>3, <2>4, OpenIs
<1> QED
  BY <1>1, <1>5, <1>6

-----------------------------------------------------------------------------
(* What each answer says, of whatever calendar, day and moment.            *)

LEMMA DeclaredAt ==
  ASSUME NEW c \in Known, NEW d \in Int, NEW t \in Int, OwnKeys(c), KeptApart(c)
  PROVE  OpenAt(c, d, t) <=> DeclaredOpen(c, d, t)
<1> DEFINE known == c # NoCalendar /\ d \in Calendar[c].from..Calendar[c].to
           special == IF known /\ d \in DOMAIN Calendar[c].special
                      THEN Calendar[c].special[d].windows ELSE <<>>
           regular == {s \in Range(Sessions(c)) : s.key = "MARKET"}
           closed == (d + FirstWeekday) % 7 \in 5..6 \/ (known /\ d \in Calendar[c].holidays)
           windows == IF special # <<>> THEN Range(special) ELSE IF closed THEN {} ELSE regular
<1>1. DeclaredOpen(c, d, t) <=> \E w \in windows : t \in w.start..(w.end - 1)
  BY DEF DeclaredOpen
<1>2. known <=> Covers(c, d)
  BY ClockAssumption DEF Covers, Known, IsCalendar
<1>3. (known /\ d \in DOMAIN Calendar[c].special) <=> IsSpecial(c, d)
  BY <1>2 DEF IsSpecial
<1>4. CASE IsSpecial(c, d)
  <2>1. special = Calendar[c].special[d].windows /\ special # <<>> /\ DOMAIN special = 1..Len(special)
        /\ \A i \in 1..Len(special) : special[i] \in Window
    <3>1. special = Calendar[c].special[d].windows
      BY <1>3, <1>4
    <3> HIDE DEF special
    <3> QED
      BY <1>4, <3>1, SpecialWindowsAre, EmptySeq
  <2>2. windows = {special[i] : i \in 1..Len(special)}
    BY <2>1 DEF Range
  <2> HIDE DEF windows, special
  <2>3. \A w \in windows : t \in w.start..(w.end - 1) <=> Within(w, t)
    <3> SUFFICES ASSUME NEW w \in windows PROVE t \in w.start..(w.end - 1) <=> Within(w, t)
      OBVIOUS
    <3>1. PICK a \in Int, b \in Int : a = w.start /\ b = w.end
      <4>1. w \in Window
        BY <2>1, <2>2, Zenon
      <4>2. Window = [start : 0..Slots, end : 0..Slots] /\ Slots \in Int
        BY ClockAssumption DEF Window
      <4>3. w.start \in 0..Slots /\ w.end \in 0..Slots
        BY <4>1, <4>2, Zenon
      <4> QED
        BY <4>2, <4>3
    <3>2. t \in Int
      BY ClockAssumption
    <3>3. t \in a..b - 1 <=> a <= t /\ t < b
      BY ONLY t \in Int, a \in Int, b \in Int
    <3> QED
      BY <3>1, <3>3, Zenon DEF Within
  <2>4. OpenAt(c, d, t) <=> \E i \in 1..Len(special) : Within(special[i], t)
    BY <1>4, <2>1, SpecialOpen
  <2> QED
    BY <1>1, <2>2, <2>3, <2>4
<1>5. CASE ~ IsSpecial(c, d)
  <2>1. special = <<>> /\ windows = IF closed THEN {} ELSE regular
    BY <1>3, <1>5
  <2>2. closed <=> ~ IsTradingDay(c, d)
    <3>1. (d + FirstWeekday) % 7 \in 5..6 <=> ~ Weekday(d)
      BY ClockAssumption DEF Weekday
    <3>2. (known /\ d \in Calendar[c].holidays) <=> IsHoliday(c, d)
      BY <1>2 DEF IsHoliday
    <3> QED
      BY <1>5, <3>1, <3>2 DEF IsTradingDay
  <2>3. regular = {s \in {Sessions(c)[i] : i \in DOMAIN Sessions(c)} : s.key = "MARKET"}
    BY DEF Range
  <2>4. \A i \in DOMAIN Sessions(c) : Sessions(c)[i] \in Session
    BY <1>5, RegularWindows
  <2> HIDE DEF closed, regular, windows, special
  <2>5. \A w \in regular : t \in w.start..(w.end - 1) <=> Within(w, t)
    BY <2>3, <2>4, ClockAssumption DEF Session, Within
  <2>6. OpenAt(c, d, t) <=> ~ closed /\ \E w \in regular : Within(w, t)
    BY <1>5, <2>2, <2>3, RegularOpen
  <2> QED
    BY <1>1, <2>1, <2>5, <2>6
<1> QED
  BY <1>4, <1>5

\* The key of the walk, before the copy is asked for a template.
LEMMA LiveAt ==
  ASSUME NEW c \in Known, NEW d \in Int, NEW t, OwnKeys(c)
  PROVE  Matched(c, d, t).key \in LiveKeys(c) <=> OpenAt(c, d, t)
<1> DEFINE key == Calendar[c].special[d].key
           n == IF IsSpecial(c, d) THEN Len(SpecialWindows(c, d)) ELSE 0
           m == Len(Sessions(c))
<1>1. "DEFAULT" \notin LiveKeys(c) /\ "MARKET" \in LiveKeys(c)
  <2>1. SpecialKeys(c) \subseteq Keys
    BY ClockAssumption DEF SpecialKeys, Known, IsCalendar
  <2> QED
    BY <2>1 DEF LiveKeys, Keys
<1>2. IsSpecial(c, d) => key \in LiveKeys(c)
  BY SpecialWindowsAre, ClockAssumption DEF LiveKeys, SpecialKeys, NoCalendar
<1>3. ASSUME NEW i \in DOMAIN Windows(c, d), Windows(c, d)[i].key \in LiveKeys(c)
      PROVE  Windows(c, d)[i].key = "MARKET" \/ (IsSpecial(c, d) /\ Windows(c, d)[i].key = key)
  <2>1. /\ n \in Nat /\ m \in Nat /\ DOMAIN Sessions(c) = 1..m /\ i \in 1 .. n + m
        /\ \A k \in 1..n : Windows(c, d)[k] = SpecialWindows(c, d)[k]
        /\ \A k \in 1..m : Windows(c, d)[n + k] = Sessions(c)[k]
    BY WindowsAre, <1>3
  <2>2. CASE IsSpecial(c, d) /\ i \in 1..n
    <3>1. SpecialWindows(c, d)[i].key = key
      <4>1. /\ n = Len(Calendar[c].special[d].windows)
            /\ \A k \in 1..Len(Calendar[c].special[d].windows) :
                 SpecialWindows(c, d)[k] =
                   [key |-> key, start |-> Calendar[c].special[d].windows[k].start,
                    end |-> Calendar[c].special[d].windows[k].end, trading |-> FALSE]
        BY <2>2, SpecialWindowsAre, Zenon
      <4>2. SpecialWindows(c, d)[i] =
              [key |-> key, start |-> Calendar[c].special[d].windows[i].start,
               end |-> Calendar[c].special[d].windows[i].end, trading |-> FALSE]
        BY <2>2, <4>1, Zenon
      <4> HIDE DEF key, n
      <4> QED
        BY ONLY <4>2
    <3> QED
      BY <2>1, <2>2, <3>1
  <2>3. CASE ~ (IsSpecial(c, d) /\ i \in 1..n)
    <3>1. i \notin 1..n
      BY <2>3
    <3> HIDE DEF n, m
    <3>2. i - n \in 1..m /\ i = n + (i - n)
      BY <2>1, <3>1
    <3>3. PICK k \in 1..m : Windows(c, d)[i] = Sessions(c)[k]
      BY <2>1, <3>2
    <3> QED
      BY <1>3, <2>1, <3>3, Zenon DEF OwnKeys
  <2> QED
    BY <2>2, <2>3
<1> HIDE DEF key, n, m
<1>4. Matched(c, d, t).key = "DEFAULT"
      \/ \E i \in DOMAIN Windows(c, d) : Matched(c, d, t) = Windows(c, d)[i]
  BY MatchedIs DEF Matches, Candidates
<1>5. OpenAt(c, d, t) <=>
        Matched(c, d, t).key = "MARKET" \/ (IsSpecial(c, d) /\ Matched(c, d, t).key = key)
  BY OpenIs DEF key
<1> QED
  BY <1>1, <1>2, <1>3, <1>4, <1>5

\* The greeting of an answer, by the status line of the same answer.
LEMMA GreetingAt ==
  ASSUME NEW c \in Known, NEW d \in Int, NEW t, NEW copy \in Copies, OwnKeys(c)
  PROVE  LET live == Greeting(c, d, t, copy) \in LiveKeys(c)
             open == OpenAt(c, d, t) /\ ~ Degraded(c, d)
         IN /\ live => open
            /\ open /\ ~ live =>
                 Greeting(c, d, t, copy) = "DEFAULT" /\ ~ (LiveKeys(c) \subseteq copy)
<1>1. PICK key : key = Matched(c, d, t).key
  OBVIOUS
<1>2. key \in LiveKeys(c) <=> OpenAt(c, d, t)
  BY <1>1, LiveAt
<1>3. "DEFAULT" \notin LiveKeys(c) /\ "DEFAULT" \notin copy
  <2>1. SpecialKeys(c) \subseteq Keys /\ copy \subseteq Keys
    BY ClockAssumption DEF SpecialKeys, Known, IsCalendar
  <2> QED
    BY <2>1 DEF LiveKeys, Keys
<1>4. CASE Degraded(c, d)
  <2>1. Greeting(c, d, t, copy) = "DEFAULT"
    BY <1>3, <1>4 DEF Greeting, Worded
  <2> QED
    BY <1>3, <1>4, <2>1
<1>5. CASE ~ Degraded(c, d)
  <2>1. Greeting(c, d, t, copy) = IF key \in copy THEN key ELSE "DEFAULT"
    BY <1>1, <1>5 DEF Greeting, Worded
  <2> QED
    BY <1>2, <1>3, <1>5, <2>1
<1> QED
  BY <1>4, <1>5

\* An opening that is the first of the day is announced before it.
LEMMA AnnouncedAt ==
  ASSUME NEW c \in Known, NEW d \in Int, NEW t \in 0..Slots, NEW x \in 0..Slots, t < x, OpenAt(c, d, x),
         \A y \in 0..Slots : OpenAt(c, d, y) => t < y,
         OwnKeys(c), KeptApart(c), InOrder(c)
  PROVE  /\ MarketState(c, d, t).state = "PRE_OPEN"
         /\ MarketState(c, d, t).next \in 0..Slots /\ OpenAt(c, d, MarketState(c, d, t).next)
         /\ \A y \in 0..Slots : OpenAt(c, d, y) => MarketState(c, d, t).next <= y
<1> DEFINE mw == MarketWindows(c, d)
           opening == Windows(c, d)[Min(mw)].start
<1>1. ~ OpenAt(c, d, t) /\ Slots \in Nat
  BY ClockAssumption
<1>2. /\ IsTradingDay(c, d) /\ mw # {} /\ opening \in 0..Slots /\ OpenAt(c, d, opening)
      /\ \A y \in 0..Slots : OpenAt(c, d, y) => opening <= y
  <2>1. CASE IsSpecial(c, d)
    <3> DEFINE special == Calendar[c].special[d].windows
               key == Calendar[c].special[d].key
    <3>1. /\ Len(special) \in Nat \ {0} /\ DOMAIN special = 1..Len(special)
          /\ \A i \in 1..Len(special) : special[i] \in Window
          /\ DOMAIN SpecialWindows(c, d) = 1..Len(special) /\ Ordered(special)
      BY <2>1, SpecialWindowsAre, ClockAssumption, SMTT(60) DEF InOrder, NoCalendar
    <3>2. mw = 1..Len(special) /\ Min(mw) = 1
      <4>1. mw = 1..Len(special) /\ 1 \in mw /\ mw \in SUBSET Nat
        BY <2>1, <3>1 DEF MarketWindows
      <4> HIDE DEF mw, special
      <4>2. Min(mw) \in mw /\ Min(mw) <= 1
        BY <4>1, LeastExists
      <4> QED
        BY <3>1, <4>1, <4>2
    <3>3. opening = special[1].start /\ 1 \in 1..Len(special)
      <4>1. SpecialWindows(c, d)[1] = [key |-> key, start |-> special[1].start,
                                       end |-> special[1].end, trading |-> FALSE]
        <5>1. \A i \in 1..Len(special) :
                SpecialWindows(c, d)[i] = [key |-> key, start |-> special[i].start,
                                           end |-> special[i].end, trading |-> FALSE]
          BY <2>1, SpecialWindowsAre, Zenon
        <5>2. 1 \in 1..Len(special)
          BY <3>1
        <5> QED
          BY <5>1, <5>2, Zenon
      <4>2. 1 \in 1..Len(SpecialWindows(c, d))
        BY <2>1, <3>1, SpecialWindowsAre
      <4>3. Windows(c, d)[1] = SpecialWindows(c, d)[1]
        BY <2>1, <4>2, WindowsAre
      <4>4. Windows(c, d)[1].start = special[1].start
        BY <4>1, <4>3
      <4> QED
        BY <3>1, <3>2, <4>4, SMTT(60)
    <3> HIDE DEF special, mw, opening
    <3>4. Within(special[1], opening) /\ opening \in 0..Slots
      BY <3>1, <3>3, SMTT(60) DEF Ordered, Within, Window
    <3>5. OpenAt(c, d, opening)
      BY <2>1, <3>3, <3>4, SpecialOpen DEF special
    <3>6. ASSUME NEW y \in 0..Slots, OpenAt(c, d, y)
          PROVE  opening <= y
      <4>1. PICK i \in 1..Len(special) : Within(special[i], y)
        BY <2>1, <3>6, SpecialOpen DEF special
      <4>2. special[1].start <= special[i].start
        <5>1. \A j \in 1..Len(special) : special[j].start \in Int
          BY <3>1 DEF Window
        <5>2. 1 < i => special[1].start <= special[i].start
          BY <3>1, <3>3, Zenon DEF Ordered
        <5>3. 1 < i \/ i = 1
          BY <3>1
        <5> QED
          BY <3>3, <5>1, <5>2, <5>3
      <4> QED
        BY <3>1, <3>3, <4>1, <4>2 DEF Within, Window
    <3> QED
      BY <2>1, <3>2, <3>3, <3>4, <3>5, <3>6 DEF IsTradingDay
  <2>2. CASE ~ IsSpecial(c, d)
    <3>2. PICK s : s = Sessions(c)
      OBVIOUS
    <3>3. /\ IsTradingDay(c, d)
          /\ \A y \in Int : OpenAt(c, d, y) <=>
               \E i \in DOMAIN s : s[i].key = "MARKET" /\ Within(s[i], y)
      BY <2>2, <3>2, RegularOpen
    <3>4. /\ Len(s) \in Nat /\ DOMAIN s = 1..Len(s) /\ DOMAIN Windows(c, d) = 1..Len(s) /\ Ordered(s)
          /\ \A i \in 1..Len(s) : Windows(c, d)[i] = s[i] /\ s[i] \in Session
      BY <2>2, <3>2, RegularWindows DEF InOrder
    <3>5. mw = {i \in 1..Len(s) : s[i].key = "MARKET"} /\ mw \in SUBSET Nat
      BY <2>2, <3>3, <3>4 DEF MarketWindows, Candidates, Regular
    <3>6. mw # {}
      BY <3>3, <3>4, <3>5
    <3> HIDE DEF mw
    <3>7. PICK k \in 1..Len(s) : k = Min(mw) /\ s[k].key = "MARKET" /\ \A i \in mw : k <= i
      BY <3>5, <3>6, LeastExists
    <3>8. opening = s[k].start /\ opening \in 0..Slots /\ Within(s[k], opening)
      BY <3>4, <3>7 DEF Ordered, Within, Session
    <3> HIDE DEF opening
    <3>9. OpenAt(c, d, opening)
      BY <3>3, <3>4, <3>7, <3>8
    <3>10. ASSUME NEW y \in 0..Slots, OpenAt(c, d, y)
           PROVE  opening <= y
      <4>1. PICK i \in 1..Len(s) : s[i].key = "MARKET" /\ Within(s[i], y)
        BY <3>3, <3>4, <3>10
      <4>2. k <= i
        BY <3>5, <3>7, <4>1
      <4>3. s[k].start <= s[i].start
        <5>1. CASE k = i
          BY <3>4, <5>1 DEF Session
        <5>2. CASE k < i
          BY <3>4, <5>2 DEF Ordered
        <5> QED
          BY <4>2, <5>1, <5>2
      <4> QED
        BY <3>4, <3>8, <4>1, <4>3 DEF Within, Session
    <3> QED
      BY <3>3, <3>6, <3>8, <3>9, <3>10
  <2> QED
    BY <2>1, <2>2
<1> HIDE DEF mw, opening
<1>3. MarketState(c, d, t) = State("PRE_OPEN", -1, opening)
  <2>1. t < opening
    BY <1>2
  <2> QED
    BY <1>1, <1>2, <2>1, OpenIs DEF MarketState, mw, opening
<1> QED
  BY <1>2, <1>3 DEF State

-----------------------------------------------------------------------------
(* The inductive invariant.                                                *)

Contents == Editions \cup {"missing", "malformed"}
LoadType ==
  [busy : BOOLEAN, mtime : Nat, day : 0..LastDay, time : 0..Slots, held : SUBSET Contents]

\* What is cached under the file's present mtime is what the file holds.
CacheSound ==
  /\ cache = NothingCached \/ (cache.mtime \in 0..mtime /\ cache.calendar \in Editions)
  /\ cache.mtime = mtime => cache.calendar = file

\* A load knows every content that the file has had since its stat.
LoadSound ==
  /\ load \in LoadType /\ load.mtime <= mtime
  /\ load.busy => file \in load.held

FromTheFile(a) ==
  IF a.from = NoCalendar THEN a.onFile \cap {"missing", "malformed"} # {} ELSE a.from \in a.onFile

\* The answer is that of one calendar, of one moment.
AnswerSound(a) ==
  \E c \in Known, d \in 0..LastDay, t \in 0..Slots, copy \in Copies :
    /\ a.from = c /\ a.day = d /\ a.time = t /\ a.copy = copy
    /\ a.market = MarketState(c, d, t) /\ a.greeting = Greeting(c, d, t, copy)
    /\ a.hedged <=> Degraded(c, d)
    /\ FromTheFile(a)

ClockInv ==
  /\ day \in 0..LastDay /\ time \in 0..Slots /\ mtime \in 0..MaxEdits /\ file \in Contents
  /\ CacheSound /\ LoadSound
  /\ shown = NoAnswer \/ AnswerSound(shown)

LEMMA AnswerIsSound ==
  ASSUME NEW c \in Known, NEW d \in 0..LastDay, NEW t \in 0..Slots, NEW copy \in Copies,
         NEW held,
         IF c = NoCalendar THEN held \cap {"missing", "malformed"} # {} ELSE c \in held
  PROVE  AnswerSound([Answer(c, d, t, copy) EXCEPT !.onFile = held])
<1>1. PICK market, greeting, hedged, old :
        /\ market = MarketState(c, d, t) /\ greeting = Greeting(c, d, t, copy)
        /\ hedged = Degraded(c, d)
        /\ old = {file}
  OBVIOUS
<1> DEFINE a == [Answer(c, d, t, copy) EXCEPT !.onFile = held]
<1>2. a = [market |-> market, greeting |-> greeting, copy |-> copy, hedged |-> hedged, day |-> d, time |-> t,
           from |-> c, onFile |-> held]
  <2>1. PICK b : b = [market |-> market, greeting |-> greeting, copy |-> copy, hedged |-> hedged, day |-> d,
                      time |-> t, from |-> c, onFile |-> old]
    OBVIOUS
  <2>2. Answer(c, d, t, copy) = b
    BY <1>1, <2>1, Zenon DEF Answer
  <2>3. [b EXCEPT !.onFile = held] =
          [market |-> market, greeting |-> greeting, copy |-> copy, hedged |-> hedged, day |-> d, time |-> t,
           from |-> c, onFile |-> held]
    BY <2>1
  <2> QED
    BY <2>2, <2>3, Zenon
<1> HIDE DEF a
<1>3. /\ a.from = c /\ a.day = d /\ a.time = t /\ a.onFile = held
      /\ a.market = market /\ a.greeting = greeting /\ a.copy = copy
  BY <1>2
<1>4. a.hedged <=> Degraded(c, d)
  BY <1>1, <1>2, Zenon
<1> QED
  BY <1>1, <1>3, <1>4 DEF AnswerSound, FromTheFile, a

LEMMA MomentsAre == 0..LastDay \in SUBSET Int /\ 0..Slots \in SUBSET Int
<1>1. LastDay \in Int /\ Slots \in Int
  BY ClockAssumption
<1> QED
  BY <1>1

\* Once asked, the consumer holds a sound answer.
LEMMA ShownIsSound ==
  ASSUME ClockInv, shown.from # "nobody asked"
  PROVE  AnswerSound(shown)
<1>1. NoAnswer.from = "nobody asked"
  BY ZenonT(60) DEF NoAnswer
<1> QED
  BY <1>1, Zenon DEF ClockInv

LEMMA ClockSteps ==
  ASSUME ClockInv, [Next]_vars
  PROVE  ClockInv'
<1> USE ClockAssumption
<1>1. CASE Tick
  BY <1>1 DEF Tick, ClockInv, CacheSound, LoadSound
<1>2. CASE Edit
  <2>1. PICK f \in Contents : f # file /\ file' = f
    BY <1>2 DEF Edit, Contents
  <2>2. mtime' = mtime + 1 /\ mtime' \in 0..MaxEdits /\ UNCHANGED <<day, time, cache, shown>>
    BY <1>2 DEF Edit, ClockInv
  <2>3. CacheSound'
    BY <2>2 DEF CacheSound, ClockInv, NothingCached
  <2>4. LoadSound'
    <3>1. load' = [load EXCEPT !.held = IF load.busy THEN @ \cup {file'} ELSE @]
      BY <1>2 DEF Edit
    <3>2. load' \in LoadType /\ load'.mtime = load.mtime /\ load'.busy = load.busy
          /\ (load.busy => f \in load'.held)
      BY <2>1, <3>1 DEF LoadSound, LoadType, ClockInv
    <3> QED
      BY <2>1, <2>2, <3>2 DEF LoadSound, LoadType, ClockInv
  <2> QED
    BY <2>1, <2>2, <2>3, <2>4 DEF ClockInv
<1>3. CASE Ask
  <2>1. UNCHANGED <<day, time, file, mtime, cache>> /\ CacheSound'
    BY <1>3 DEF Ask, ClockInv, CacheSound
  <2>2. ASSUME NEW c \in Known, NEW copy \in Copies, shown' = Answer(c, day, time, copy), load' = load,
               IF c = NoCalendar THEN file = "missing" ELSE c = file
        PROVE  ClockInv'
    <3>1. /\ day \in 0..LastDay /\ time \in 0..Slots
          /\ IF c = NoCalendar THEN {file} \cap {"missing", "malformed"} # {} ELSE c \in {file}
      BY <2>2 DEF ClockInv
    <3>2. AnswerSound(shown')
      <4>1. PICK f : f = {file}
        OBVIOUS
      <4>2. PICK d \in 0..LastDay, t \in 0..Slots : d = day /\ t = time
        BY <3>1
      <4>3. AnswerSound([Answer(c, d, t, copy) EXCEPT !.onFile = f])
        BY <3>1, <4>1, AnswerIsSound
      <4>4. Answer(c, d, t, copy) = [Answer(c, d, t, copy) EXCEPT !.onFile = f]
        <5>1. PICK market, greeting, hedged :
                /\ market = MarketState(c, d, t) /\ greeting = Greeting(c, d, t, copy)
                /\ hedged = Degraded(c, d)
          OBVIOUS
        <5>2. Answer(c, d, t, copy) =
                [market |-> market, greeting |-> greeting, copy |-> copy, hedged |-> hedged,
                 day |-> d, time |-> t, from |-> c, onFile |-> f]
          BY <4>1, <5>1, Zenon DEF Answer
        <5> QED
          BY <5>2
      <4> QED
        BY <2>2, <4>1, <4>2, <4>3, <4>4
    <3> QED
      BY <2>1, <2>2, <3>2 DEF ClockInv, LoadSound, AnswerSound
  <2>3. CASE file = "missing"
    BY <1>3, <2>2, <2>3 DEF Ask, Known
  <2>4. CASE file # "missing" /\ CacheHit
    <3>1. cache.calendar = file /\ file \in Editions
      <4>1. cache # NothingCached
        BY <2>4 DEF CacheHit, ClockInv, NothingCached
      <4> QED
        BY <2>4, <4>1 DEF CacheHit, ClockInv, CacheSound
    <3> QED
      BY <1>3, <2>2, <2>4, <3>1 DEF Ask, Known, NoCalendar
  <2>5. CASE file # "missing" /\ ~ CacheHit
    <3>1. /\ load' = [busy |-> TRUE, mtime |-> mtime, day |-> day, time |-> time, held |-> {file}]
          /\ shown' = shown
      BY <1>3, <2>5 DEF Ask
    <3>2. LoadSound'
      BY <2>1, <3>1 DEF LoadSound, LoadType, ClockInv
    <3> QED
      BY <2>1, <3>1, <3>2 DEF ClockInv
  <2> QED
    BY <2>3, <2>4, <2>5
<1>4. CASE Read
  <2>1. /\ load.busy /\ UNCHANGED <<day, time, file, mtime>> /\ load' = NotLoading
        /\ load.mtime \in 0..mtime /\ load.day \in 0..LastDay /\ load.time \in 0..Slots
        /\ file \in load.held
    BY <1>4 DEF Read, ClockInv, LoadSound, LoadType
  <2>2. LoadSound'
    BY <2>1 DEF LoadSound, LoadType, NotLoading, ClockInv
  <2>3. CacheSound'
    <3>1. cache' = IF file \in Editions THEN [mtime |-> load.mtime, calendar |-> file] ELSE cache
      BY <1>4 DEF Read, Remember
    <3> QED
      BY <2>1, <3>1 DEF CacheSound, ClockInv
  <2>4. PICK c \in Known : c = IF file \in Editions THEN file ELSE NoCalendar
    BY DEF Known
  <2>5. PICK copy \in Copies : shown' = [Answer(c, load.day, load.time, copy) EXCEPT !.onFile = load.held]
    BY <1>4, <2>4 DEF Read
  <2>6. IF c = NoCalendar THEN load.held \cap {"missing", "malformed"} # {} ELSE c \in load.held
    BY <2>1, <2>4 DEF ClockInv, Contents, NoCalendar
  <2>7. AnswerSound(shown')
    BY <2>1, <2>5, <2>6, AnswerIsSound
  <2> QED
    BY <2>1, <2>2, <2>3, <2>7 DEF ClockInv, AnswerSound
<1>5. CASE UNCHANGED vars
  BY <1>5 DEF vars, ClockInv, CacheSound, LoadSound, AnswerSound
<1> QED
  BY <1>1, <1>2, <1>3, <1>4, <1>5 DEF Next

LEMMA ClockInvariant == Spec => []ClockInv
<1>1. Init => ClockInv
  BY ClockAssumption DEF Init, ClockInv, CacheSound, LoadSound, LoadType, NotLoading, NothingCached, Contents
<1> QED
  BY <1>1, ClockSteps, PTL DEF Spec

-----------------------------------------------------------------------------
(* The theorems.                                                           *)

\* Every answer comes from what the file held while it was asked, whatever the editor does
\* between load_calendar's stat and its read.
THEOREM FromTheFileAlways == Spec => []AnswersFromTheFile
<1>1. ClockInv => AnswersFromTheFile
  <2>1. AnswerSound(shown) => FromTheFile(shown)
    BY Zenon DEF AnswerSound
  <2> QED
    BY <2>1, ShownIsSound, ZenonT(60) DEF FromTheFile, AnswersFromTheFile
<1> QED
  BY <1>1, ClockInvariant, PTL

\* With sessions that keep their keys and keep clear of the market's, as those of the file do,
\* the market is said to be open exactly when the calendar declares it so (_windows_for,
\* the walk of market_state, _derive_state).
THEOREM OpenWhenDeclared ==
  ASSUME \A c \in Known : OwnKeys(c) /\ KeptApart(c)
  PROVE  Spec => []OpenAsDeclared
<1>1. ClockInv => OpenAsDeclared
  <2> SUFFICES ASSUME ClockInv, shown.from # "nobody asked"
               PROVE  shown.market.state = "OPEN" <=> DeclaredOpen(shown.from, shown.day, shown.time)
    BY ZenonT(60) DEF OpenAsDeclared
  <2>1. PICK c \in Known, d \in 0..LastDay, t \in 0..Slots :
          shown.from = c /\ shown.day = d /\ shown.time = t /\ shown.market = MarketState(c, d, t)
    BY ShownIsSound, Zenon DEF AnswerSound
  <2>2. d \in Int /\ t \in Int
    BY MomentsAre, ZenonT(60)
  <2>3. OpenAt(c, d, t) <=> DeclaredOpen(c, d, t)
    BY <2>2, DeclaredAt, ZenonT(60)
  <2> QED
    BY <2>1, <2>3, Zenon DEF OpenAt
<1> QED
  BY <1>1, ClockInvariant, PTL

\* With windows in order besides, who asks before the day's first opening is told of it, and
\* of no later one (market_windows[0] in _derive_state).
THEOREM OpeningsTold ==
  ASSUME \A c \in Known : OwnKeys(c) /\ KeptApart(c) /\ InOrder(c)
  PROVE  Spec => []OpeningsAnnounced
<1>1. ClockInv => OpeningsAnnounced
  <2> SUFFICES ASSUME ClockInv, shown.from # "nobody asked",
                      NEW open, open = {t \in 0..Slots : OpenAt(shown.from, shown.day, t)},
                      open # {}, \A t \in open : shown.time < t
               PROVE  /\ shown.market.state = "PRE_OPEN"
                      /\ shown.market.next \in open /\ \A t \in open : shown.market.next <= t
    BY ZenonT(60) DEF OpeningsAnnounced
  <2>1. PICK c \in Known, d \in 0..LastDay, t \in 0..Slots :
          shown.from = c /\ shown.day = d /\ shown.time = t /\ shown.market = MarketState(c, d, t)
    BY ShownIsSound, Zenon DEF AnswerSound
  <2>2. \A y : y \in open <=> y \in 0..Slots /\ OpenAt(c, d, y)
    BY <2>1, ZenonT(60)
  <2>3. \A y \in open : t < y
    BY <2>1, ZenonT(60)
  <2>4. PICK x \in 0..Slots : OpenAt(c, d, x) /\ t < x
    BY <2>2, <2>3, ZenonT(60)
  <2>5. PICK m : m = MarketState(c, d, t)
    BY ZenonT(60)
  <2>6. /\ m.state = "PRE_OPEN" /\ m.next \in 0..Slots /\ OpenAt(c, d, m.next)
        /\ \A y \in 0..Slots : OpenAt(c, d, y) => m.next <= y
    <3>1. \A y \in 0..Slots : OpenAt(c, d, y) => t < y
      BY <2>2, <2>3, ZenonT(60)
    <3>2. d \in Int
      BY MomentsAre, ZenonT(60)
    <3> QED
      BY <2>4, <2>5, <3>1, <3>2, AnnouncedAt, ZenonT(60)
  <2>7. shown.market = m
    BY <2>1, <2>5, ZenonT(60)
  <2> QED
    BY <2>2, <2>6, <2>7, ZenonT(60)
<1> QED
  BY <1>1, ClockInvariant, PTL

\* The entry screen greets with a live market only when the status line says that it is open
\* and does not hedge; and it then does, or says nothing, for want of a template
\* (select_greeting, _pick_template and market_state over the same walk).
THEOREM GreetingsAgree ==
  ASSUME \A c \in Known : OwnKeys(c)
  PROVE  Spec => []GreetingAgrees
<1>1. ClockInv => GreetingAgrees
  <2> SUFFICES ASSUME ClockInv, shown.from # "nobody asked"
               PROVE  LET live == shown.greeting \in LiveKeys(shown.from)
                          open == shown.market.state = "OPEN" /\ ~shown.hedged
                      IN /\ live => open
                         /\ open /\ ~live =>
                              shown.greeting = "DEFAULT" /\ ~(LiveKeys(shown.from) \subseteq shown.copy)
    BY ZenonT(60) DEF GreetingAgrees
  <2>1. PICK c \in Known, d \in 0..LastDay, t \in 0..Slots, copy \in Copies :
          /\ shown.from = c /\ shown.copy = copy
          /\ shown.market = MarketState(c, d, t) /\ shown.greeting = Greeting(c, d, t, copy)
          /\ shown.hedged <=> Degraded(c, d)
    BY ShownIsSound, Zenon DEF AnswerSound
  <2>2. d \in Int
    BY MomentsAre, ZenonT(60)
  <2>3. PICK live, keys, greeting :
          /\ greeting = Greeting(c, d, t, copy) /\ keys = LiveKeys(c)
          /\ live <=> greeting \in keys
    BY Zenon
  <2>4. /\ live => OpenAt(c, d, t) /\ ~ Degraded(c, d)
        /\ OpenAt(c, d, t) /\ ~ Degraded(c, d) /\ ~ live => greeting = "DEFAULT" /\ ~ (keys \subseteq copy)
    BY <2>2, <2>3, GreetingAt, ZenonT(60)
  <2> QED
    BY <2>1, <2>3, <2>4, ZenonT(60) DEF OpenAt
<1> QED
  BY <1>1, ClockInvariant, PTL

\* The variables keep their types; in particular only a calendar that parsed is cached, under
\* an mtime the file has had (load_calendar).
THEOREM ClockTyped == Spec => []TypeOK
<1>1. ClockInv => TypeOK
  BY DEF ClockInv, TypeOK, CacheSound, LoadSound, LoadType, Contents
<1> QED
  BY <1>1, ClockInvariant, PTL
=============================================================================
