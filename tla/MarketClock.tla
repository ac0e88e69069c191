---------------------------- MODULE MarketClock ----------------------------
(***************************************************************************)
(* What the assistant says about the market (backend/app/clock.py) and how *)
(* the entry screen greets (backend/app/greeting.py).                      *)
(*                                                                         *)
(* Both answer from a calendar file that is edited while the service runs: *)
(* load_calendar looks at the file's mtime, answers from its cache when    *)
(* that is unchanged and reads the file otherwise; an editor is another    *)
(* process, so it may write between the two.  Every write is taken to give *)
(* the file an mtime of its own: two within the resolution of the file     *)
(* system's clock are one to the cache.  Time is counted in the slots that *)
(* the windows of a day delimit, and a day by its number.                  *)
(***************************************************************************)
EXTENDS Integers, Sequences, FiniteSetsExt, Functions

CONSTANTS
  Calendar,    \* edition -> what the file may hold when it parses: see IsCalendar
  FallbackSessions, \* the code's own, for when there is no calendar
  Copies,      \* sets of keys that the greeting copy may have a template for
  Slots,       \* slots of a day, 0 first
  LastDay,     \* bound: days of the instance, from 0
  FirstWeekday,\* datetime.weekday() of day 0: Monday is 0
  MaxEdits     \* bound: edits of the file

Keys == {"MORNING", "MARKET", "POST_MARKET", "MUHURAT", "DRILL"}

\* A window is half-open; a session's also says whether it needs a trading day.
Window == [start : 0..Slots, end : 0..Slots]
Session == [key : Keys, start : 0..Slots, end : 0..Slots, trading : BOOLEAN]

\* sessions in the order the file declares them; special: day -> its key and its windows,
\* never none.
IsCalendar(c) ==
  /\ DOMAIN c = {"sessions", "holidays", "special", "from", "to"}
  /\ c.sessions \in Seq(Session)
  /\ c.holidays \subseteq Int /\ DOMAIN c.special \subseteq Int
  /\ \A d \in DOMAIN c.special :
       c.special[d].key \in Keys /\ c.special[d].windows \in Seq(Window) /\ c.special[d].windows # <<>>
  /\ c.from \in Int /\ c.to \in Int

Editions == DOMAIN Calendar

ASSUME ClockAssumption ==
  /\ Slots \in Nat \ {0} /\ LastDay \in Nat /\ FirstWeekday \in 0..6 /\ MaxEdits \in Nat
  /\ Editions # {} /\ Editions \cap {"missing", "malformed", "unavailable"} = {}
  /\ \A c \in Editions : IsCalendar(Calendar[c])
  /\ FallbackSessions \in Seq(Session) /\ Copies \subseteq SUBSET Keys /\ Copies # {}

VARIABLES
  day, time,   \* the wall clock, in India
  file,        \* the file: an edition of the calendar, "missing" or "malformed"
  mtime,       \* its modification time
  cache,       \* _cache: the mtime and calendar of the last successful read
  load,        \* a load_calendar that has looked at the mtime and not read the file yet
  shown        \* history: the last answer, with what it was computed from

vars == <<day, time, file, mtime, cache, load, shown>>

-----------------------------------------------------------------------------
(* The windows of a day.                                                   *)

NoCalendar == "unavailable"

Sessions(c) == IF c = NoCalendar THEN FallbackSessions ELSE Calendar[c].sessions

Weekday(d) == (d + FirstWeekday) % 7 < 5

Covers(c, d) == c # NoCalendar /\ Calendar[c].from <= d /\ d <= Calendar[c].to
Degraded(c, d) == ~Covers(c, d)

IsSpecial(c, d) == Covers(c, d) /\ d \in DOMAIN Calendar[c].special
IsHoliday(c, d) == Covers(c, d) /\ d \in Calendar[c].holidays

HolidaysWin(c, d) == Weekday(d) /\ ~IsHoliday(c, d)                       \* mutant
IsTradingDay(c, d) == IsSpecial(c, d) \/ (Weekday(d) /\ ~IsHoliday(c, d))

\* The windows in the order they are walked: a special session's, then the file's.
SpecialWindows(c, d) ==
  LET special == Calendar[c].special[d] IN
  [i \in DOMAIN special.windows |->
     [key |-> special.key, start |-> special.windows[i].start,
      end |-> special.windows[i].end, trading |-> FALSE]]
Windows(c, d) == (IF IsSpecial(c, d) THEN SpecialWindows(c, d) ELSE <<>>) \o Sessions(c)

\* Those that are the day's, and among them the market's: a special session replaces the
\* sessions that need a trading day.
Regular(c, d) == IsTradingDay(c, d) /\ ~IsSpecial(c, d)
Candidates(c, d) == {i \in DOMAIN Windows(c, d) : Windows(c, d)[i].trading => Regular(c, d)}
MarketWindows(c, d) ==
  IF IsSpecial(c, d) THEN DOMAIN SpecialWindows(c, d)
  ELSE {i \in Candidates(c, d) : Windows(c, d)[i].key = "MARKET"}

ClosedWindow(w, t) == w.start <= t /\ t <= w.end                          \* mutant
Within(w, t) == w.start <= t /\ t < w.end

\* The first candidate that holds the moment.
Matches(c, d, t) == {i \in Candidates(c, d) : Within(Windows(c, d)[i], t)}
NoWindow == [key |-> "DEFAULT", start |-> 0, end |-> 0]
Matched(c, d, t) ==
  IF Matches(c, d, t) = {} THEN NoWindow
  ELSE Windows(c, d)[Min(Matches(c, d, t))]

\* The keys under which trading goes on: the market's and the special sessions'.
SpecialKeys(c) ==
  IF c = NoCalendar THEN {} ELSE {Calendar[c].special[d].key : d \in DOMAIN Calendar[c].special}
LiveKeys(c) == {"MARKET"} \cup SpecialKeys(c)

\* What the code's sessions, and the sessions and windows of the file in the repository, have
\* beyond IsCalendar: a session with such a key is the market's, for trading days only;
OwnKeys(c) ==
  \A i \in DOMAIN Sessions(c) :
    Sessions(c)[i].key \in LiveKeys(c) => Sessions(c)[i].key = "MARKET" /\ Sessions(c)[i].trading
\* the market's are clear of the others;
KeptApart(c) ==
  \A i, j \in DOMAIN Sessions(c) :
    Sessions(c)[i].key = "MARKET" /\ Sessions(c)[j].key # "MARKET" =>
      \/ Sessions(c)[i].end <= Sessions(c)[j].start
      \/ Sessions(c)[j].end <= Sessions(c)[i].start
\* and no window empty, or before one that it follows.
Ordered(windows) ==
  /\ \A i \in DOMAIN windows : windows[i].start < windows[i].end
  /\ \A i, j \in DOMAIN windows : i < j => windows[i].start <= windows[j].start
InOrder(c) ==
  /\ Ordered(Sessions(c))
  /\ c # NoCalendar =>
       \A d \in DOMAIN Calendar[c].special : Ordered(Calendar[c].special[d].windows)

-----------------------------------------------------------------------------
(* The state of the market and what both consumers make of it.             *)

\* close: the end named, next: the opening named; -1 is None.
State(what, close, next) == [state |-> what, close |-> close, next |-> next]

MarketState(c, d, t) ==
  LET w       == Matched(c, d, t)
      mw      == MarketWindows(c, d)
      opening == Windows(c, d)[Min(mw)].start
  IN IF w.key = "MARKET" \/ (IsSpecial(c, d) /\ w.key = Calendar[c].special[d].key)
     THEN State("OPEN", w.end, -1)
     ELSE IF IsTradingDay(c, d) /\ mw # {}
     THEN IF t < opening THEN State("PRE_OPEN", -1, opening)
                         ELSE State("CLOSED", Windows(c, d)[Max(mw)].end, -1)
     ELSE IF IsHoliday(c, d) /\ Weekday(d) THEN State("HOLIDAY", -1, -1)
     ELSE State("CLOSED", -1, -1)

Worded(key, copy) == IF key \in copy THEN key ELSE "DEFAULT"
GreetingUnhedged(c, d, t, copy) == Worded(Matched(c, d, t).key, copy)     \* mutant
\* select_greeting: a degraded answer asserts nothing, nor does a key without a template.
\* copy is read anew for each greeting: {} when it is unreadable or malformed.
Greeting(c, d, t, copy) ==
  Worded(IF Degraded(c, d) THEN "DEFAULT" ELSE Matched(c, d, t).key, copy)

Answer(c, d, t, copy) ==
  [market |-> MarketState(c, d, t), greeting |-> Greeting(c, d, t, copy), copy |-> copy,
   hedged |-> Degraded(c, d), day |-> d, time |-> t, from |-> c, onFile |-> {file}]

-----------------------------------------------------------------------------
NotLoading == [busy |-> FALSE, mtime |-> 0, day |-> 0, time |-> 0, held |-> {}]
NothingCached == [mtime |-> -1, calendar |-> NoCalendar]
NoAnswer == [from |-> "nobody asked"]

Init ==
  /\ day = 0 /\ time = 0
  /\ file \in Editions /\ mtime = 0
  /\ cache = NothingCached
  /\ load = NotLoading
  /\ shown = NoAnswer

\* Time goes on; a load is over before the next slot begins.
Tick ==
  /\ ~load.busy
  /\ \/ time < Slots /\ time' = time + 1 /\ day' = day
     \/ time = Slots /\ day < LastDay /\ time' = 0 /\ day' = day + 1
  /\ UNCHANGED <<file, mtime, cache, load, shown>>

\* Somebody edits, breaks or removes the file.
Edit ==
  /\ mtime < MaxEdits
  /\ \E f \in Editions \cup {"missing", "malformed"} : f # file /\ file' = f
  /\ mtime' = mtime + 1
  /\ load' = [load EXCEPT !.held = IF load.busy THEN @ \cup {file'} ELSE @]
  /\ UNCHANGED <<day, time, cache, shown>>

StaleHit == cache.mtime # -1                                               \* mutant
CacheHit == cache.mtime = mtime

\* A consumer asks: stat, and the answer when there is no file or the cache is good.
Ask ==
  /\ ~load.busy
  /\ IF file = "missing"
     THEN (\E copy \in Copies : shown' = Answer(NoCalendar, day, time, copy)) /\ load' = load
     ELSE IF CacheHit
     THEN (\E copy \in Copies : shown' = Answer(cache.calendar, day, time, copy)) /\ load' = load
     ELSE /\ load' = [busy |-> TRUE, mtime |-> mtime, day |-> day, time |-> time,
                      held |-> {file}]
          /\ shown' = shown
  /\ UNCHANGED <<day, time, file, mtime, cache>>

\* Only a calendar that parsed is cached, under the mtime seen before it was read.
Remember ==
  cache' = IF file \in Editions THEN [mtime |-> load.mtime, calendar |-> file] ELSE cache

\* open, parse, answer.
Read ==
  /\ load.busy
  /\ Remember
  /\ LET c == IF file \in Editions THEN file ELSE NoCalendar IN
     \E copy \in Copies :
       shown' = [Answer(c, load.day, load.time, copy) EXCEPT !.onFile = load.held]
  /\ load' = NotLoading
  /\ UNCHANGED <<day, time, file, mtime>>

Next == Tick \/ Edit \/ Ask \/ Read

Spec == Init /\ [][Next]_vars

-----------------------------------------------------------------------------
(* Properties                                                              *)

\* The variables have their types, and a cached calendar is one that parsed.
TypeOK ==
  /\ day \in 0..LastDay /\ time \in 0..Slots
  /\ file \in Editions \cup {"missing", "malformed"}
  /\ mtime \in 0..MaxEdits
  /\ \/ cache = NothingCached
     \/ cache.mtime \in 0..mtime /\ cache.calendar \in Editions
  /\ load.busy \in BOOLEAN /\ load.mtime \in 0..mtime

\* An answer comes from a calendar the file held while the question was asked, or from none
\* if the file was then missing or malformed: the cache never outlives an edit, also one
\* that falls between load_calendar's stat and its read.
AnswersFromTheFile ==
  shown.from # "nobody asked" =>
    IF shown.from = NoCalendar THEN shown.onFile \cap {"missing", "malformed"} # {}
    ELSE shown.from \in shown.onFile

\* What the calendar declares of a day, with no walk: a special session's windows if it has
\* one, else the market session if it is a weekday without a holiday.
DeclaredOpen(c, d, t) ==
  LET known == c # NoCalendar /\ d \in Calendar[c].from..Calendar[c].to
      special == IF known /\ d \in DOMAIN Calendar[c].special
                 THEN Calendar[c].special[d].windows ELSE <<>>
      regular == {s \in Range(Sessions(c)) : s.key = "MARKET"}
      windows == IF special # <<>> THEN Range(special)
                 ELSE IF (d + FirstWeekday) % 7 \in 5..6 \/ (known /\ d \in Calendar[c].holidays)
                 THEN {} ELSE regular
  IN \E w \in windows : t \in w.start..(w.end - 1)

\* "Markets are open" is said in declared sessions and at no other moment, whatever windows,
\* weekends, holidays and gaps of coverage come together on a date.
OpenAsDeclared ==
  shown.from # "nobody asked" =>
    (shown.market.state = "OPEN" <=> DeclaredOpen(shown.from, shown.day, shown.time))

OpenAt(c, d, t) == MarketState(c, d, t).state = "OPEN"

\* Who asks before the first session of a day is told that it comes, and when: the answer
\* agrees with the one the same calendar gives later that day.
OpeningsAnnounced ==
  shown.from # "nobody asked" =>
    LET open == {t \in 0..Slots : OpenAt(shown.from, shown.day, t)}
    IN (open # {} /\ \A t \in open : shown.time < t) =>
         /\ shown.market.state = "PRE_OPEN"
         /\ shown.market.next \in open /\ \A t \in open : shown.market.next <= t

\* The entry screen and the assistant agree: a greeting that says the market is live is shown
\* only when the status line says that it is open and does not hedge, and then it is shown,
\* unless the copy lacks a template for such a key: then the greeting says nothing.
GreetingAgrees ==
  shown.from # "nobody asked" =>
    LET live == shown.greeting \in LiveKeys(shown.from)
        open == shown.market.state = "OPEN" /\ ~shown.hedged
    IN /\ live => open
       /\ open /\ ~live => shown.greeting = "DEFAULT" /\ ~(LiveKeys(shown.from) \subseteq shown.copy)

\* "Markets are closed for the day; the equity session closed at ...": a close that is named
\* has passed, and the market does not open again that day.
ClosedForTheDay ==
  shown.from # "nobody asked" /\ shown.market.state = "CLOSED" /\ shown.market.close # -1 =>
    /\ shown.market.close <= shown.time
    /\ \A t \in shown.time..Slots : ~OpenAt(shown.from, shown.day, t)
=============================================================================
