--------------------------- MODULE MCMarketClock ---------------------------
(***************************************************************************)
(* Instances of MarketClock.  The slots are those of the sessions in       *)
(* backend/content/market_calendar.json: 0 midnight, 1 06:00, 2 09:00,     *)
(* 3 09:15, 4 15:30, 5 18:00, 6 19:00, 7 23:00.                            *)
(***************************************************************************)
EXTENDS MarketClock, TLC

Declared == << [key |-> "MORNING", start |-> 1, end |-> 2, trading |-> FALSE],
               [key |-> "MARKET", start |-> 3, end |-> 4, trading |-> TRUE],
               [key |-> "POST_MARKET", start |-> 4, end |-> 7, trading |-> TRUE] >>

Evening == [start |-> 5, end |-> 6]
Daytime == [start |-> 3, end |-> 4]
Muhurat == [key |-> "MUHURAT", windows |-> <<Evening>>]
Drill == [key |-> "DRILL", windows |-> <<Daytime, Evening>>]

\* Day 0 is a Friday.  A holiday on it, and on a Sunday with an evening session (Muhurat);
\* a Saturday with two windows, as an exchange's failover drill has; the last day is not
\* covered.  Of the keys, the repository's greetings.json has no template for the drill's.
Seeded == [sessions |-> Declared, holidays |-> {0, 2},
           special |-> (2 :> Muhurat), from |-> 0, to |-> 3]
Revised == [sessions |-> Declared, holidays |-> {2},
            special |-> (1 :> Drill) @@ (2 :> Muhurat),
            from |-> 0, to |-> 3]

BothEditions == [seeded |-> Seeded, revised |-> Revised]

\* The copy of the repository, one with the drill's template too, and a file that cannot be read.
SomeCopies == {Keys \ {"DRILL"}, Keys, {}}

\* The theorems of MarketClock_proofs speak of calendars like these.
ASSUME OrderlyEditions ==
  \A c \in Editions \cup {NoCalendar} : OwnKeys(c) /\ KeptApart(c) /\ InOrder(c)
=============================================================================
