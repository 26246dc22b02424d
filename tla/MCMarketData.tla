---------------------------- MODULE MCMarketData ----------------------------
(* Instances of MarketData for TLC. *)
EXTENDS MarketData

\* Friday to Tuesday, the Monday a holiday: both ends of the session, and midnight
\* in UTC and in India.
MCHolidays == {8}
MCInstants == {day * DayLength + m : day \in 5 .. 9, m \in {0, 224, 225, 599, 600, 1110}}
=============================================================================
