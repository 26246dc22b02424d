----------------------------- MODULE MarketHours -----------------------------
(***************************************************************************)
(* src/_shared/market.ts: when the exchange is open, and when it opens     *)
(* next.  An instant is a number of minutes, UTC, since the Sunday that is *)
(* day 0; a day of the calendar is numbered in local time, and a holiday   *)
(* is such a number.  Asia/Kolkata is UTC+5:30 all the year.               *)
(***************************************************************************)
EXTENDS Integers, FiniteSetsExt

CONSTANT Holidays       \* NSE_HOLIDAYS_2026, the days of years known to the code

ASSUME HolidaysAssumption == Holidays \subseteq Nat

DayLength == 24 * 60
Offset == 5 * 60 + 30       \* of the zone Asia/Kolkata

toMinutes(h, m) == h * 60 + m
NSE_HOURS == [open |-> toMinutes(9, 15), close |-> toMinutes(15, 30), days |-> 1 .. 5]
Always == [open |-> 0, close |-> 0, days |-> {}]   \* a symbol without hours
Never == -1                                        \* null

partsIn(t) ==
    LET local == t + Offset  day == local \div DayLength
    IN  [day |-> day, weekday |-> day % 7, minutesOfDay |-> local % DayLength]

tradingDay(hours, p) == p.weekday \in hours.days /\ p.day \notin Holidays

isMarketOpen(hours, t) ==
    LET p == partsIn(t) IN
    hours = Always \/ ( /\ tradingDay(hours, p)
                        /\ hours.open <= p.minutesOfDay /\ p.minutesOfDay < hours.close )

\* Mutant: the local time is taken for UTC.
zonedDate_utc(day, minutes) == day * DayLength + minutes

\* The guess is read as UTC and corrected by what it looks like in the zone.
zonedDate(day, minutes) ==
    LET utcGuess == day * DayLength + minutes
        probe == partsIn(utcGuess)
    IN  utcGuess - (probe.day * DayLength + probe.minutesOfDay - utcGuess)

\* The loop over dayOffset, three weeks at most: it passes over the days without a
\* session, and over a first day whose session has ended.
nextOpen(hours, t) ==
    LET p(dayOffset) == partsIn(t + dayOffset * DayLength)
        left(dayOffset) == /\ tradingDay(hours, p(dayOffset))
                           /\ ~(dayOffset = 0 /\ p(dayOffset).minutesOfDay >= hours.close)
        days == {dayOffset \in 0 .. 20 : left(dayOffset)}
    IN  IF hours # Always /\ days # {} /\ (Min(days) > 0 \/ p(0).minutesOfDay < hours.open)
        THEN zonedDate(p(Min(days)).day, hours.open)
        ELSE Never

\* Reference: the sessions of the exchange in UTC, 03:45 to 10:00 on Monday to
\* Friday that is no holiday.
Opening(day) == day * DayLength + 225
InSession(t) ==
    \E day \in {t \div DayLength} \ Holidays :
        day % 7 \in 1 .. 5 /\ t \in Opening(day) .. Opening(day) + 374
=============================================================================
