--------------------------- MODULE MarketDataProofs ---------------------------
(***************************************************************************)
(* The hours of the exchange for every instant and every list of holidays, *)
(* and from them what MarketData says of an order, for every clock; the    *)
(* connection to Twelve Data, for any sockets and delays, and in every     *)
(* configuration of the module.                                            *)
(***************************************************************************)
EXTENDS MarketData, FiniteSetTheorems, WellFoundedInduction, TLAPS

(***************************************************************************)
(* Hours                                                                   *)
(***************************************************************************)

\* Of a division by the minutes of a day.
LEMMA Division ==
    ASSUME NEW a \in Int
    PROVE  /\ a \div 1440 \in Int /\ a % 1440 \in 0 .. 1439
           /\ a = 1440 * (a \div 1440) + (a % 1440)
OBVIOUS

\* partsIn, with the numbers it computes with.
LEMMA LocalTime ==
    ASSUME NEW instant \in Int
    PROVE  partsIn(instant) = [day |-> (instant + 330) \div 1440,
                               weekday |-> ((instant + 330) \div 1440) % 7,
                               minutesOfDay |-> (instant + 330) % 1440]
BY DEF partsIn, Offset, DayLength

\* zonedDate is the instant at which it is that day and minute in India: the
\* correction of the guess is right whatever the guess, which is what nextOpen
\* relies on for the hour it announces.
THEOREM ZonedDateInverts ==
    ASSUME NEW day \in Int, NEW minutes \in 0 .. 1439
    PROVE  /\ zonedDate(day, minutes) \in Int
           /\ partsIn(zonedDate(day, minutes)).day = day
           /\ partsIn(zonedDate(day, minutes)).minutesOfDay = minutes
           /\ zonedDate(day, minutes) + 330 = 1440 * day + minutes
<1>. DEFINE guess == 1440 * day + minutes
            local == guess + 330
            t == zonedDate(day, minutes)
<1>1. guess \in Int /\ local \in Int
  OBVIOUS
<1>2. partsIn(guess).day = local \div 1440 /\ partsIn(guess).minutesOfDay = local % 1440
  BY <1>1, LocalTime
<1>3. t = guess - (partsIn(guess).day * 1440 + partsIn(guess).minutesOfDay - guess)
  BY DEF zonedDate, DayLength
<1>4. /\ local \div 1440 \in Int /\ local % 1440 \in 0 .. 1439
      /\ local = 1440 * (local \div 1440) + (local % 1440)
  <2>. HIDE DEF local
  <2>. QED  BY <1>1, Division
<1>5. t = guess - (local - guess)
  <2>. HIDE DEF local, guess, t
  <2>. QED  BY <1>1, <1>2, <1>3, <1>4
<1>6. t \in Int /\ t + 330 = 1440 * day + minutes
  <2>. HIDE DEF t
  <2>. QED  BY <1>5
<1>7. (t + 330) \div 1440 = day /\ (t + 330) % 1440 = minutes
  <2>. DEFINE moment == t + 330
  <2>1. moment \in Int /\ moment = 1440 * day + minutes
    <3>. HIDE DEF t
    <3>. QED  BY <1>6
  <2>. HIDE DEF moment, t
  <2>2. moment \div 1440 = day /\ moment % 1440 = minutes
    BY <2>1
  <2>. USE DEF moment
  <2>. QED  BY <2>2
<1>8. partsIn(t).day = (t + 330) \div 1440 /\ partsIn(t).minutesOfDay = (t + 330) % 1440
  <2>. HIDE DEF t
  <2>. QED  BY <1>6, LocalTime
<1>. QED  BY <1>6, <1>7, <1>8

\* 09:15 to 15:30, Monday to Friday.
LEMMA HoursOfNse ==
    /\ NSE_HOURS = [open |-> 555, close |-> 930, days |-> 1 .. 5]
    /\ NSE_HOURS # Always
<1>1. NSE_HOURS.open = 555 /\ Always.open = 0
  BY DEF NSE_HOURS, Always, toMinutes
<1>. QED  BY <1>1 DEF NSE_HOURS, toMinutes

\* The reference, on the day in UTC.
LEMMA Sessions ==
    ASSUME NEW t \in Int
    PROVE  InSession(t) <=>
             LET day == t \div 1440 IN
             /\ day % 7 \in 1 .. 5 /\ day \notin Holidays
             /\ 1440 * day + 225 <= t /\ t <= 1440 * day + 599
<1>1. t \div 1440 \in Int
  BY Division
<1>. QED  BY <1>1 DEF InSession, Opening, DayLength

\* The exchange is open on the weekdays that are no holidays from 03:45 UTC up
\* to, and without, 10:00: isMarketOpen, which reads the clock of India, says so
\* of every instant.
THEOREM SessionHours ==
    ASSUME NEW t \in Int
    PROVE  isMarketOpen(NSE_HOURS, t) <=> InSession(t)
<1>. DEFINE local == t + 330
            day == local \div 1440
            minutes == local % 1440
            utc == t \div 1440
<1>1. local \in Int /\ day \in Int /\ minutes \in 0 .. 1439 /\ local = 1440 * day + minutes
  BY Division
<1>2. isMarketOpen(NSE_HOURS, t) <=>
        day % 7 \in 1 .. 5 /\ day \notin Holidays /\ 555 <= minutes /\ minutes < 930
  <2>1. partsIn(t) = [day |-> day, weekday |-> day % 7, minutesOfDay |-> minutes]
    BY LocalTime
  <2>. HIDE DEF day, minutes
  <2>. QED  BY <2>1, HoursOfNse DEF isMarketOpen, tradingDay
<1>3. InSession(t) <=>
        utc % 7 \in 1 .. 5 /\ utc \notin Holidays /\ 1440 * utc + 225 <= t /\ t <= 1440 * utc + 599
  BY Sessions
<1>4. ASSUME 555 <= minutes, minutes < 930
      PROVE  utc = day /\ 1440 * utc + 225 <= t /\ t <= 1440 * utc + 599
  <2>1. minutes - 330 \in 0 .. 1439 /\ t = 1440 * day + (minutes - 330)
    BY <1>1, <1>4
  <2>2. utc = day
    <3>. DEFINE rest == minutes - 330
    <3>1. rest \in 0 .. 1439 /\ t = 1440 * day + rest /\ day \in Int
      BY <1>1, <2>1
    <3>. HIDE DEF rest, day
    <3>. QED  BY <3>1
  <2>. HIDE DEF utc, day, minutes
  <2>. QED  BY <1>1, <1>4, <2>1, <2>2
<1>5. ASSUME 1440 * utc + 225 <= t, t <= 1440 * utc + 599
      PROVE  utc = day /\ 555 <= minutes /\ minutes < 930
  <2>1. utc \in Int /\ t - 1440 * utc + 330 \in 0 .. 1439
        /\ local = 1440 * utc + (t - 1440 * utc + 330)
    BY <1>5, Division
  <2>2. day = utc /\ minutes = t - 1440 * utc + 330
    <3>. DEFINE rest == t - 1440 * utc + 330
    <3>1. rest \in 0 .. 1439 /\ local = 1440 * utc + rest /\ utc \in Int /\ local \in Int
      BY <2>1
    <3>2. local \div 1440 = utc /\ local % 1440 = rest
      <4>. HIDE DEF rest, utc, local
      <4>. QED  BY <3>1
    <3>. QED  BY <3>2
  <2>. HIDE DEF utc, day, minutes
  <2>. QED  BY <1>5, <2>1, <2>2
<1>. HIDE DEF day, minutes, utc
<1>. QED  BY <1>2, <1>3, <1>4, <1>5
\* A set of naturals that is not empty has a least element.
LEMMA Least ==
    ASSUME NEW S, S \subseteq Nat, S # {}
    PROVE  Min(S) \in S /\ \A x \in S : Min(S) <= x
<1>. DEFINE R == OpToRel(<, Nat)
<1>1. \E x \in S : \A y \in S : ~(<<y, x>> \in R)
  <2>1. IsWellFoundedOn(R, Nat)
    BY NatLessThanWellFounded, Zenon
  <2>. HIDE DEF R
  <2>. QED  BY <2>1, WFMin, Zenon
<1>2. \A x, y \in Nat : y < x => <<y, x>> \in R
  BY Zenon DEF OpToRel
<1>3. \E x \in S : \A y \in S : ~(y < x)
  <2>. HIDE DEF R
  <2>. QED  BY <1>1, <1>2, Zenon
<1>4. PICK x \in S : \A y \in S : x <= y
  BY <1>3
<1>. QED  BY <1>4 DEF Min

\* The opening of a day: the case of ZonedDateInverts that nextOpen needs.
LEMMA OpeningOf ==
    \A day \in Int : zonedDate(day, 555) = 1440 * day + 225
<1>. TAKE day \in Int
<1>1. PICK guess \in Int : guess = 1440 * day + 555
  OBVIOUS
<1>2. PICK local \in Int : local = guess + 330
  OBVIOUS
<1>3. zonedDate(day, 555) = guess - ((local \div 1440) * 1440 + (local % 1440) - guess)
  BY <1>1, <1>2 DEF zonedDate, partsIn, Offset, DayLength
<1>4. local = 1440 * (local \div 1440) + (local % 1440)
  BY Division
<1>. QED  BY <1>1, <1>2, <1>3, <1>4

\* The hour nextOpen announces is the opening of the next session: one that begins
\* after t, and the first that does.
LEMMA NextSession ==
    ASSUME NEW t \in Int, ~InSession(t), nextOpen(NSE_HOURS, t) # Never
    PROVE  LET n == nextOpen(NSE_HOURS, t) IN
           n \in Int /\ t < n /\ InSession(n) /\ \A u \in Int : t <= u /\ InSession(u) => n <= u
<1>. DEFINE local == t + 330
            today == local \div 1440
            minutes == local % 1440
            trades(day) == day % 7 \in 1 .. 5 /\ day \notin Holidays
            days == {k \in 0 .. 20 : trades(today + k) /\ ~(k = 0 /\ minutes >= 930)}
            n == nextOpen(NSE_HOURS, t)
<1>1. /\ local \in Int /\ today \in Int /\ minutes \in 0 .. 1439
      /\ t = 1440 * today + minutes - 330
  BY Division
<1>2. \A k \in 0 .. 20 : /\ partsIn(t + k * 1440).day = today + k
                         /\ partsIn(t + k * 1440).weekday = (today + k) % 7
                         /\ partsIn(t + k * 1440).minutesOfDay = minutes
  <2>. SUFFICES ASSUME NEW k \in 0 .. 20
                PROVE  /\ partsIn(t + k * 1440).day = today + k
                       /\ partsIn(t + k * 1440).weekday = (today + k) % 7
                       /\ partsIn(t + k * 1440).minutesOfDay = minutes
    OBVIOUS
  <2>1. PICK later \in Int : later = t + k * 1440 + 330
    OBVIOUS
  <2>2. later = 1440 * (today + k) + minutes
    <3>. HIDE DEF today, minutes
    <3>. QED  BY <1>1, <2>1
  <2>3. later \div 1440 = today + k /\ later % 1440 = minutes
    <3>. HIDE DEF today, minutes
    <3>. QED  BY <1>1, <2>2
  <2>4. /\ partsIn(t + k * 1440).day = later \div 1440
        /\ partsIn(t + k * 1440).weekday = (later \div 1440) % 7
        /\ partsIn(t + k * 1440).minutesOfDay = later % 1440
    BY <2>1 DEF partsIn, Offset, DayLength
  <2>. QED  BY <2>3, <2>4
<1>. DEFINE q(k) == partsIn(t + k * DayLength)
            found == {k \in 0 .. 20 : /\ tradingDay(NSE_HOURS, q(k))
                                     /\ ~(k = 0 /\ q(k).minutesOfDay >= NSE_HOURS.close)}
<1>3. n = IF found # {} /\ (Min(found) > 0 \/ q(0).minutesOfDay < NSE_HOURS.open)
          THEN zonedDate(q(Min(found)).day, NSE_HOURS.open) ELSE Never
  BY HoursOfNse, Zenon DEF nextOpen
<1>4. found = days
  <2>. HIDE DEF today, minutes
  <2>. SUFFICES ASSUME NEW k \in 0 .. 20
                PROVE  /\ tradingDay(NSE_HOURS, q(k)) <=> trades(today + k)
                       /\ q(k).minutesOfDay >= NSE_HOURS.close <=> minutes >= 930
    <3>. HIDE DEF q, trades
    <3>. QED  OBVIOUS
  <2>1. q(k).day = today + k /\ q(k).weekday = (today + k) % 7 /\ q(k).minutesOfDay = minutes
    BY <1>2 DEF DayLength
  <2>. HIDE DEF q
  <2>. QED  BY <2>1, HoursOfNse DEF tradingDay
<1>5. days # {} /\ Min(days) \in days /\ \A k \in days : Min(days) <= k
  <2>1. found # {}
    <3>. HIDE DEF found, q
    <3>. QED  BY <1>3
  <2>2. days # {} /\ days \subseteq Nat
    <3>1. days \subseteq Nat
      OBVIOUS
    <3>. HIDE DEF found, days
    <3>. QED  BY <1>4, <2>1, <3>1
  <2>. HIDE DEF days
  <2>. QED  BY <2>2, Least
<1>6. PICK k \in 0 .. 20 : /\ k = Min(days) /\ trades(today + k)
                           /\ k = 0 => minutes < 555
                           /\ n = zonedDate(today + k, 555)
  <2>1. Min(days) \in 0 .. 20 /\ trades(today + Min(days))
    BY <1>5
  <2>2. 0 \in 0 .. 20 /\ NSE_HOURS.open = 555 /\ n # Never
    BY HoursOfNse
  <2>3. \A k \in 0 .. 20 : q(k).day = today + k /\ q(k).minutesOfDay = minutes
    BY <1>2 DEF DayLength
  <2>4. Min(days) > 0 \/ q(0).minutesOfDay < 555
    <3>. HIDE DEF found, days, n, q
    <3>. QED  BY <1>3, <1>4, <2>2
  <2>5. n = zonedDate(q(Min(days)).day, 555)
    <3>. HIDE DEF found, days, n, q
    <3>. QED  BY <1>3, <1>4, <2>2
  <2>6. n = zonedDate(today + Min(days), 555)
    <3>. HIDE DEF days, n, q, today
    <3>. QED  BY <2>1, <2>3, <2>5
  <2>7. Min(days) = 0 => minutes < 555
    <3>. HIDE DEF days, n, q, today, minutes
    <3>. QED  BY <2>2, <2>3, <2>4
  <2>. HIDE DEF days, n, trades, today, minutes
  <2>. QED  BY <2>1, <2>6, <2>7
<1>7. n = 1440 * (today + k) + 225
  <2>. HIDE DEF today, n
  <2>. QED  BY <1>1, <1>6, OpeningOf
<1>8. n \in Int /\ InSession(n)
  <2>. DEFINE day == today + k
  <2>1. day \in Int /\ n \in Int /\ n = 1440 * day + 225 /\ trades(day)
    <3>. HIDE DEF today, trades, n
    <3>. QED  BY <1>1, <1>6, <1>7
  <2>2. n \div 1440 = day
    <3>. HIDE DEF day, n
    <3>. QED  BY <2>1
  <2>. HIDE DEF day, n
  <2>. QED  BY <2>1, <2>2, Sessions
<1>9. ASSUME NEW u \in Int, t <= u, InSession(u)
      PROVE  n <= u
  <2>. DEFINE day == u \div 1440
  <2>1. day \in Int /\ trades(day) /\ 1440 * day + 225 <= u /\ u <= 1440 * day + 599
    BY <1>9, Sessions, Division
  <2>2. day >= today /\ (day = today => minutes < 930)
    <3>. HIDE DEF day, today, minutes, trades
    <3>. QED  BY <1>1, <1>9, <2>1
  <2>3. day >= today + k
    <3>1. SUFFICES ASSUME day < today + k PROVE FALSE
      <4>. HIDE DEF day, today
      <4>. QED  BY <1>1, <2>1
    <3>. DEFINE e == day - today
    <3>2. e \in 0 .. 20 /\ e < k /\ today + e = day /\ (e = 0 => minutes < 930)
      <4>. HIDE DEF day, today, minutes
      <4>. QED  BY <1>1, <2>1, <2>2, <3>1
    <3>3. e \in days
      <4>. HIDE DEF day, today, minutes, trades, e
      <4>. QED  BY <1>1, <2>1, <3>2
    <3>. HIDE DEF days, e, trades
    <3>. QED  BY <1>5, <1>6, <3>2, <3>3
  <2>. HIDE DEF day, today, n, trades
  <2>. QED  BY <1>1, <1>7, <2>1, <2>3
<1>10. t < n
  <2>. HIDE DEF today, minutes, n
  <2>. QED  BY <1>1, <1>6, <1>7
<1>. QED  BY <1>8, <1>9, <1>10, Zenon

(***************************************************************************)
(* Orders and the clock                                                    *)
(***************************************************************************)

\* Each symbol keeps the hours of its region.
LEMMA HoursOfSymbols ==
    \A s \in codes :
        \/ SYMBOLS[s].region = "IN" /\ SYMBOLS[s].hours = NSE_HOURS
        \/ SYMBOLS[s].region = "GLOBAL" /\ SYMBOLS[s].hours = Always
BY DEF codes, SYMBOLS

\* No order is admitted from now on before the hour a refused user was told.
Announced ==
    /\ now \in Nat
    /\ told # Never => /\ told \in Nat /\ InSession(told)
                       /\ \A u \in Int : now <= u /\ InSession(u) => told <= u

LEMMA AnnouncedStep ==
    ASSUME Announced, [MarketNext]_allVars
    PROVE  Announced'
<1>1. ASSUME clockMoves PROVE Announced'
  <2>1. now' \in Nat /\ now < now' /\ told' = told
    BY <1>1, InstantsAssumption DEF clockMoves
  <2>. QED  BY <2>1 DEF Announced
<1>2. ASSUME NEW s \in codes, openPosition(s) PROVE Announced'
  <2>1. now' = now /\ told' = IF admits(s) THEN told ELSE nextOpen(SYMBOLS[s].hours, now)
    BY <1>2 DEF openPosition
  <2>2. CASE admits(s)
    BY <2>1, <2>2 DEF Announced
  <2>3. CASE ~admits(s)
    <3>1. SYMBOLS[s].hours = NSE_HOURS
      BY <2>3, HoursOfSymbols DEF admits, isMarketOpen
    <3>2. now \in Int
      BY DEF Announced
    <3>3. ~InSession(now) /\ told' = nextOpen(NSE_HOURS, now)
      BY <2>1, <2>3, <3>1, <3>2, SessionHours DEF admits
    <3>4. CASE told' = Never
      BY <2>1, <3>4 DEF Announced
    <3>5. CASE told' # Never
      <4>1. /\ told' \in Int /\ now < told' /\ InSession(told')
            /\ \A u \in Int : now <= u /\ InSession(u) => told' <= u
        BY <3>2, <3>3, <3>5, NextSession
      <4>2. told' \in Nat
        BY <4>1 DEF Announced
      <4>. QED  BY <2>1, <4>1, <4>2 DEF Announced
    <3>. QED  BY <3>4, <3>5
  <2>. QED  BY <2>2, <2>3
<1>3. ASSUME UNCHANGED <<now, told>> PROVE Announced'
  BY <1>3 DEF Announced
<1>4. ASSUME \/ \E name \in built : startProvider(name)
             \/ onModuleDestroy \/ feedStep \/ UNCHANGED allVars
      PROVE  UNCHANGED <<now, told>>
  BY <1>4 DEF startProvider, onModuleDestroy, feedStep, allVars
<1>. QED  BY <1>1, <1>2, <1>3, <1>4 DEF MarketNext

\* Orders are admitted in the sessions of the exchange, and a refused user was told
\* the next one: whatever the holidays, at every instant, however the clock moves.
THEOREM NextOpenIsAnnounced == MarketSpec => []AnnouncedOpenIsNext
<1>1. MarketInit => Announced
  BY InstantsAssumption DEF MarketInit, Announced
<1>2. Announced /\ [MarketNext]_allVars => Announced'
  BY AnnouncedStep
<1>3. Announced => AnnouncedOpenIsNext
  <2>. SUFFICES ASSUME Announced PROVE AnnouncedOpenIsNext
    OBVIOUS
  <2>1. now \in Int /\ (told # Never => InSession(told) /\ (InSession(now) => now >= told))
    BY DEF Announced
  <2>2. ASSUME NEW s \in codes, SYMBOLS[s].region = "IN"
        PROVE  admits(s) <=> InSession(now)
    <3>1. SYMBOLS[s].hours = NSE_HOURS
      BY <2>2, HoursOfSymbols
    <3>. QED  BY <2>1, <3>1, SessionHours DEF admits
  <2>. QED  BY <2>1, <2>2 DEF AnnouncedOpenIsNext
<1>. QED  BY <1>1, <1>2, <1>3, PTL DEF MarketSpec

(***************************************************************************)
(* The connection to Twelve Data, for every number of socket objects and   *)
(* every longest delay: one socket or one reconnection, never two          *)
(***************************************************************************)

\* OneFeed, without counting.
Connected ==
    /\ \A s \in Sockets : s \in Alive => s = ws
    /\ started /\ ~closed => ((\E s \in Sockets : s \in Alive) <=> ~reconnectTimer)
    /\ ~started \/ closed => ~reconnectTimer /\ \A s \in Sockets : s \notin Alive

Feed ==
    /\ socket \in [Sockets -> {"new", "connecting", "open", "erring", "closed"}]
    /\ started \in BOOLEAN /\ closed \in BOOLEAN /\ reconnectTimer \in BOOLEAN
    /\ Connected

\* The steps that create a socket need one that is not in use: there was none.
LEMMA Connects ==
    ASSUME Feed, NEW s \in Sockets, connect(s), ~closed, UNCHANGED closed,
           \A r \in Sockets : r \notin Alive, started' = TRUE, reconnectTimer' = FALSE
    PROVE  Feed'
<1>1. socket' = [socket EXCEPT ![s] = "connecting"] /\ ws' = s
  BY DEF connect
<1>2. \A r \in Sockets : r \in Alive' <=> r = s
  BY <1>1 DEF Feed, Alive
<1>. QED BY <1>1, <1>2 DEF Feed, Connected

LEMMA FeedStep ==
    ASSUME Feed, [Next]_vars
    PROVE  Feed'
<1>1. ASSUME NEW s \in Sockets, start(s) PROVE Feed'
  <2>1. /\ ~started /\ started' = TRUE /\ connect(s)
        /\ UNCHANGED <<reconnectTimer, closed>>
    BY <1>1 DEF start
  <2>2. ~reconnectTimer /\ \A r \in Sockets : r \notin Alive
    BY <2>1 DEF Feed, Connected
  <2>3. CASE closed
    <3>1. UNCHANGED <<socket, ws>>
      BY <2>1, <2>3 DEF connect
    <3>. QED BY <2>1, <2>2, <2>3, <3>1 DEF Feed, Connected, Alive
  <2>4. CASE ~closed
    BY <2>1, <2>2, <2>4, Connects DEF Feed
  <2>. QED BY <2>3, <2>4
<1>2. ASSUME NEW s \in Sockets, reconnectTimerFires(s) PROVE Feed'
  <2>1. reconnectTimer /\ reconnectTimer' = FALSE /\ connect(s)
        /\ UNCHANGED <<started, closed>>
    BY <1>2 DEF reconnectTimerFires, loop
  <2>2. started /\ ~closed /\ \A r \in Sockets : r \notin Alive
    BY <2>1 DEF Feed, Connected
  <2>3. started' = TRUE
    BY <2>1, <2>2 DEF Feed
  <2>. QED BY <2>1, <2>2, <2>3, Connects
<1>3. ASSUME NEW s \in Sockets, onOpen(s) \/ onError(s) PROVE Feed'
  <2>1. \E v \in {"open", "erring"} : socket' = [socket EXCEPT ![s] = v]
    BY <1>3 DEF onOpen, onError
  <2>2. s \in Alive /\ UNCHANGED <<started, closed, ws, reconnectTimer>>
    BY <1>3 DEF onOpen, onError, Alive, loop
  <2>3. \A r \in Sockets : r \in Alive' <=> r \in Alive
    BY <2>1, <2>2 DEF Feed, Alive
  <2>. QED BY <2>1, <2>2, <2>3 DEF Feed, Connected
<1>4. ASSUME NEW s \in Sockets, onClose(s) PROVE Feed'
  <2>1. socket' = [socket EXCEPT ![s] = "closed"] /\ s \in Alive
        /\ UNCHANGED <<started, closed, ws>>
    BY <1>4 DEF onClose, Alive, loop
  <2>2. started /\ ~closed
    BY <2>1 DEF Feed, Connected
  <2>3. reconnectTimer' = TRUE
    BY <1>4, <2>2 DEF onClose, scheduleReconnect
  <2>4. \A r \in Sockets : r \notin Alive'
    BY <2>1 DEF Feed, Connected, Alive
  <2>. QED BY <2>1, <2>2, <2>3, <2>4 DEF Feed, Connected
<1>5. ASSUME stop PROVE Feed'
  <2>1. /\ closed' = TRUE /\ reconnectTimer' = FALSE /\ started' = started
        /\ socket' = [s \in Sockets |-> IF s = ws THEN "closed" ELSE socket[s]]
    BY <1>5 DEF stop
  <2>2. \A r \in Sockets : r \notin Alive'
    BY <2>1 DEF Feed, Connected, Alive
  <2>. QED BY <2>1, <2>2 DEF Feed, Connected
<1>6. ASSUME networkChanges \/ UNCHANGED vars PROVE Feed'
  BY <1>6 DEF networkChanges, vars, loop, Feed, Connected, Alive
<1>. QED BY <1>1, <1>2, <1>3, <1>4, <1>5, <1>6 DEF Next

LEMMA ConnectedCounts == Feed => OneFeed
<1>. SUFFICES ASSUME Feed PROVE OneFeed
  OBVIOUS
<1>1. Alive \subseteq {ws}
  BY DEF Feed, Connected, Alive
<1>2. CASE Alive = {}
  <2>1. Cardinality(Alive) = 0
    BY <1>2, FS_EmptySet
  <2>2. reconnectTimer <=> started /\ ~closed
    BY <1>2 DEF Feed, Connected
  <2>. QED BY <1>1, <2>1, <2>2 DEF OneFeed
<1>3. CASE Alive # {}
  <2>1. Alive = {ws}
    BY <1>1, <1>3
  <2>2. Cardinality(Alive) = 1
    BY <2>1, FS_Singleton
  <2>3. started /\ ~closed /\ ~reconnectTimer
    BY <1>3 DEF Feed, Connected, Alive
  <2>. QED BY <1>1, <2>2, <2>3 DEF OneFeed
<1>. QED BY <1>2, <1>3

\* From start() to stop() exactly one socket is alive or one reconnection waits,
\* and neither before or after.
THEOREM FeedIsOne == Spec => []OneFeed
<1>1. Init => Feed
  BY DEF Init, Feed, Connected, Alive
<1>2. Feed /\ [Next]_vars => Feed'
  BY FeedStep
<1>. QED BY <1>1, <1>2, ConnectedCounts, PTL DEF Spec

\* Types; the heartbeat beats for a socket that is open or erring, the current one.
LEMMA TypesStep ==
    ASSUME Feed, TypeOK, [Next]_vars
    PROVE  TypeOK'
<1>1. heartbeatTimer => ws \in Alive /\ started /\ ~closed
  BY DEF TypeOK, Feed, Connected, Alive
<1>2. ASSUME NEW s \in Sockets, connect(s), ~heartbeatTimer, heartbeatTimer' = FALSE,
             started' \in BOOLEAN, mockInterval' \in BOOLEAN, reconnectTimer' \in BOOLEAN,
             UNCHANGED <<reconnectAttempt, closed, reachable>>
      PROVE  TypeOK'
  BY <1>2 DEF connect, TypeOK
<1>3. ASSUME NEW s \in Sockets, start(s) PROVE TypeOK'
  <2>1. ~heartbeatTimer /\ heartbeatTimer' = FALSE
    BY <1>1, <1>3 DEF start, TypeOK
  <2>. QED  BY <1>2, <1>3, <2>1 DEF start, TypeOK
<1>4. ASSUME NEW s \in Sockets, reconnectTimerFires(s) PROVE TypeOK'
  <2>1. ~heartbeatTimer /\ heartbeatTimer' = FALSE
    BY <1>1, <1>4 DEF reconnectTimerFires, TypeOK, Feed, Connected
  <2>. QED  BY <1>2, <1>4, <2>1 DEF reconnectTimerFires, loop, TypeOK
<1>5. ASSUME NEW s \in Sockets, onOpen(s) PROVE TypeOK'
  <2>1. s = ws /\ ws # NoSocket
    BY <1>5, SocketAssumption DEF onOpen, Feed, Connected, Alive
  <2>. QED  BY <1>5, <2>1, DelayAssumption DEF onOpen, loop, TypeOK
<1>6. ASSUME NEW s \in Sockets, onError(s) PROVE TypeOK'
  BY <1>6, SocketAssumption DEF onError, loop, TypeOK
<1>7. ASSUME NEW s \in Sockets, onClose(s) PROVE TypeOK'
  <2>1. ~closed
    BY <1>7 DEF onClose, Feed, Connected, Alive
  <2>2. /\ heartbeatTimer' = FALSE /\ reconnectTimer' = TRUE
        /\ socket' = [socket EXCEPT ![s] = "closed"]
        /\ UNCHANGED <<started, mockInterval, ws, closed, subscribed, reachable>>
    BY <1>7, <2>1 DEF onClose, scheduleReconnect, loop
  <2>3. reconnectAttempt' \in 0 .. MaxDelay
    BY <1>7, <2>1, DelayAssumption DEF onClose, scheduleReconnect, TypeOK
  <2>. QED  BY <2>2, <2>3 DEF TypeOK
<1>8. CASE stop
  BY <1>8 DEF stop, TypeOK
<1>9. CASE networkChanges \/ UNCHANGED vars
  <2>1. reachable' \in BOOLEAN
    BY <1>9, Zenon DEF networkChanges, vars, TypeOK
  <2>2. UNCHANGED <<started, mockInterval, socket, ws, heartbeatTimer, reconnectTimer,
                    reconnectAttempt, closed, subscribed>>
    BY <1>9 DEF networkChanges, vars, loop
  <2>. QED  BY <2>1, <2>2 DEF TypeOK
<1>. QED  BY <1>3, <1>4, <1>5, <1>6, <1>7, <1>8, <1>9 DEF Next

\* The variables have their types, and no heartbeat outlives its connection.
THEOREM HeartbeatOfConnection == Spec => []TypeOK
<1>1. Init => Feed /\ TypeOK
  <2>1. Init => Feed
    BY DEF Init, Feed, Connected, Alive
  <2>2. Init => TypeOK
    <3>1. Init => reachable \in BOOLEAN
      BY Zenon DEF Init
    <3>2. 0 \in 0 .. MaxDelay
      BY DelayAssumption
    <3>3. Init => socket \in [Sockets -> {"new", "connecting", "open", "erring", "closed"}]
      BY DEF Init
    <3>. QED  BY <3>1, <3>2, <3>3, Zenon DEF Init, TypeOK
  <2>. QED  BY <2>1, <2>2
<1>2. Feed /\ TypeOK /\ [Next]_vars => (Feed /\ TypeOK)'
  BY FeedStep, TypesStep
<1>. QED  BY <1>1, <1>2, PTL DEF Spec

(***************************************************************************)
(* The connection in every configuration of the module                     *)
(***************************************************************************)

\* The module implements TwelveDataFeed: whatever it builds, starts and destroys, the
\* connection in it takes the steps of the connection and no others.
THEOREM FeedIsRefined == MarketSpec => Spec
<1>1. MarketInit => Init
  BY DEF MarketInit
<1>2. [MarketNext]_allVars => [Next]_vars
  <2>1. ASSUME NEW name \in built, startProvider(name) PROVE [Next]_vars
    BY <2>1 DEF startProvider, Next
  <2>2. ASSUME onModuleDestroy PROVE [Next]_vars
    BY <2>2 DEF onModuleDestroy, Next
  <2>3. ASSUME feedStep PROVE [Next]_vars
    BY <2>3 DEF feedStep, Next
  <2>4. ASSUME clockMoves \/ (\E s \in codes : openPosition(s)) \/ UNCHANGED allVars
        PROVE  UNCHANGED vars
    BY <2>4 DEF clockMoves, openPosition, allVars
  <2>. QED  BY <2>1, <2>2, <2>3, <2>4 DEF MarketNext
<1>. QED  BY <1>1, <1>2, PTL DEF MarketSpec, Spec

\* In every configuration, and however the module is started and destroyed, Twelve
\* Data has one connection or one reconnection that waits.
THEOREM ModuleHasOneFeed == MarketSpec => []OneFeed
BY FeedIsRefined, FeedIsOne, PTL

(***************************************************************************)
(* Types                                                                   *)
(***************************************************************************)

ModuleTypes ==
    /\ mode \in {"mock", "twelvedata", "multi"} /\ apiKey \in BOOLEAN
    /\ now \in Instants
    /\ timers \subseteq begun /\ begun \subseteq built /\ stopped \in 0 .. Len(buildProvider)

LEMMA BuiltLength == Len(buildProvider) \in Nat
BY DEF buildProvider, provider

LEMMA ModuleTypesStep ==
    ASSUME ModuleTypes, [MarketNext]_allVars
    PROVE  ModuleTypes'
<1>1. /\ UNCHANGED <<mode, apiKey>> /\ (UNCHANGED now \/ clockMoves)
  BY DEF MarketNext, startProvider, onModuleDestroy, feedStep, clockMoves, openPosition, allVars, env
<1>2. built' = built /\ buildProvider' = buildProvider
  BY <1>1 DEF built, children, buildProvider
<1>3. now' \in Instants
  BY <1>1 DEF clockMoves, ModuleTypes
<1>4. timers' \subseteq begun' /\ begun' \subseteq built /\ stopped' \in 0 .. Len(buildProvider)
  <2>1. ASSUME NEW name \in built, startProvider(name)
        PROVE  timers' \subseteq begun' /\ begun' \subseteq built /\ stopped' = stopped
    BY <2>1 DEF startProvider, ModuleTypes
  <2>2. CASE onModuleDestroy
    <3>1. begun' = begun /\ timers' \subseteq timers
      BY <2>2 DEF onModuleDestroy
    <3>2. stopped < Len(buildProvider) /\ stopped' = stopped + 1
      BY <2>2 DEF onModuleDestroy
    <3>3. stopped' \in 0 .. Len(buildProvider)
      BY <3>2, BuiltLength DEF ModuleTypes
    <3>. QED  BY <3>1, <3>3 DEF ModuleTypes
  <2>3. CASE feedStep \/ clockMoves \/ (\E s \in codes : openPosition(s)) \/ UNCHANGED allVars
    <3>1. UNCHANGED lifecycle
      BY <2>3 DEF feedStep, clockMoves, openPosition, allVars
    <3>. QED  BY <3>1 DEF lifecycle, ModuleTypes
  <2>. QED  BY <2>1, <2>2, <2>3 DEF MarketNext, ModuleTypes
<1>. QED  BY <1>1, <1>2, <1>3, <1>4 DEF ModuleTypes

\* The variables have their types: a user is told an hour to come, or none, and no
\* heartbeat outlives the connection it was for.
THEOREM ModuleTyped == MarketSpec => []MarketTypeOK
<1>1. MarketInit => ModuleTypes /\ Announced
  <2>. SUFFICES ASSUME MarketInit PROVE ModuleTypes /\ Announced
    OBVIOUS
  <2>1. 0 \in 0 .. Len(buildProvider)
    BY BuiltLength
  <2>2. now \in Instants /\ now \in Nat
    BY InstantsAssumption DEF MarketInit
  <2>3. apiKey \in BOOLEAN
    BY Zenon DEF MarketInit
  <2>. QED  BY <2>1, <2>2, <2>3 DEF MarketInit, ModuleTypes, Announced
<1>2. ModuleTypes /\ Announced /\ [MarketNext]_allVars => (ModuleTypes /\ Announced)'
  BY ModuleTypesStep, AnnouncedStep
<1>3. ModuleTypes /\ Announced /\ TypeOK => MarketTypeOK
  BY DEF ModuleTypes, Announced, MarketTypeOK
<1>. QED  BY <1>1, <1>2, <1>3, FeedIsRefined, HeartbeatOfConnection, PTL DEF MarketSpec
=============================================================================
