-------------------------------- MODULE NseFeed --------------------------------
(***************************************************************************)
(* NseMarketProvider: the prices of the Indian symbols, polled from NSE    *)
(* while the market is open, and replaced by a random walk once NSE has    *)
(* failed FAILURE_THRESHOLD times.                                         *)
(*                                                                         *)
(* The poll timer does not wait for the last poll, so polls overlap.  A    *)
(* poll is a cookie warm-up, when the cookies are missing or old, and two  *)
(* fetches; each is an await.  A response carries the price of the moment  *)
(* NSE answered and arrives later.  One symbol stands for all, and the two *)
(* fetches both bring its price.                                           *)
(*                                                                         *)
(* What can be out of order, as long as it lasts:                          *)
(*    "site"    NSE does not answer, or refuses;                           *)
(*    "second"  it answers the first of the two index queries only;        *)
(*    "redis"   NSE answers, but publishTick's commands fail.              *)
(* The last two let a poll publish prices before it fails.                 *)
(***************************************************************************)
EXTENDS Integers

CONSTANTS
    Polls,              \* pollOnce calls that may run at the same time
    FAILURE_THRESHOLD,
    MaxPrice            \* bound on price changes at the exchange

ASSUME ThresholdAssumption == FAILURE_THRESHOLD \in Nat \ {0} /\ MaxPrice \in Nat \ {0}

VARIABLES
    started,        \* start() has come to its end
    stopped,
    pollTimer,      \* the poll interval is set
    poll,           \* the calls of pollOnce
    cookies,        \* "none", "fresh" or "old"
    failures,       \* consecutiveFailures, which stops at FAILURE_THRESHOLD + 1 here
    inFallback,
    fallbackTimer,  \* the handle: set or not
    walks,          \* intervals of the random walk that are running
    quote,          \* what publishTick wrote last: a price of NSE, or the walk's
    marketOpen, outage, price       \* the world: trading hours, what is out of order, NSE's price

feed == <<pollTimer, cookies, failures, inFallback, fallbackTimer, walks>>
world == <<marketOpen, outage, price>>
vars == <<started, stopped, feed, poll, quote, world>>

Outage == {"none", "site", "second", "redis"}

Idle == [stage |-> "idle", price |-> 0]
Walk == 0       \* the quote the random walk, or the seed of the boot, published

-----------------------------------------------------------------------------
(* The random walk *)

\* Mutant: starts again although stop() has cleared the timers.
startFallback_afterStop ==
    IF fallbackTimer THEN UNCHANGED <<inFallback, fallbackTimer, walks>>
    ELSE inFallback' = TRUE /\ fallbackTimer' = TRUE /\ walks' = walks + 1

startFallback ==
    IF fallbackTimer \/ stopped
    THEN UNCHANGED <<inFallback, fallbackTimer, walks>>
    ELSE inFallback' = TRUE /\ fallbackTimer' = TRUE /\ walks' = walks + 1

\* What is left running; clearing twice does nothing.
clearInterval == IF fallbackTimer /\ walks > 0 THEN walks - 1 ELSE walks

stopFallback ==
    /\ walks' = clearInterval
    /\ inFallback' = FALSE /\ fallbackTimer' = FALSE

walkTick ==
    /\ walks > 0 /\ quote # Walk
    /\ quote' = Walk /\ UNCHANGED <<started, stopped, feed, poll, world>>

-----------------------------------------------------------------------------
(* Polling *)

\* ensureCookies: what a poll does first.
\* Mutant: only the age of the cookies is looked at.
firstStage_ageOnly(c) == IF c = "old" THEN "warmup" ELSE "ask1"
firstStage(c) == IF c = "fresh" THEN "ask1" ELSE "warmup"

\* Mutant: does not look at stopped.
pollOnce_goesOn(p, c) ==
    /\ poll[p] = Idle
    /\ poll' = IF marketOpen THEN [poll EXCEPT ![p].stage = firstStage(c)] ELSE poll
    /\ IF inFallback /\ ~marketOpen /\ ~stopped THEN stopFallback
       ELSE UNCHANGED <<inFallback, fallbackTimer, walks>>

\* The synchronous part of pollOnce, up to the first await, with cookies c.
pollOnce(p, c) ==
    /\ poll[p] = Idle
    /\ poll' = IF marketOpen /\ ~stopped THEN [poll EXCEPT ![p].stage = firstStage(c)] ELSE poll
    /\ IF inFallback /\ ~marketOpen /\ ~stopped THEN stopFallback
       ELSE UNCHANGED <<inFallback, fallbackTimer, walks>>

\* The end of start(): the warm-up has ended, well or not; the timer is set and
\* the first poll begins.  The module may have been destroyed meanwhile.
start(p) ==
    /\ ~started /\ started' = TRUE /\ pollTimer' = TRUE
    /\ cookies' = IF outage # "site" THEN "fresh" ELSE "none"
    /\ pollOnce(p, cookies')
    /\ UNCHANGED <<stopped, failures, quote, world>>

pollTimerFires(p) ==
    /\ pollTimer /\ pollOnce(p, cookies)
    /\ UNCHANGED <<started, stopped, pollTimer, cookies, failures, quote, world>>

\* Mutant: the threshold is tested for equality.
AtThreshold_equal(n) == n = FAILURE_THRESHOLD
AtThreshold(n) == n >= FAILURE_THRESHOLD

\* An await of the poll throws: a request, or publishTick, which has written the
\* quote to memory by then.
Throws(p) ==
    \/ outage = "site" /\ poll[p] # Idle /\ quote' = quote
    \/ outage = "second" /\ poll[p].stage \in {"ask2", "got2"} /\ quote' = quote
    \/ outage = "redis" /\ poll[p].stage \in {"got1", "got2"} /\ quote' = poll[p].price

\* The catch block.
pollFails(p) ==
    /\ Throws(p)
    /\ poll' = [poll EXCEPT ![p] = Idle]
    /\ failures' = IF failures > FAILURE_THRESHOLD THEN failures ELSE failures + 1
    /\ cookies' = IF cookies = "fresh" THEN "old" ELSE cookies
    /\ IF AtThreshold(failures') /\ ~inFallback THEN startFallback
       ELSE UNCHANGED <<inFallback, fallbackTimer, walks>>
    /\ UNCHANGED <<started, stopped, pollTimer, world>>

warmupCookies(p) ==
    /\ poll[p].stage = "warmup" /\ outage # "site"
    /\ cookies' = "fresh"
    /\ poll' = [poll EXCEPT ![p].stage = "ask1"]
    /\ UNCHANGED <<started, stopped, pollTimer, failures, inFallback, fallbackTimer, walks, quote, world>>

\* NSE answers a fetch: the response holds the price of this moment ...
nseAnswers(p) ==
    /\ poll[p].stage \in {"ask1", "ask2"} /\ outage # "site"
    /\ outage = "second" => poll[p].stage = "ask1"
    /\ poll' = [poll EXCEPT ![p] =
                  [stage |-> IF @.stage = "ask1" THEN "got1" ELSE "got2", price |-> price]]
    /\ UNCHANGED <<started, stopped, feed, quote, world>>

\* ... and arrives: its price is published.  The second one ends the poll.
fetchIndex(p) ==
    /\ poll[p].stage = "got1" /\ outage # "redis"
    /\ quote' = poll[p].price
    /\ poll' = [poll EXCEPT ![p].stage = "ask2"]
    /\ UNCHANGED <<started, stopped, feed, world>>

\* Mutant: a poll that succeeds does not end the fallback.
pollSucceeds_keepsWalking(p) ==
    /\ poll[p].stage = "got2" /\ outage # "redis"
    /\ quote' = poll[p].price
    /\ poll' = [poll EXCEPT ![p] = Idle] /\ failures' = 0
    /\ UNCHANGED <<started, stopped, pollTimer, cookies, inFallback, fallbackTimer, walks, world>>

pollSucceeds(p) ==
    /\ poll[p].stage = "got2" /\ outage # "redis"
    /\ quote' = poll[p].price
    /\ poll' = [poll EXCEPT ![p] = Idle] /\ failures' = 0
    /\ IF inFallback THEN stopFallback ELSE UNCHANGED <<inFallback, fallbackTimer, walks>>
    /\ UNCHANGED <<started, stopped, pollTimer, cookies, world>>

cookiesGrowOld ==
    /\ cookies = "fresh" /\ cookies' = "old"
    /\ UNCHANGED <<started, stopped, pollTimer, failures, inFallback, fallbackTimer, walks, poll, quote, world>>

\* stop(): clears the intervals; calls already under way go on.
stop ==
    /\ ~stopped /\ stopped' = TRUE
    /\ pollTimer' = FALSE
    /\ walks' = clearInterval
    /\ UNCHANGED <<started, cookies, failures, inFallback, fallbackTimer, poll, quote, world>>

-----------------------------------------------------------------------------
(* The world *)

marketOpensOrCloses ==
    marketOpen' = ~marketOpen /\ UNCHANGED <<started, stopped, feed, poll, quote, outage, price>>
outageBeginsOrEnds ==
    outage' \in Outage \ {outage} /\ UNCHANGED <<started, stopped, feed, poll, quote, marketOpen, price>>
priceMoves ==
    /\ marketOpen /\ price < MaxPrice /\ price' = price + 1
    /\ UNCHANGED <<started, stopped, feed, poll, quote, marketOpen, outage>>

Init ==
    /\ started = FALSE /\ stopped = FALSE /\ pollTimer = FALSE /\ cookies = "none" /\ failures = 0
    /\ inFallback = FALSE /\ fallbackTimer = FALSE /\ walks = 0
    /\ poll = [p \in Polls |-> Idle] /\ quote = Walk
    /\ marketOpen \in BOOLEAN /\ outage \in Outage /\ price = 1

pollSteps(p) ==
    pollFails(p) \/ warmupCookies(p) \/ nseAnswers(p) \/ fetchIndex(p) \/ pollSucceeds(p)

Next ==
    \/ \E p \in Polls : start(p) \/ pollTimerFires(p) \/ pollSteps(p)
    \/ walkTick \/ cookiesGrowOld \/ stop
    \/ marketOpensOrCloses \/ outageBeginsOrEnds \/ priceMoves

\* Timers fire, and every request ends: it is answered or times out.
Fairness == /\ WF_vars(\E p \in Polls : start(p)) /\ WF_vars(\E p \in Polls : pollTimerFires(p))
            /\ \A p \in Polls : WF_vars(pollSteps(p))

Spec == Init /\ [][Next]_vars
FairSpec == Spec /\ Fairness

-----------------------------------------------------------------------------
(* Properties *)

\* Types of the variables; a poll that fetches has cookies to send (the code
\* asserts it: this.cookieHeader!).
TypeOK ==
    /\ started \in BOOLEAN /\ stopped \in BOOLEAN /\ pollTimer \in BOOLEAN
    /\ poll \in [Polls -> [stage : {"warmup", "ask1", "ask2"}, price : 0 .. MaxPrice]
                         \cup [stage : {"got1", "got2"}, price : 1 .. MaxPrice] \cup {Idle}]
    /\ cookies \in {"none", "fresh", "old"}
    /\ (\E p \in Polls : poll[p].stage \in {"ask1", "got1", "ask2", "got2"}) => cookies # "none"
    /\ failures \in 0 .. FAILURE_THRESHOLD + 1
    /\ inFallback \in BOOLEAN /\ fallbackTimer \in BOOLEAN /\ walks \in Nat
    /\ quote \in 0 .. MaxPrice
    /\ marketOpen \in BOOLEAN /\ outage \in Outage /\ price \in 1 .. MaxPrice

\* The walk runs when the provider believes it does, once, and not at all after
\* stop(), however the polls that start and end it overlap.
OneWalk ==
    /\ inFallback = fallbackTimer
    /\ walks = IF inFallback /\ ~stopped THEN 1 ELSE 0

\* "NSE recovered - back to live polling": the walk does not go on for ever when
\* NSE and Redis answer, nor once the market has closed.
FallbackEnds == (<>[](outage = "none") \/ <>[]~marketOpen) => <>[](stopped \/ ~inFallback)

\* "NSE degraded - switching Indian symbols to mock random walk": with the market
\* open and something out of order for good, be it in the middle of a poll only,
\* the walk is running in the end.
FallbackBegins ==
    \A o \in Outage \ {"none"} : <>[](marketOpen /\ outage = o /\ ~stopped) => <>[]inFallback

\* During a fallback, polls that fail half-way publish NSE's prices among those of
\* the walk.  Once nothing is out of order the quote is NSE's price in the end, and
\* no walk, and no answer that was under way, overwrites it any more.
LivePricesReturn ==
    <>[](outage = "none" /\ marketOpen /\ ~stopped) => <>[](quote = price)

\* After stop() the provider falls silent: the polls under way end, the walk is
\* over, and although start() may set the poll interval after stop() has cleared
\* what there was, that interval begins nothing.
StopEndsAll == <>stopped => <>[](walks = 0 /\ \A p \in Polls : poll[p] = Idle)

=============================================================================
