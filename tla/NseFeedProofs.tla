----------------------------- MODULE NseFeedProofs -----------------------------
(***************************************************************************)
(* The random walk of NseFeed, for every number of overlapping polls and   *)
(* every threshold: it runs once, when the provider believes it does, and  *)
(* not after stop().                                                       *)
(***************************************************************************)
EXTENDS NseFeed, TLAPS

\* What startFallback, stopFallback and stop may do to the walk.
WalkKept == UNCHANGED <<stopped, inFallback, fallbackTimer, walks>>
WalkChanges ==
    \/ WalkKept
    \/ startFallback /\ UNCHANGED stopped
    \/ stopFallback /\ UNCHANGED stopped
    \/ stop

\* Clearing the timer leaves nothing running.
LEMMA ClearEnds ==
    ASSUME OneWalk
    PROVE  clearInterval = 0
<1>1. walks \in {0, 1} /\ (walks = 1 => inFallback)
  BY DEF OneWalk
<1>2. inFallback = fallbackTimer
  BY DEF OneWalk
<1>3. walks = 1 => fallbackTimer
  BY <1>1, <1>2
<1>. QED BY <1>1, <1>3 DEF clearInterval

LEMMA OneWalkStep ==
    ASSUME OneWalk, stopped \in BOOLEAN, fallbackTimer \in BOOLEAN, WalkChanges
    PROVE  OneWalk'
<1>1. CASE WalkKept
  BY <1>1 DEF WalkKept, OneWalk
<1>2. CASE startFallback /\ UNCHANGED stopped
  <2>1. CASE fallbackTimer \/ stopped
    BY <1>2, <2>1 DEF startFallback, OneWalk
  <2>2. CASE ~fallbackTimer /\ ~stopped
    <3>1. ~inFallback /\ walks = 0
      BY <2>2 DEF OneWalk
    <3>2. inFallback' = TRUE /\ fallbackTimer' = TRUE /\ walks' = walks + 1 /\ stopped' = stopped
      BY <1>2, <2>2 DEF startFallback
    <3>3. walks' = 1
      BY <3>1, <3>2
    <3>. QED BY <2>2, <3>2, <3>3 DEF OneWalk
  <2>. QED BY <2>1, <2>2
<1>3. CASE stopFallback /\ UNCHANGED stopped
  <2>1. inFallback' = FALSE /\ fallbackTimer' = FALSE /\ walks' = clearInterval
    BY <1>3 DEF stopFallback
  <2>2. walks' = 0
    BY <2>1, ClearEnds
  <2>. QED BY <2>1, <2>2 DEF OneWalk
<1>4. CASE stop
  <2>1. stopped' = TRUE /\ UNCHANGED <<inFallback, fallbackTimer>> /\ walks' = clearInterval
    BY <1>4 DEF stop
  <2>2. walks' = 0
    BY <2>1, ClearEnds
  <2>. QED BY <2>1, <2>2 DEF OneWalk
<1>. QED BY <1>1, <1>2, <1>3, <1>4 DEF WalkChanges

\* Every step of the provider is one of them, for the walk.
LEMMA PollChanges ==
    ASSUME NEW p \in Polls, NEW c, pollOnce(p, c), UNCHANGED stopped
    PROVE  WalkChanges
BY DEF pollOnce, WalkChanges, WalkKept

LEMMA NextChangesWalk ==
    ASSUME [Next]_vars
    PROVE  WalkChanges
<1>1. CASE \E p \in Polls : start(p)
  BY <1>1, PollChanges DEF start
<1>2. CASE \E p \in Polls : pollTimerFires(p)
  BY <1>2, PollChanges DEF pollTimerFires
<1>3. CASE \E p \in Polls : pollFails(p)
  BY <1>3 DEF pollFails, WalkChanges, WalkKept
<1>4. CASE \E p \in Polls : pollSucceeds(p)
  BY <1>4 DEF pollSucceeds, WalkChanges, WalkKept
<1>5. CASE \E p \in Polls : warmupCookies(p) \/ nseAnswers(p) \/ fetchIndex(p)
  BY <1>5 DEF warmupCookies, nseAnswers, fetchIndex, feed, WalkChanges, WalkKept
<1>6. CASE walkTick \/ cookiesGrowOld
  BY <1>6 DEF walkTick, cookiesGrowOld, feed, WalkChanges, WalkKept
<1>7. CASE stop
  BY <1>7 DEF WalkChanges
<1>8. CASE marketOpensOrCloses \/ outageBeginsOrEnds \/ priceMoves \/ UNCHANGED vars
  BY <1>8 DEF marketOpensOrCloses, outageBeginsOrEnds, priceMoves, vars, feed, WalkChanges, WalkKept
<1>. QED BY <1>1, <1>2, <1>3, <1>4, <1>5, <1>6, <1>7, <1>8 DEF Next, pollSteps

Walks == OneWalk /\ stopped \in BOOLEAN /\ fallbackTimer \in BOOLEAN

\* The types OneWalkStep needs are kept.
LEMMA FlagsKept ==
    ASSUME Walks, WalkChanges
    PROVE  stopped' \in BOOLEAN /\ fallbackTimer' \in BOOLEAN
BY DEF Walks, WalkChanges, WalkKept, startFallback, stopFallback, stop

\* The walk runs at most once and exactly when inFallback says so, until stop()
\* ends it for good, however many polls overlap.
THEOREM WalkRunsOnce == Spec => []OneWalk
<1>1. Init => Walks
  BY DEF Init, Walks, OneWalk
<1>2. Walks /\ [Next]_vars => Walks'
  BY OneWalkStep, NextChangesWalk, FlagsKept DEF Walks
<1>3. Walks => OneWalk
  BY DEF Walks
<1>. QED BY <1>1, <1>2, <1>3, PTL DEF Spec

(***************************************************************************)
(* Types, and the cookies a poll sends                                     *)
(***************************************************************************)

PollState == [stage : {"warmup", "ask1", "ask2"}, price : 0 .. MaxPrice]
             \cup [stage : {"got1", "got2"}, price : 1 .. MaxPrice] \cup {Idle}
Fetching == {"ask1", "got1", "ask2", "got2"}

\* No call runs before start(), which is what forgets the cookies.
PollsTyped ==
    /\ started \in BOOLEAN /\ pollTimer \in BOOLEAN
    /\ poll \in [Polls -> PollState]
    /\ cookies \in {"none", "fresh", "old"}
    /\ \A p \in Polls : poll[p].stage \in Fetching => cookies # "none"
    /\ ~started => ~pollTimer /\ \A p \in Polls : poll[p] = Idle

RestTyped ==
    /\ inFallback \in BOOLEAN
    /\ failures \in 0 .. FAILURE_THRESHOLD + 1
    /\ quote \in 0 .. MaxPrice
    /\ marketOpen \in BOOLEAN /\ outage \in Outage /\ price \in 1 .. MaxPrice

LEMMA PollStateIs ==
    ASSUME NEW s \in PollState
    PROVE  /\ s = [stage |-> s.stage, price |-> s.price] /\ s.price \in 0 .. MaxPrice
           /\ s.stage \in {"got1", "got2"} => s.price \in 1 .. MaxPrice
BY ThresholdAssumption DEF PollState, Idle

\* One call moves on, with cookies that are not lost.
LEMMA OnePollMoves ==
    ASSUME PollsTyped, started' = TRUE, pollTimer' \in BOOLEAN,
           NEW p \in Polls, NEW s \in PollState, poll' = [poll EXCEPT ![p] = s],
           cookies' \in {"none", "fresh", "old"},
           \A r \in Polls : poll[r].stage \in Fetching => cookies' # "none",
           s.stage \in Fetching => cookies' # "none"
    PROVE  PollsTyped'
<1>1. \A r \in Polls : poll'[r].stage \in Fetching => cookies' # "none"
  BY DEF PollsTyped
<1>2. poll' \in [Polls -> PollState]
  BY DEF PollsTyped
<1>. QED  BY <1>1, <1>2 DEF PollsTyped

\* pollOnce starts with the stage its cookies allow.
LEMMA PollBegins ==
    ASSUME PollsTyped, NEW p \in Polls, pollOnce(p, cookies'), started' = TRUE, pollTimer' \in BOOLEAN,
           cookies' \in {"none", "fresh", "old"},
           \A r \in Polls : poll[r].stage \in Fetching => cookies' # "none"
    PROVE  PollsTyped'
<1>. DEFINE s == [stage |-> firstStage(cookies'), price |-> 0]
<1>1. s \in PollState /\ (s.stage \in Fetching => cookies' # "none") /\ Idle \in PollState
      /\ ~(Idle.stage \in Fetching)
  BY ThresholdAssumption DEF PollState, firstStage, Fetching, Idle
<1>2. poll[p] = Idle /\ (poll' = [poll EXCEPT ![p].stage = firstStage(cookies')] \/ poll' = poll)
  BY DEF pollOnce
<1>3. poll' = [poll EXCEPT ![p] = s] \/ poll' = [poll EXCEPT ![p] = Idle]
  BY <1>2 DEF Idle, PollsTyped
<1>. HIDE DEF s
<1>4. CASE poll' = [poll EXCEPT ![p] = s]
  BY <1>1, <1>4, OnePollMoves
<1>5. CASE poll' = [poll EXCEPT ![p] = Idle]
  BY <1>1, <1>5, OnePollMoves
<1>. QED  BY <1>3, <1>4, <1>5

LEMMA PollsStep ==
    ASSUME PollsTyped, RestTyped, [Next]_vars
    PROVE  PollsTyped'
<1>1. \A p \in Polls : poll[p].stage # "idle" => started /\ poll[p] # Idle
  BY DEF PollsTyped, Idle
<1>2. ASSUME NEW p \in Polls, start(p) PROVE PollsTyped'
  <2>1. /\ ~started /\ started' = TRUE /\ pollTimer' = TRUE /\ cookies' \in {"none", "fresh", "old"}
        /\ pollOnce(p, cookies')
    BY <1>2 DEF start
  <2>2. \A r \in Polls : ~(poll[r].stage \in Fetching)
    BY <2>1 DEF PollsTyped, Idle, Fetching
  <2>. QED  BY <2>1, <2>2, PollBegins
<1>3. ASSUME NEW p \in Polls, pollTimerFires(p) PROVE PollsTyped'
  <2>1. /\ pollTimer /\ started /\ started' = TRUE /\ pollTimer' = pollTimer /\ cookies' = cookies
        /\ pollOnce(p, cookies')
    BY <1>3 DEF pollTimerFires, PollsTyped
  <2>2. pollTimer' \in BOOLEAN /\ cookies' \in {"none", "fresh", "old"}
        /\ \A r \in Polls : poll[r].stage \in Fetching => cookies' # "none"
    BY <2>1 DEF PollsTyped
  <2>. QED  BY <2>1, <2>2, PollBegins
<1>4. ASSUME NEW p \in Polls, pollSteps(p) PROVE PollsTyped'
  <2>. DEFINE s == poll[p]
  <2>1. /\ s \in PollState /\ s.price \in 0 .. MaxPrice /\ s = [stage |-> s.stage, price |-> s.price]
        /\ Idle \in PollState /\ ~(Idle.stage \in Fetching)
    BY PollStateIs DEF PollsTyped, PollState, Idle, Fetching
  <2>2. started /\ started' = started /\ pollTimer' = pollTimer
    BY <1>1, <1>4 DEF pollSteps, pollFails, Throws, warmupCookies, nseAnswers, fetchIndex,
                      pollSucceeds, feed, PollsTyped
  <2>3. /\ cookies' \in {"none", "fresh", "old"} /\ (cookies # "none" => cookies' # "none")
        /\ (~warmupCookies(p) /\ ~pollFails(p) => cookies' = cookies)
    BY <1>4 DEF pollSteps, pollFails, warmupCookies, nseAnswers, fetchIndex, pollSucceeds, feed, PollsTyped
  <2>4. PICK t \in PollState : /\ poll' = [poll EXCEPT ![p] = t]
                               /\ t.stage \in Fetching => cookies' # "none"
    <3>1. CASE pollFails(p) \/ pollSucceeds(p)
      BY <2>1, <3>1 DEF pollFails, pollSucceeds
    <3>2. CASE warmupCookies(p)
      <4>. DEFINE t == [stage |-> "ask1", price |-> s.price]
      <4>1. s.stage = "warmup" /\ cookies' = "fresh" /\ poll' = [poll EXCEPT ![p].stage = "ask1"]
        BY <3>2 DEF warmupCookies
      <4>2. poll' = [poll EXCEPT ![p] = t] /\ t \in PollState
        <5>1. [poll[p] EXCEPT !.stage = t.stage] = t
          BY <2>1
        <5>2. poll' = [poll EXCEPT ![p] = t]
          BY <4>1, <5>1 DEF PollsTyped
        <5>3. t \in PollState
          BY <2>1 DEF PollState
        <5>. QED  BY <5>2, <5>3
      <4>. QED  BY <4>1, <4>2
    <3>3. CASE fetchIndex(p)
      <4>. DEFINE t == [stage |-> "ask2", price |-> s.price]
      <4>1. s.stage = "got1" /\ cookies' = cookies /\ poll' = [poll EXCEPT ![p].stage = "ask2"]
        BY <3>3 DEF fetchIndex, feed
      <4>2. poll' = [poll EXCEPT ![p] = t] /\ t \in PollState
        <5>1. [poll[p] EXCEPT !.stage = t.stage] = t
          BY <2>1
        <5>2. poll' = [poll EXCEPT ![p] = t]
          BY <4>1, <5>1 DEF PollsTyped
        <5>3. t \in PollState
          BY <2>1 DEF PollState
        <5>. QED  BY <5>2, <5>3
      <4>3. cookies' # "none"
        BY <4>1 DEF PollsTyped, Fetching
      <4>. QED  BY <4>2, <4>3
    <3>4. CASE nseAnswers(p)
      <4>. DEFINE t == [stage |-> IF s.stage = "ask1" THEN "got1" ELSE "got2", price |-> price]
      <4>1. s.stage \in {"ask1", "ask2"} /\ cookies' = cookies /\ poll' = [poll EXCEPT ![p] = t]
        BY <3>4 DEF nseAnswers, feed
      <4>2. t \in PollState
        BY DEF PollState, RestTyped
      <4>3. cookies' # "none"
        BY <4>1 DEF PollsTyped, Fetching
      <4>. QED  BY <4>1, <4>2, <4>3
    <3>. QED  BY <1>4, <3>1, <3>2, <3>3, <3>4 DEF pollSteps
  <2>5. \A r \in Polls : poll[r].stage \in Fetching => cookies' # "none"
    BY <2>3 DEF PollsTyped
  <2>6. started' = TRUE /\ pollTimer' \in BOOLEAN
    BY <2>2 DEF PollsTyped
  <2>. QED  BY <2>3, <2>4, <2>5, <2>6, OnePollMoves
<1>5. CASE cookiesGrowOld
  BY <1>5 DEF cookiesGrowOld, PollsTyped
<1>6. CASE stop
  BY <1>6 DEF stop, PollsTyped
<1>7. CASE walkTick \/ marketOpensOrCloses \/ outageBeginsOrEnds \/ priceMoves \/ UNCHANGED vars
  BY <1>7 DEF walkTick, marketOpensOrCloses, outageBeginsOrEnds, priceMoves, vars, feed, PollsTyped
<1>. QED  BY <1>2, <1>3, <1>4, <1>5, <1>6, <1>7 DEF Next

LEMMA RestStep ==
    ASSUME PollsTyped, RestTyped, [Next]_vars
    PROVE  RestTyped'
<1>1. inFallback' \in BOOLEAN
  <2>1. WalkChanges
    BY NextChangesWalk
  <2>. QED  BY <2>1 DEF WalkChanges, WalkKept, startFallback, stopFallback, stop, RestTyped
<1>2. failures' \in 0 .. FAILURE_THRESHOLD + 1
  <2>1. failures' \in {failures, 0} \/ failures' = IF failures > FAILURE_THRESHOLD THEN failures ELSE failures + 1
    BY DEF Next, pollSteps, start, pollTimerFires, pollFails, warmupCookies, nseAnswers, fetchIndex,
           pollSucceeds, walkTick, cookiesGrowOld, stop, marketOpensOrCloses, outageBeginsOrEnds,
           priceMoves, vars, feed
  <2>. QED  BY <2>1, ThresholdAssumption DEF RestTyped
<1>3. quote' \in 0 .. MaxPrice
  <2>1. quote' \in {quote, Walk} \/ \E p \in Polls : poll[p].stage \in {"got1", "got2"} /\ quote' = poll[p].price
    BY DEF Next, pollSteps, start, pollTimerFires, pollFails, Throws, warmupCookies, nseAnswers, fetchIndex,
           pollSucceeds, walkTick, cookiesGrowOld, stop, marketOpensOrCloses, outageBeginsOrEnds,
           priceMoves, vars, feed
  <2>2. \A p \in Polls : poll[p].price \in 0 .. MaxPrice
    BY PollStateIs DEF PollsTyped
  <2>. QED  BY <2>1, <2>2, ThresholdAssumption DEF RestTyped, Walk
<1>4. marketOpen' \in BOOLEAN /\ outage' \in Outage /\ price' \in 1 .. MaxPrice
  <2>1. \/ UNCHANGED world
        \/ marketOpensOrCloses \/ outageBeginsOrEnds \/ priceMoves
    BY DEF Next, pollSteps, start, pollTimerFires, pollFails, warmupCookies, nseAnswers, fetchIndex,
           pollSucceeds, walkTick, cookiesGrowOld, stop, vars, world
  <2>2. price' \in {price, price + 1} /\ (price' # price => price < MaxPrice)
    BY <2>1 DEF world, marketOpensOrCloses, outageBeginsOrEnds, priceMoves
  <2>3. price' \in 1 .. MaxPrice
    BY <2>2, ThresholdAssumption DEF RestTyped
  <2>4. marketOpen' \in BOOLEAN /\ outage' \in Outage
    BY <2>1, Zenon DEF RestTyped, world, marketOpensOrCloses, outageBeginsOrEnds, priceMoves
  <2>. QED  BY <2>3, <2>4
<1>. QED  BY <1>1, <1>2, <1>3, <1>4 DEF RestTyped

\* The variables have their types, and no poll fetches without cookies.
THEOREM TypeCorrect == Spec => []TypeOK
<1>. DEFINE Inv == Walks /\ PollsTyped /\ RestTyped
<1>1. Init => Inv
  <2>. SUFFICES ASSUME Init PROVE Inv
    OBVIOUS
  <2>1. Walks
    BY DEF Init, Walks, OneWalk
  <2>2. PollsTyped
    <3>1. poll \in [Polls -> PollState]
      BY DEF Init, PollState
    <3>2. \A p \in Polls : poll[p] = Idle /\ ~(poll[p].stage \in Fetching)
      BY DEF Init, Idle, Fetching
    <3>. QED  BY <3>1, <3>2 DEF Init, PollsTyped
  <2>3. RestTyped
    <3>1. 0 \in 0 .. FAILURE_THRESHOLD + 1 /\ Walk \in 0 .. MaxPrice /\ 1 \in 1 .. MaxPrice
      BY ThresholdAssumption DEF Walk
    <3>. QED  BY <3>1 DEF Init, RestTyped
  <2>. QED  BY <2>1, <2>2, <2>3
<1>2. Inv /\ [Next]_vars => Inv'
  BY OneWalkStep, NextChangesWalk, FlagsKept, PollsStep, RestStep DEF Walks
<1>3. Inv => TypeOK
  BY DEF Walks, OneWalk, PollsTyped, RestTyped, PollState, Fetching, TypeOK
<1>. QED  BY <1>1, <1>2, <1>3, PTL DEF Spec
=============================================================================
