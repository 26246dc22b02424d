------------------------------ MODULE MarketData ------------------------------
(***************************************************************************)
(* MarketDataModule: which provider is built for which symbols, how they   *)
(* are started and stopped, whether the feed of each symbol is set up, and *)
(* what TradingService asks before it takes an order: is the market open?  *)
(* (Whether there is a price is in QuoteStore.)  Twelve Data's connection  *)
(* is the module TwelveDataFeed, step for step; of NSE there is here only  *)
(* that its poll timer is set (its polls and its random walk are NseFeed). *)
(***************************************************************************)
EXTENDS TwelveDataFeed, MarketHours, SequencesExt

CONSTANT Instants   \* the moments the clock shows

ASSUME InstantsAssumption == Instants \subseteq Nat

VARIABLES
    mode, apiKey,   \* MARKET_PROVIDER; whether MARKET_API_KEY is set
    now,
    timers,         \* providers whose interval is set: mock's ticks, NSE's polls
    begun,          \* providers whose start() was called
    stopped,        \* how many of the children were stopped
    told            \* the next opening a refused user was told

env == <<mode, apiKey>>
lifecycle == <<timers, begun, stopped>>
allVars == <<env, now, lifecycle, told, vars>>

-----------------------------------------------------------------------------
(* Symbols and who provides them *)

\* One symbol of each kind.
SYMBOLS == [ EURUSD   |-> [region |-> "GLOBAL", hours |-> Always],
             NAS100   |-> [region |-> "GLOBAL", hours |-> Always],
             NIFTY50  |-> [region |-> "IN", hours |-> NSE_HOURS],
             SENSEX   |-> [region |-> "IN", hours |-> NSE_HOURS],
             RELIANCE |-> [region |-> "IN", hours |-> NSE_HOURS] ]
codes == DOMAIN SYMBOLS

\* What Twelve Data has, and what NSE's two index queries bring.
SYMBOL_MAP == {"EURUSD"}
handled == {s \in codes : SYMBOLS[s].region = "IN" /\ s \in {"NIFTY50", "RELIANCE"}}

provider(name, symbols) == [name |-> name, symbols |-> symbols]

\* The children of the composite; in the other modes a single provider.
buildProvider ==
    LET global == {s \in codes : SYMBOLS[s].region = "GLOBAL"} IN
    IF mode = "mock" \/ (mode = "twelvedata" /\ ~apiKey) THEN <<provider("mock", codes)>>
    ELSE IF mode = "twelvedata" THEN <<provider("twelvedata", codes)>>
    ELSE << provider(IF apiKey THEN "twelvedata" ELSE "mock", global), provider("nse", handled) >>

children == Range(buildProvider)
built == {c.name : c \in children}

\* routes: a symbol claimed twice stays with the first.
owner(s) ==
    LET claims == SelectInSeq(buildProvider, LAMBDA c : s \in c.symbols)
    IN  IF claims = 0 THEN "nobody" ELSE buildProvider[claims].name

\* Mutant: the composite lists its own symbols.
getVisibleSymbols_all == codes

\* What users are shown; the flags of the symbols are in QuoteStore.
getVisibleSymbols == UNION {c.symbols : c \in children}

-----------------------------------------------------------------------------
(* Start and stop *)

\* bootstrap has seeded Redis.  NSE sets its poll timer after a request.
startProvider(name) ==
    /\ name \in built \ begun /\ begun' = begun \cup {name}
    /\ IF name = "twelvedata"
       THEN (\E s \in Sockets : start(s)) /\ UNCHANGED timers
       ELSE timers' = timers \cup {name} /\ UNCHANGED vars
    /\ UNCHANGED <<env, now, stopped, told>>

\* onModuleDestroy: one child after the other, stop() and then its connections'
\* quit(), which may fail and leave those that follow running.
onModuleDestroy ==
    /\ stopped < Len(buildProvider) /\ stopped' = stopped + 1
    /\ LET name == buildProvider[stopped'].name IN
       IF name = "twelvedata" THEN stop /\ UNCHANGED timers
       ELSE timers' = timers \ {name} /\ UNCHANGED vars
    /\ UNCHANGED <<env, now, begun, told>>

-----------------------------------------------------------------------------
(* What drives a quote *)

\* The feed of the child that routes has for a symbol is set up: Twelve Data's
\* subscription, or the random walk it keeps for what it does not map; the mock's
\* random walk; NSE's poll timer.  (What NSE's polls publish, and when a random walk
\* publishes among them, is in NseFeed.)
driven(s) ==
    IF owner(s) = "twelvedata"
    THEN IF s \in SYMBOL_MAP THEN Delivering ELSE mockInterval
    ELSE owner(s) \in timers

-----------------------------------------------------------------------------
(* The clock and the orders *)

clockMoves ==
    /\ now' \in {t \in Instants : t > now}
    /\ UNCHANGED <<env, lifecycle, told, vars>>

admits(s) == isMarketOpen(SYMBOLS[s].hours, now)

\* openPosition up to the price, which QuoteStore has, and the transaction, which
\* WalletLedger has.
openPosition(s) ==
    /\ told' = IF admits(s) THEN told ELSE nextOpen(SYMBOLS[s].hours, now)
    /\ UNCHANGED <<env, now, lifecycle, vars>>

-----------------------------------------------------------------------------
MarketInit ==
    /\ mode \in {"mock", "twelvedata", "multi"} /\ apiKey \in BOOLEAN
    /\ \E t \in Instants : now = t /\ \A u \in Instants : t <= u
    /\ timers = {} /\ begun = {} /\ stopped = 0
    /\ told = Never
    /\ Init

\* A connection that was never made has no steps.
feedStep ==
    /\ "twelvedata" \in begun
    /\ \/ \E s \in Sockets : \/ onOpen(s) \/ onError(s) \/ onClose(s)
                             \/ reconnectTimerFires(s)
       \/ networkChanges
    /\ UNCHANGED <<env, now, lifecycle, told>>

MarketNext ==
    \/ \E name \in built : startProvider(name)
    \/ onModuleDestroy \/ feedStep \/ clockMoves
    \/ \E s \in codes : openPosition(s)

\* The fairness of TwelveDataFeed; and bootstrap ends.
MarketFairness ==
    /\ Fairness
    /\ WF_allVars(\E name \in built : startProvider(name))

MarketSpec == MarketInit /\ [][MarketNext]_allVars
MarketFairSpec == MarketSpec /\ MarketFairness

-----------------------------------------------------------------------------
(* Properties *)

\* Types of the variables.
MarketTypeOK ==
    /\ mode \in {"mock", "twelvedata", "multi"} /\ apiKey \in BOOLEAN
    /\ now \in Instants
    /\ timers \subseteq begun /\ begun \subseteq built /\ stopped \in 0 .. Len(buildProvider)
    /\ told \in Nat \cup {Never}
    /\ TypeOK

\* An order is admitted during the sessions of the exchange and only then.  A user
\* who was refused was told the next of them: it is one, and no order is admitted
\* before it, over weekends and holidays, on either side of midnight in UTC and IST.
AnnouncedOpenIsNext ==
    /\ \A s \in codes : SYMBOLS[s].region = "IN" => (admits(s) <=> InSession(now))
    /\ told # Never => InSession(told) /\ (InSession(now) => now >= told)

\* Every symbol that users are shown gets its quotes in the end, and again after
\* each interruption, unless the module is destroyed: what is listed, who has it in
\* routes, what the provider maps and what it has started agree, in every mode.  "WS
\* closed - reconnecting": when Twelve Data can be reached in the end, its feed comes
\* back each time it breaks, and with its subscription; what it does not map falls
\* back to the random walk.  (SENSEX, which in the mode "multi" nobody provides, is
\* not shown.)
Driven ==
    <>[]reachable => \A s \in codes :
        []<>(stopped > 0 \/ s \notin getVisibleSymbols \/ driven(s))
=============================================================================
