# IndiaSmartTrade backend in TLA+

TLA+ models of the backend's core logic, TLC runs that check them on small
instances, and theorems that TLAPS proves for every instance. Paths below are
relative to the repository (`src/src/...` is the NestJS application,
`src/prisma/schema.prisma` its database).

    tlc -workers 2 -config WalletLedger.cfg MCWalletLedger.tla     # one run
    tlapm WalletLedgerProofs.tla                                   # one proof module

The runs, the definitions each model takes from the code, and the mutants that
show each property can fail are listed in `PROJECT.json`.

## 1. The system

One Node process serves a trading platform: users deposit money by bank transfer
or UPI, open and close leveraged positions on quotes that come from external
feeds, and withdraw. Admins approve deposits and withdrawals by hand. The parts
share four things:

- **PostgreSQL** through Prisma. Handlers of one process overlap at every
  `await`. Some transactions ask for `Serializable`, the others run at the
  database's default, READ COMMITTED, and a failed one is not retried anywhere.
- **Redis**: the last quote of each symbol, the `market.ticks` channel, and the
  pending one-time codes.
- **memory of the process**: the registry of open positions with its set of
  locks, the quotes, the timers of the feeds. A restart loses it.
- **the browser**, by HTTP and socket.io. Nothing the system decides depends on
  an event having arrived there.

| Component | State it keeps | Operations | What is hard | What makes it correct |
|---|---|---|---|---|
| Wallets and ledger (`trading`, `deposit`, `withdraw`, `admin`) | `wallets`, `wallet_transactions`, `deposits`, `withdrawals`, `positions.status` | open, close, deposit, withdraw, approve, reject, complete, adjust | every one reads, computes and writes back; two isolation levels | the ledger explains the wallet, money is credited and refunded once and as the statuses say, funds are there when they are taken |
| Trade arithmetic and the views of it (`trading`, `positions`, `wallet`) | columns that round, quotes with two sides | margin of an order, result of a close, profit shown by the engine, a position and the wallet | one formula written four times, rounding at different moments, a quote that moves | the rows explain the wallet to the last digit, a trade is worth what was shown |
| Trading and the position registry (`trading.service`, `position-registry`, `positions.engine`) | `positions`, `bySymbol`, `closing` | open, close by user, admin and engine, change of levels, tick, boot | two copies of a position, a lock in memory, closes that fail, restarts | one close at a time, final; every open position is watched; stops are executed |
| Accounts, sessions, one-time codes (`auth`) | `users`, `sessions`, two keys in Redis | signup, verification, reset, createAdmin, login, refresh, logout, check of a request | up to five awaits in a handler, records written back late | one account with its wallet and the confirmed password; a session that ended stays ended |
| Quote store and bus (`providers/base.ts`) | quote in memory and in Redis, ticks on the channel, flags of visibility | bootstrap, publishTick, read | overlapping writes, lost connections and commands sent again or given up, expiry | a read is never behind the ticks heard; the two copies agree |
| Realtime gateway (`common/gateway`) | rooms, throttle | connect, snapshot, ticks, exposure quotes | the snapshot waits for Redis while ticks go to the room | no tick falls between snapshot and ticks; whoever connects is served |
| NSE feed (`nse.provider.ts`) | cookies, failures, poll timer, random walk | start, poll, stop | polls overlap, NSE fails as a whole or half-way, Redis fails, the market closes | one walk, begun when polls fail and ended when they succeed; live prices in the end; silence after stop |
| Twelve Data feed (`twelvedata.provider.ts`) | socket, reconnect timer, heartbeat | start, events of the socket, stop | every order of open, error, close and stop | one connection or one reconnection, and it comes back |
| Market data module (`market-data.module.ts`, composite and mock providers, `symbols.ts`) | which provider has which symbol, their intervals | build, start, stop, route, admit an order | a symbol is filtered, mapped and routed in four places | every symbol that is shown gets its feed, and gets it back |
| Market hours (`_shared/market.ts`) | none | isMarketOpen, nextOpen | days and weeks in two zones, holidays | orders in the sessions only, and the session announced is the next |
| Support tickets and notifications (`tickets`, `admin`, `notification`) | status and a JSON array in one row; notifications | create, reply, change of status, notify, read | read, append, write back; an event before the commit | no accepted reply is lost; accepted replies of support are notified, and no others |
| Bank accounts, audit log (`admin`, `wallet`) | single rows | one statement each | audit row after the change | not modelled |
| Lists, users | | reads, or one row at a time | | not modelled |
| Uploads, e-mail, health, bootstrap, DTOs | | I/O, wiring, declarations | | not modelled |

## 2. Modules

| Module | Models | State ↔ code | Actions ↔ code |
|---|---|---|---|
| `WalletLedger` | every transaction on money | `wallet`, `deposit`, `withdrawal`, `position`: the tables. `ledger`: the user's `wallet_transactions` as sums and the last `balanceAfter`. `credits`: rows that name an item. `txn`: the transaction a request has open, with what it has read | `begin…` is the read and the guards of a handler, `commit…` all its writes, `Fail` a serialization failure, time-out or lost process |
| `AtomicWallet` | what the wallet promises, without transactions | balance and margin, credited deposits, open positions | one step per accepted request |
| `AtomicBook` | what the book of open positions promises, without calls that wait | status and reason of a row, the lock and what it was taken for, what the engine watches | one step each for what opens, watches, locks, closes, releases; crash and restart |
| `PositionBook` | positions in table and memory | `row`; `registry` (`bySymbol`), `closing`; `opening`, `closer`, `updater`: calls between two awaits; `ticks`: the channel | `commitOpen`/`add`, `requestClose`/`readForClose`/`commitClose`/`failClose`/`finishClose` (closeInternal), `readForUpdate`/`writeUpdate`/`mirrorUpdate` (updateSlTp), `processTick`, `ticksLost` (the subscriber's connection), `crash`/`onModuleInit` |
| `Accounts` | `AuthService` and `JwtStrategy` for one e-mail | `user`, `wallet`, `session`: rows; `pending`: the two keys in Redis; `call`: handlers, with the record they have read | one action per await |
| `QuoteStore` | `BaseMarketProvider` | `state` (memory), `store` (Redis), `visible`; `commands`/`pubs`: commands without a reply on the two connections, in order, executed or not; `inbox`: the channel; `heard`: the newest tick a subscriber has received | the awaits of `publishTick`, `bootstrap` and of a read, what Redis does, what is lost |
| `RealtimeGateway` | the gateway on top of `QuoteStore` | `conn`: where `handleConnection` is for each socket; `admins`; `newest`: what a browser was last sent; `ticked`, `throttled` | `handleConnection`, the two outcomes of the token, `sendSnapshot`, ticks through the throttle, disconnects; `callAnswered`: the reads of `MarketService` |
| `NseFeed` | `NseMarketProvider` | its fields; `poll`: calls of `pollOnce`; `walks`: intervals that run, whoever holds their handle; `outage`: what is out of order, NSE, the second of its two answers, or Redis | start, timer, the awaits of a poll, walk, stop |
| `TwelveDataFeed` | the WebSocket part of `TwelveDataMarketProvider` | its fields and the state of each socket object | the four listeners, the timer, start, stop |
| `MarketHours` | `isMarketOpen`, `nextOpen` | none: operators on minutes | |
| `MarketData` | the module that builds the providers, on top of `TwelveDataFeed` and `MarketHours` | `mode`, `apiKey`: configuration; `timers`, `begun`, `stopped`: what runs; `now`; `told`: what a refused order was answered | `startProvider`, `onModuleDestroy`, `openPosition` up to its price, the clock, and every step of the connection |
| `SupportTicket` | tickets, the admin's side of them, and their notifications | the row; `call`: what a handler has read; `stored`, `read`, `pushed`: notifications in the table, read, sent to the browser | read, update, notify, commit or roll back, change of status, markRead |
| `Equity` | numbers of orders, closes and views | `wallet`, `position`: columns with their digits; `quote` with both sides; `call`: what a handler has read | `openPosition`/`commitOpen`, `closeInternal`/`commitClose`, another quote |

`WalletLedger`, `PositionBook` and `Equity` overlap on a close. The first has the
rows without the in-memory lock, so what it shows holds whether or not the lock
works; the second has the lock and the registry, and of the transaction only that
its snapshot may have become stale; the third has one request at a time and the
numbers the other two leave open. `QuoteStore` is what both feeds call to publish,
and `PositionBook` starts where its `inbox` ends. `RealtimeGateway` and
`MarketData` are compositions by EXTENDS: each takes the steps of the module below
with its own variables unchanged, or joined with a step of its own. The `MC…`
modules only give TLC model values and symmetry. The `…Proofs` modules hold the
theorems; those about `TwelveDataFeed` are in `MarketDataProofs`, with the
theorem that carries them over to the module that builds it.

### How transactions are modelled

A transaction is a `begin` that reads and a `commit` that writes. PostgreSQL
aborts a Serializable transaction that updates a row changed since its snapshot;
each Serializable transaction of this code updates every row it has read, so
`valid` is the whole of what Serializable gives it. At READ COMMITTED the update
of a row waits for another's and then goes on with what was read before, so
`commitRejectDeposit`, `commitApproveWithdrawal` and `commitCompleteWithdrawal`
do not look at the row again: nor does the code (`update where id`).

### What the data is abstracted to

- In `WalletLedger` money is whole units of the last digit of `Decimal(18,6)`;
  `MaxMoney` is the column's limit, and a sum beyond it aborts the handler. An
  order's margin and a close's result are any of `Margins` and `Pnls`; losses may
  exceed the balance. Where margins and results come from, and what rounding does
  to them, is `Equity`, in which each number is an integer of its own scale and
  the difference of two prices is exact.
- In `PositionBook` prices are a small set, bid and ask one price, and one symbol
  stands for all.
- Quotes of `QuoteStore` are numbered in the order they come, so "newer" is
  "greater".
- `MarketData` has one symbol of each kind, `MarketHours` no time zones but the
  offset of India (it has no summer time); global symbols are always open.
- In `Accounts` a code and the password that goes with it are one number. bcrypt
  compares 72 bytes, and the first 72 of a refresh token are the JWT header and
  the beginning of the user's id; so of one user's tokens each matches the stored
  hash of any other, and the branch "Refresh token reuse detected"
  (`src/src/modules/auth/auth.service.ts:364`) is not reached. The model has no
  step for it.
- Audit rows, mail, profile fields and the events to the browser that nothing
  answers are left out.

## 3. Runs

All bounds are CONSTANTS of the `.cfg`.

| Run | Checks | Bounds, and why they are enough |
|---|---|---|
| `wallet_ledger` | `TypeOK`, `LedgerExplainsBalance`, `LedgerExplainsMargin`, `DepositCreditedOnce`, `RejectedIsRefunded`, `MarginMatchesOpenPositions`, `CreditsOnlyWhatWaits`, `FundsCheckedAtCommit`, `ActsAtomically` (refinement of `AtomicWallet`) | one user (no handler touches two wallets), two requests (every hazard is a pair), two positions, one deposit and one withdrawal, amounts 2, margins 1, results -2 and 1, limit 4: reached, and passed by a loss |
| `withdrawal_final` | `RefundedIsNotPaid`, violated | as above |
| `position_book` | `TypeOK`, `LockHeldByItsCloser`, `OpenIsWatched`, `CloseIsFinal`, `ActsAtomically` (refinement of `AtomicBook`), `LocksAreReleased`, `StopsAreExecuted` | one position, two closers (user, admin or engine) and one update, one tick under way, any number of ticks lost, one crash: what can get in the way of a stop or of another close. That positions do not disturb each other is proved for any number of them |
| `position_mirror` | `MirrorIsCurrent`, violated | two updates |
| `position_contract_size` | `ContractSizeIsPatched`, violated | a restart |
| `accounts` | `TypeOK`, `WalletWithAccount`, `EndedForGood`, `SignupAsConfirmed`, `FirstAccountStays` | two handlers, two sessions, two codes (the second replaces the first), two attempts instead of five; both values of `AUTH_OTP_ENABLED` |
| `trade_arithmetic` | `RowsExplainWallet`, `WorthWhatIsShown` | two positions, a symbol of each region, three quotes, with and without spread and with a jump; orders that round to no lots, to one and up to two; money in halves of its last digit, so that ties occur, and losses beyond the balance |
| `quote_store` | `TypeOK`, `AnswerIsFresh`, `StoreAgrees`, `NothingMissed`, `Served` | two ticks after the seed, a browser and another reader, one loss of any connection or one command given up, one restart: a SET sent again behind a newer one, a GET answered between two ticks |
| `nse_feed` | `TypeOK`, `OneWalk`, `FallbackEnds`, `FallbackBegins`, `LivePricesReturn`, `StopEndsAll` | two polls that overlap, a threshold of three, so that the failures that begin a walk are of polls side by side and of polls one after the other; two prices, of which one arrives late; every outage, in any order. `TypeOK` and `OneWalk` are proved for any number of polls |
| `twelvedata_feed` | `MarketTypeOK`, `OneFeed`, `AnnouncedOpenIsNext`, `Driven` | every mode with and without a key; two socket objects, used again once closed; a delay that stops growing; a clock from Friday to Tuesday with a holiday, at both ends of the session and at both midnights |
| `support_ticket` | `TypeOK`, `RepliesAreNotified` | two handlers, four messages |
| `ticket_lost` | `AcceptedIsKept`, violated | the same, three messages |

Deadlock is checked but where the bounds really end a run: a wallet in deficit
whose user has used all ids has no request left to make.

Symmetry is used for interchangeable requests, positions, handlers and sessions,
in the runs without liveness.

### What each property says

- *Wallet.* `LedgerExplainsBalance` and `LedgerExplainsMargin` relate the wallet
  to the rows that account for it: a lost update breaks them.
  `MarginMatchesOpenPositions` relates it to the positions: a double close breaks
  it. `DepositCreditedOnce` and `RejectedIsRefunded` relate statuses to the rows of
  the ledger, at every moment; a deposit that reads REJECTED may have been credited
  before (section 4). `CreditsOnlyWhatWaits` looks at the moment money is given:
  the row waits for the admin then, and not only when the handler read it.
  `FundsCheckedAtCommit` is about the gap between the check of the free
  margin and its use. `ActsAtomically` says it at once: the wallets behave as if
  each accepted request took effect at one moment.
- *Positions.* `LockHeldByItsCloser` is about which call gives back which lock;
  `OpenIsWatched` about the registry after failures and restarts; `CloseIsFinal`
  about a second close after a crash, when no lock is left. `ActsAtomically` adds
  who may do what: no row is closed by a call without its lock, or for another
  reason than the lock was taken for; the engine closes nothing it does not watch;
  and nothing happens while the process is down.
  `StopsAreExecuted`: no position stays open for ever while every price that can
  be seen triggers it, however many ticks are lost on their way to the engine.
- *Accounts.* `SignupAsConfirmed` and `FirstAccountStays` are about a second
  request, tab or createAdmin between the comparison of a code and the creation
  of the account; `EndedForGood` about a refresh that writes the session row
  after a logout or a reset.
- *Trades.* `RowsExplainWallet`: the margins of wallet and rows are equal to the
  last digit, the balance and the results stored in the rows drift apart by one
  last digit a close at most (they do drift: at a tie PostgreSQL rounds a balance
  up and a loss down). `WorthWhatIsShown`: at the quote it executes at, no order
  and no close makes the equity of `getWallet` rise, and a close pays what the
  views showed, up to half a cent.
- *Quotes.* `AnswerIsFresh`: a close that a tick triggers reads the quote again,
  and must not find an older one, though the answer may have been on its way while
  ticks came. `StoreAgrees` is about what failures leave.
- *Browsers.* `NothingMissed`: whoever has the snapshot has been sent a quote as
  new as every tick sent to the room, before and after it joined. `Served`:
  a connection does not stay without snapshot.
- *Feeds.* `OneWalk` and `OneFeed` count intervals and sockets that nobody holds
  any more. `FallbackBegins` and `FallbackEnds` are the recovery the log messages
  announce. Polls that fail half-way have published prices of NSE, among those of
  the walk; `LivePricesReturn` says that this ends, and that no answer under way
  leaves an old price for good. `StopEndsAll`: a poll of NSE under way at stop(), or the poll
  interval set after it, publishes nothing any more in the end.
- *Market data.* `Driven` relates four places that sort symbols (the filters of the
  module, the lists and maps of the providers, the routes) to what runs: a symbol
  that is shown and that Twelve Data does not map gets its random walk in the end,
  and one that it has gets its feed again after each interruption (so the
  connection comes back, with its subscription). For NSE it says that the polls go
  on; what they publish is `NseFeed`'s. `AnnouncedOpenIsNext` compares
  `isMarketOpen` and `nextOpen` with sessions written down independently.
- *Tickets.* `RepliesAreNotified` relates the notifications stored to the replies
  accepted; `AcceptedIsKept` the replies accepted to the array.

### Fairness

- `PositionBook`: the event loop runs what is ready (WF on `add`, `finishClose`,
  `mirrorUpdate`); a database call ends, well or not (WF); the database does not
  refuse the same close for ever although it is tried again and again (SF on
  `readForClose`, `commitClose`); the market keeps ticking and the process is
  restarted (WF); not every tick is lost on the way to the engine (SF on
  `processTick`: ioredis reconnects and subscribes again). Nothing is assumed of users and admins.
- `NseFeed`: start() ends, the poll timer fires, a request is answered or times
  out (`fetchWithTimeout` aborts it after 8 s; reading a body that stalls is left to the default time limit of `fetch`). NSE itself, Redis and the trading hours are unconstrained.
- `TwelveDataFeed`: a handshake ends in open or error, an error is followed by
  close, the reconnection timer fires. `MarketData` adds that a bootstrap ends.
- `RealtimeGateway`: Redis executes the commands it has, replies arrive, a token
  is verified or refused. Ticks, losses, browsers and the throttle are free.

## 4. What the runs found

1. **A refunded withdrawal can still be paid** (`withdrawal_final`).
   `approveWithdrawal` and `completeWithdrawal` run at READ COMMITTED and update
   by id alone. An approval that read PENDING commits after a rejection has given
   the money back; the withdrawal is APPROVED and can be completed, or rejected
   and refunded again.
2. **The registry can keep levels the row no longer has** (`position_mirror`).
   Updates reach it after an await, in any order, and before the entry of an open
   that is still to be added.
3. **After a restart every entry has contractSize 1** (`position_contract_size`).
   The comment says trading patches it on add; nothing patches entries loaded at
   boot, so the streamed profits are off.
4. **Of two replies to a ticket that overlap the first is lost**
   (`ticket_lost`), after its request succeeded.

The models also have behaviours that no document or comment speaks against, or
against which one speaks too vaguely to be shown wrong, and that no property
claims away:

- a response of NSE that arrives late replaces a newer price; every boot writes
  `startPrice` over the last stored quote; a boot whose SET is given up (after
  20 attempts) never calls `start()`, although
  `src/src/modules/market-data/providers/base.ts:41` says of Redis "briefly
  unreachable" that this self-heals;
- while polls of NSE fail half-way, because the second index does not answer or
  Redis refuses what was published (`src/src/modules/market-data/providers/nse.provider.ts:126`),
  each publishes live prices and the walk of line 176 publishes its own for the same
  symbols;
- orders for forex are admitted on weekends, at the last quote, although the comment
  on these symbols says "24/5" (`src/src/modules/market-data/symbols.ts:43`);
- the throttle drops the last tick of a burst, so a browser may show a price that
  is a tick old until the next one; ticks are sent whether or not a symbol is
  visible, and a hidden symbol can be traded;
- in the mode "multi" nobody provides SENSEX (it is not shown; an order gets "No
  price available"); holidays are known for 2026 only;
- `rejectDeposit` overwrites an approval (the money stays credited once); the
  levels of a closed position can be changed; a user's reply in flight reopens a
  ticket closed meanwhile, although replies to a closed one are refused
  (`src/src/modules/tickets/tickets.service.ts:71`), and a reply of support writes
  RESOLVED over a reopening; a mistyped code in flight writes an older record over a new
  one; a login that read the user before a password reset opens its session after
  it;
- an order's hours and price are checked before its transaction, so it can be
  executed just after the close and at a price that has moved; the documented
  minimum of 0.01 lots (`src/src/modules/trading/dto/open-position.dto.ts:14`) is
  not enforced, and 0.00004 lots lock a margin for a row of 0 lots;
- the free margin of `getWallet` is equity less margin, the one an order is
  admitted by, and `wallet:updated` shows, is balance less margin.

## 5. Theorems

Proved by TLAPS for every value of the constants, from the named assumptions only
(amounts, limits and scales are naturals, ids of different kinds are different, the
"none" values are not ids, a table has finitely many positions, no bid is above
its ask). Each proof has the same shape: an inductive invariant,
one lemma per action or kind of action, and a last step in temporal logic.

| Theorem | Says | Argument |
|---|---|---|
| `TypeCorrect`, `LedgerExplained`, `MarginExplained` | the invariants of `WalletLedger` | `SnapshotsCurrent`: a Serializable transaction that may still commit has seen the rows as they are, and its guard holds of them now. So its commit, computed from what it read, is the step on the current wallet |
| `MarginIsOfOpenPositions` | `MarginMatchesOpenPositions`, for any number of positions | an open or a close changes one term of one user's sum by what it adds to the margin (`OpenMargins`, `CloseMargins`), every other step no term (`CashMargins`); the sums are below |
| `CreditedOnce`, `Refunded` | a deposit has one credit at most, an approved one exactly one, a pending one none; a rejected withdrawal has been refunded | `CreditsMatchStatus` adds the count of ledger rows for every status; READ COMMITTED steps name rows that exist (`OpsOnRows`) and write no credit |
| `CreditsAreDue` | `CreditsOnlyWhatWaits`: credits are for rows that wait at that moment | `CreditStep`: only two Serializable commits credit, and by `SnapshotsCurrent` the status they read is the status of the row |
| `FundsChecked` | no step takes more than is free | by `SnapshotsCurrent` the guard of the snapshot is the guard of the commit |
| `Atomicity` | `WalletLedger` implements `AtomicWallet` | each commit maps to one abstract step, all else to stuttering |
| `BookTypes`, `LocksAreHeld`, `OpenPositionsAreWatched`, `ClosesAreFinal` | the safety properties of `PositionBook`, for any number of positions, calls, failures and crashes | `Book`: a call that has read an OPEN row and may still commit finds it OPEN (`ClosersKnow`), calls name rows that exist (`NamesOpened`), locks and calls correspond one to one (`Locks`) |
| `BookIsAtomic` | `PositionBook` implements `AtomicBook` | `LocksTell`: the abstract lock of a position is the reason of the one call that holds it, so that calls which begin, go on or end change just the locks they should; `DownIsIdle`: a process that is down has no call. Each action is then one abstract step or, for reads, failures, levels and published ticks, none |
| `AccountsTyped`, `WalletExists`, `SessionsEnd`, `SignupsAsConfirmed`, `AccountStays` | every property of the run `accounts`, for any number of handlers and sessions | `CallOK`: what a handler may still rely on after its awaits; the others take nothing of it away (`Keeps`) |
| `WalkRunsOnce`, `NseFeedProofs!TypeCorrect` | `OneWalk`, and that no poll fetches without cookies | the flags and the number of intervals move together in the four operations that touch them; a poll that fetches is past the warm-up that keeps the cookies |
| `TradesTyped`, `WalletIsExplained` | `RowsExplainWallet`, for every precision, leverage, contract and quote | a commit changes one term of each sum; `CloseRounds`: the rounded new balance and the rounded result differ by one last digit at most, as many times as there are closed rows |
| `TradesAreWorthTheirViews` | `WorthWhatIsShown` | the equity at the quote of a call changes by the spread on the order's lots, or, at a close, by what rounding adds; `ViewRounds`: two roundings of one number, to the last digit and to cents, are half of each apart |
| `FeedIsOne`, `HeartbeatOfConnection` | `OneFeed`, and that no heartbeat outlives its socket, of the connection alone | `Connected`: the only socket alive is `ws`, and a reconnection waits only while there is none |
| `QuotesInOrder`, and from it `TypeCorrect`, `NoStaleAnswer`, `MemoryAndRedisAgree`, `NothingFallsBetween` | the safety properties of `quote_store`, for any number of ticks, browsers, readers, losses and restarts | `Ordered`: Redis executes a queue from its front; the SETs without a reply increase; what was announced is not newer than what Redis has or will have before the next answer; `Browsers`: ticks sent ≤ ticks heard ≤ the quote in memory, which is what a snapshot has |
| `NextOpenIsAnnounced` | `AnnouncedOpenIsNext`, for every instant and every list of holidays | `ZonedDateInverts` (a local day and minute give back the instant), `SessionHours` (open means in a session); the first session day is the least element of a set of naturals, so no recursion is needed |
| `FeedIsRefined`, and from it `ModuleHasOneFeed`, `ModuleTyped` | `MarketData` implements `TwelveDataFeed`; `OneFeed` and the types in every configuration | each step of `MarketData` is a step of `TwelveDataFeed` or leaves it alone |
| `SupportTicketProofs!TypeCorrect`, `Notified` | the properties of `support_ticket`, for any number of handlers and replies | `Thread`: every copy of the array is in order of sending; `HandlerOK`: a handler's message is newer than what it has read and nobody else's |

The invariants to be proved are not inductive alone. Of the ledger, for example,
nothing follows about a commit that uses a balance read earlier, unless the
invariant also says that this balance is the present one.

*Sums.* Margins, results and open profits are sums over the positions of a table.
The library's theorems on sums and on induction take an operator as a parameter,
which the provers cannot instantiate, so the facts needed are proved from the
definition of a sum as a fold: `PartialSums` by a least counterexample among the
sizes of parts of the table, and from it `SumOfChange`, that a sum changes by as
much as the one term that changes. They are in `EquityProofs` and, again, in
`WalletLedgerProofs`, whose modules have nothing else in common.

Every safety property that a passing run checks is proved. Only model-checked is
liveness (`LocksAreReleased`, `StopsAreExecuted`, `FallbackEnds`,
`FallbackBegins`, `LivePricesReturn`, `StopEndsAll`, `Driven`, `Served`), which needs fairness and ENABLED and is out
of the prover's reach; and the properties that are violated.

## 6. Not modelled, and why

- *Lists*: `findMany` and a count with filter, `skip` and `take`. They change
  nothing; a list that others work on between two pages hides rows, which no text
  speaks against.
- *Bank accounts, audit log, users*: one statement on one row, of which nothing
  else depends. An audit row is written after the change it records, in
  `setSymbolVisibility` and `forceClosePosition` outside its transaction.
- *The other events of `emitToUser`*: sent after the commit, in no order among
  requests; nothing answers them. `socketSubs` of the gateway is never read.
- *Uploads, e-mail, health, bootstrap, DTOs*: I/O, wiring and declarations.
- *The lost reply of a COMMIT*: a transaction has committed exactly when its promise
  resolves. If PostgreSQL commits and the connection breaks before the answer,
  `$transaction` (`src/src/modules/trading/trading.service.ts:64-103`) rejects, no
  `registry.add` follows, and the position is open and not watched until the next
  boot: `OpenIsWatched` rests on this assumption.
- *The price an order reads in `MarketData`*: which provider has a symbol is there, what
  it answers (`getQuoteFromCache`, Redis first, then memory) is in `QuoteStore`.
- *Doubles*: the noise of a binary difference of two prices, which could turn a
  tie of `Equity` one way or the other.

## 7. Plan

Done, in this order: wallets and their abstract specification, the position
book, the feeds and the quote store, tickets, accounts; then the gateway, the
market data module with its hours, notifications and the arithmetic of trades;
the abstract specification of the book; theorems for all of them.

What is left to add:

1. A composition of `QuoteStore` with the engine's side of `PositionBook`, so that
   a stop is followed from the feed to the close.
2. An abstract specification of accounts (sessions that live and end, a password
   that is the last confirmed) that `Accounts` implements.
3. The order of the wallet events a browser receives against the rows.
