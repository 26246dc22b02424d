--------------------------------- MODULE Equity ---------------------------------
(***************************************************************************)
(* The arithmetic of trades for one user and one symbol: what an order     *)
(* locks, what a close pays, and the three places that compute the profit  *)
(* of an open position to show it.  Numbers are integers of the scale they *)
(* have: money in the last digit of Decimal(18,6), stored lots in the last *)
(* digit of Decimal(12,4), requested lots in 1/LotStep of that, and a      *)
(* product of lots, contract size and price in 1/Scale of the money's last *)
(* digit, so that what PostgreSQL rounds is seen.  A difference of two     *)
(* prices is exact.  Handlers run one at a time here (their transactions   *)
(* are in WalletLedger), but the quote may move after they have read it.   *)
(***************************************************************************)
EXTENDS Integers, FiniteSetsExt

CONSTANTS
    Ids,            \* ids of positions
    Symbols,        \* records: region, lotSize (in stored lots), contractSize
    Lots,           \* what orders ask for
    AllowedLeverage,
    Quotes,         \* records: bid, ask
    InitialBalance,
    LotStep, Scale, \* see above
    Cent,           \* units of money in 0.01
    NoRow, NoQuote, NoCall

ASSUME ScaleAssumption == {LotStep, Scale, Cent} \subseteq Nat \ {0}

ASSUME DataAssumption ==
    /\ IsFiniteSet(Ids) /\ InitialBalance \in Int
    /\ \A s \in Symbols : s.contractSize \in Nat
    /\ \A q \in Quotes : q.bid \in Int /\ q.ask \in Int /\ q.bid <= q.ask
    /\ Lots \subseteq Int /\ AllowedLeverage \subseteq Nat \ {0}

VARIABLES
    sym,            \* the symbol traded
    quote,          \* what getQuoteFromCache answers
    wallet,         \* balance and marginUsed
    position,       \* rows of positions, OPEN or CLOSED
    call            \* the order or the close under way, with what it has read

vars == <<sym, quote, wallet, position, call>>

Sides == {"BUY", "SELL"}

\* The rows of positions, and what a call has read before its transaction.
Row == [status : {"OPEN", "CLOSED"}, side : Sides, lots : Nat, leverage : AllowedLeverage,
        entryPrice : Int, marginUsed : Int, realizedPnl : Int]
Order == [op : {"open"}, side : Sides, lots : Lots, leverage : AllowedLeverage, quote : Quotes]
Close == [op : {"close"}, id : Ids, quote : Quotes]

ASSUME NoneAssumption == NoRow \notin Row /\ NoCall \notin Order \cup Close /\ NoQuote \notin Quotes

\* numeric and toFixed round n/d to the nearest integer, halves away from 0
RoundDiv(n, d) == IF n >= 0 THEN (2 * n + d) \div (2 * d) ELSE -((d - 2 * n) \div (2 * d))

Open == {id \in Ids : position[id] # NoRow /\ position[id].status = "OPEN"}
Closed == {id \in Ids : position[id] # NoRow /\ position[id].status = "CLOSED"}

\* the sum of column over some of the rows
Sum(column(_), rows) == SumFunction([id \in Ids |-> IF id \in rows THEN column(id) ELSE 0])

-----------------------------------------------------------------------------
(* Prices and profits.  The code has the formula of the profit four times; *)
(* the engine's and the position views' are one here.                      *)

entryPrice(side, q) == IF side = "BUY" THEN q.ask ELSE q.bid
markPrice(side, q) == IF side = "BUY" THEN q.bid ELSE q.ask
sideSign(side) == IF side = "BUY" THEN 1 ELSE -1

\* an order's margin is margin(c) / perUnit(c) units of money, not rounded yet
margin(c) == c.lots * sym.contractSize * entryPrice(c.side, c.quote)
perUnit(c) == LotStep * c.leverage * Scale

\* closeInternal's, in 1/Scale; a mistake about the side, then the code
realizedPnl_entrySide(p, q) ==
    p.lots * sym.contractSize * (entryPrice(p.side, q) - p.entryPrice) * sideSign(p.side)
realizedPnl(p, q) ==
    p.lots * sym.contractSize * (markPrice(p.side, q) - p.entryPrice) * sideSign(p.side)

\* the engine's and the position views', in cents
computePnl(p, q) ==
    RoundDiv(p.lots * sym.contractSize * (markPrice(p.side, q) - p.entryPrice) * sideSign(p.side),
             Scale * Cent)

\* the wallet view's, in 1/Scale
computeUnrealizedPnl(q) ==
    IF q = NoQuote THEN 0
    ELSE Sum(LAMBDA id : position[id].lots * sym.contractSize * sideSign(position[id].side)
                         * (markPrice(position[id].side, q) - position[id].entryPrice),
             Open)

\* the balance with the open profits, as getWallet shows it, in 1/Scale
equity(q) == Scale * wallet.balance + computeUnrealizedPnl(q)

-----------------------------------------------------------------------------
(* Orders *)

inMultiples(lots) ==
    sym.region = "IN" /\ sym.lotSize > 0 => lots % (LotStep * sym.lotSize) = 0

openPosition ==
    /\ call = NoCall /\ quote # NoQuote
    /\ \E side \in Sides, lots \in Lots, leverage \in AllowedLeverage :
          /\ lots > 0 /\ inMultiples(lots)
          /\ call' = [op |-> "open", side |-> side, lots |-> lots, leverage |-> leverage,
                      quote |-> quote]
    /\ UNCHANGED <<sym, quote, wallet, position>>

covered(c) == (wallet.balance - wallet.marginUsed) * perUnit(c) >= margin(c)

locked(c) == RoundDiv(margin(c), perUnit(c))

commitOpen ==
    /\ call # NoCall /\ call.op = "open" /\ covered(call)
    /\ \E id \in {i \in Ids : position[i] = NoRow} :
          position' = [position EXCEPT ![id] =
              [status |-> "OPEN", side |-> call.side, lots |-> RoundDiv(call.lots, LotStep),
               leverage |-> call.leverage, entryPrice |-> entryPrice(call.side, call.quote),
               marginUsed |-> locked(call), realizedPnl |-> 0]]
    /\ wallet' = [wallet EXCEPT !.marginUsed = @ + locked(call)]
    /\ call' = NoCall
    /\ UNCHANGED <<sym, quote>>

refuseOpen ==
    /\ call # NoCall /\ call.op = "open" /\ ~covered(call)
    /\ call' = NoCall
    /\ UNCHANGED <<sym, quote, wallet, position>>

-----------------------------------------------------------------------------
(* Closes, by whomever *)

closeInternal ==
    /\ call = NoCall /\ quote # NoQuote
    /\ \E id \in Open : call' = [op |-> "close", id |-> id, quote |-> quote]
    /\ UNCHANGED <<sym, quote, wallet, position>>

\* mistakes: the margin computed again from the row; the result rounded to cents first
released_recomputed(p) == RoundDiv(p.lots * sym.contractSize * p.entryPrice, p.leverage * Scale)
newBalance_cents(p, q) == wallet.balance + Cent * computePnl(p, q)

released(p) == p.marginUsed

newBalance(p, q) == RoundDiv(Scale * wallet.balance + realizedPnl(p, q), Scale)

commitClose ==
    /\ call # NoCall /\ call.op = "close"
    /\ LET p == position[call.id] IN
         /\ wallet' = [balance |-> newBalance(p, call.quote),
                       marginUsed |-> wallet.marginUsed - released(p)]
         /\ position' = [position EXCEPT ![call.id].status = "CLOSED",
                              ![call.id].realizedPnl = RoundDiv(realizedPnl(p, call.quote), Scale)]
    /\ call' = NoCall
    /\ UNCHANGED <<sym, quote>>

\* another quote, or none: Redis has dropped it and a new process has none yet
publishTick ==
    /\ quote' \in (Quotes \cup {NoQuote}) \ {quote}
    /\ UNCHANGED <<sym, wallet, position, call>>

Init ==
    /\ sym \in Symbols
    /\ quote \in Quotes
    /\ wallet = [balance |-> InitialBalance, marginUsed |-> 0]
    /\ position = [id \in Ids |-> NoRow]
    /\ call = NoCall

Next ==
    \/ openPosition \/ commitOpen \/ refuseOpen
    \/ closeInternal \/ commitClose
    \/ publishTick

Spec == Init /\ [][Next]_vars

-----------------------------------------------------------------------------
(* What the arithmetic is for *)

(* The wallet's marginUsed is the sum of the margins of the open rows to the
   last digit, although both are rounded when they are stored: openPosition
   adds to one and writes the other, closeInternal subtracts one from the
   other, and a user without positions has all of the balance free. *)
MarginSumsUp ==
    wallet.marginUsed = Sum(LAMBDA id : position[id].marginUsed, Open)

(* closeInternal adds the unrounded result to the balance and stores it,
   rounded, in the row, the history and the ledger.  The sums drift apart by
   no more than the last digit a close. *)
DriftIsBounded ==
    LET drift == wallet.balance - InitialBalance
                 - Sum(LAMBDA id : position[id].realizedPnl, Closed)
    IN  drift \in -Cardinality(Closed) .. Cardinality(Closed)

(* The rows of a user's positions explain both columns of the wallet. *)
RowsExplainWallet == MarginSumsUp /\ DriftIsBounded

(* At the quote it executes at, no order and no close makes the equity that
   getWallet shows rise: opening costs the spread, closing turns into balance
   what was shown as profit, up to half of the last digit. *)
NothingGained ==
    \A q \in Quotes : call # NoCall /\ call.quote = q /\ call' = NoCall
                         => 2 * (equity(q)' - equity(q)) <= Scale

(* A close pays what the engine and the position views showed for its quote,
   up to half a cent.  (Not what the engine shows of a position that was open
   at a restart: PositionBook has what becomes of its contract size.) *)
ShownIsPaid ==
    \A id \in Open \cap Closed' :
        LET gap == position'[id].realizedPnl - Cent * computePnl(position[id], call.quote)
        IN  2 * gap \in -(Cent + 1) .. Cent + 1

(* Trades are worth what the views of them show: no sequence of orders and
   closes gains by itself, and a close pays the profit shown. *)
WorthWhatIsShown == [][NothingGained /\ ShownIsPaid]_vars
=============================================================================
