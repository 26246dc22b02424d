----------------------------- MODULE WalletLedger -----------------------------
(***************************************************************************)
(* The money of the platform: wallets, the wallet_transactions ledger, and *)
(* the deposit, withdrawal and position rows whose status says where money *)
(* is.  Requests run concurrently in one Node process against PostgreSQL.  *)
(*                                                                         *)
(* A transaction is two steps.  "begin" reads its snapshot and evaluates   *)
(* the guards of the handler (a refused request takes no step); "commit"   *)
(* performs every write of the handler, computed from what begin read.     *)
(* Fail is a serialization failure, a time-out or a lost process, at any   *)
(* point in between.  Nothing retries a failed transaction.                *)
(*                                                                         *)
(* Money is in units of the last digit of Decimal(18,6).  Ledger rows are  *)
(* kept as sums per user, and as a count of rows per deposit/withdrawal.   *)
(* Closes are not serialised by the in-memory lock here (PositionBook      *)
(* models it): what holds below holds without it.                          *)
(***************************************************************************)
EXTENDS Integers, FiniteSets, Functions

CONSTANTS
    Users,          \* users; the signup transaction gives each one its wallet
    Deposits,       \* ids available to deposit rows
    Withdrawals,    \* ids available to withdrawal rows
    Positions,      \* ids available to position rows
    Requests,       \* transactions that may be open at the same time
    Amounts,        \* deposit, withdrawal and adjustment amounts
    Margins,        \* margins an order can need
    Pnls,           \* profits and losses a close can realise
    MaxMoney,       \* largest value a money column can hold
    NoUser, NoItem

ASSUME MoneyAssumption ==
    /\ Amounts \subseteq Nat \ {0} /\ Margins \subseteq Nat /\ Pnls \subseteq Int
    /\ MaxMoney \in Nat

ASSUME IdAssumption ==
    /\ IsFiniteSet(Positions)
    /\ NoUser \notin Users /\ NoItem \notin Deposits \cup Withdrawals \cup Positions
    /\ Deposits \cap Withdrawals = {} /\ Deposits \cap Positions = {}
    /\ Withdrawals \cap Positions = {}
    /\ \A u \in Users \cup {NoUser} :
          u \notin Deposits \cup Withdrawals \cup Positions \cup {NoItem}

VARIABLES
    wallet,         \* wallets: balance and marginUsed of each user
    ledger,         \* wallet_transactions of each user: sum of cash rows, net
                    \* margin held by lock/release rows, last balanceAfter
    deposit, withdrawal, position,
    credits,        \* number of DEPOSIT / WITHDRAW_REFUND rows naming an item
    txn             \* the open transaction of each request

rows == <<wallet, ledger, deposit, withdrawal, position, credits>>
vars == <<wallet, ledger, deposit, withdrawal, position, credits, txn>>

Money == -MaxMoney .. MaxMoney
Fits_noColumnLimit(x) == x \in Int
Fits(x) == x \in Money

Free(w) == w.balance - w.margin

NoRow == [status |-> "NONE", user |-> NoUser, amount |-> 0]
Idle == [op |-> "none", user |-> NoUser, item |-> NoItem, amount |-> 0,
         pnl |-> 0, seen |-> [balance |-> 0, margin |-> 0], valid |-> TRUE]

\* Mutants: one handler left at the database default.
SerializableOps_openDefault == {"closePosition", "createWithdrawal", "adjustWallet",
                                "approveDeposit", "rejectWithdrawal"}
SerializableOps_closeDefault == {"openPosition", "createWithdrawal", "adjustWallet",
                                 "approveDeposit", "rejectWithdrawal"}
SerializableOps_adjustDefault == {"openPosition", "closePosition", "createWithdrawal",
                                  "approveDeposit", "rejectWithdrawal"}
SerializableOps_approveDefault == {"openPosition", "closePosition", "createWithdrawal",
                                   "adjustWallet", "rejectWithdrawal"}

\* The handlers that ask Prisma for isolationLevel Serializable; the others run
\* at the database default, READ COMMITTED.
SerializableOps == {"openPosition", "closePosition", "createWithdrawal",
                    "adjustWallet", "approveDeposit", "rejectWithdrawal"}

-----------------------------------------------------------------------------
(* Transactions *)

Begin(r, op, u, i, a, p) ==
    /\ txn[r] = Idle
    /\ txn' = [txn EXCEPT ![r] = [op |-> op, user |-> u, item |-> i, amount |-> a,
                                  pnl |-> p, seen |-> wallet[u], valid |-> TRUE]]
    /\ UNCHANGED rows

\* A Serializable transaction that updates a row written since its snapshot is
\* aborted.  Each of ours updates every row it has read.
MayCommit(r, op) == txn[r].op = op /\ (op \in SerializableOps => txn[r].valid)

\* r ends having written the rows in written: snapshots that hold them are stale.
End(r, written) ==
    txn' = [q \in Requests |->
              IF q = r THEN Idle
              ELSE IF {txn[q].user, txn[q].item} \cap written = {} THEN txn[q]
              ELSE [txn[q] EXCEPT !.valid = FALSE]]

\* Append rows to the ledger of u that add up to cash and to margin held.
Post(u, cash, held, balanceAfter) ==
    ledger' = [ledger EXCEPT ![u] = [cash |-> @.cash + cash, held |-> @.held + held,
                                     last |-> balanceAfter]]

\* Write the balance and append a cash row with amount and balanceAfter.
PostCash(u, amount, newBalance) ==
    /\ Fits(newBalance)
    /\ wallet' = [wallet EXCEPT ![u].balance = newBalance]
    /\ Post(u, amount, 0, newBalance)

Fail(r) == txn[r] # Idle /\ End(r, {}) /\ UNCHANGED rows

-----------------------------------------------------------------------------
(* Trading *)

beginOpenPosition(r, u, m) ==
    Free(wallet[u]) >= m /\ Begin(r, "openPosition", u, NoItem, m, 0)

\* Locks the margin.  The TRADE_MARGIN_LOCK row repeats the balance read.
commitOpenPosition(r, p) ==
    LET t == txn[r] IN
    /\ MayCommit(r, "openPosition") /\ position[p] = NoRow
    /\ Fits(t.seen.margin + t.amount)
    /\ wallet' = [wallet EXCEPT ![t.user].margin = t.seen.margin + t.amount]
    /\ Post(t.user, 0, t.amount, t.seen.balance)
    /\ position' = [position EXCEPT ![p] = [status |-> "OPEN", user |-> t.user,
                                            amount |-> t.amount]]
    /\ End(r, {t.user}) /\ UNCHANGED <<deposit, withdrawal, credits>>

beginClosePosition(r, p, pnl) ==
    /\ position[p].status = "OPEN"
    /\ Begin(r, "closePosition", position[p].user, p, position[p].amount, pnl)

\* Releases the margin and posts the realised result, in two ledger rows.  The
\* result is not limited to the balance.
commitClosePosition(r) ==
    LET t == txn[r]
        newBalance == t.seen.balance + t.pnl
        newMargin == t.seen.margin - t.amount IN
    /\ MayCommit(r, "closePosition")
    /\ Fits(newBalance) /\ Fits(newMargin)
    /\ wallet' = [wallet EXCEPT ![t.user] = [balance |-> newBalance, margin |-> newMargin]]
    /\ Post(t.user, t.pnl, -t.amount, newBalance)
    /\ position' = [position EXCEPT ![t.item].status = "CLOSED"]
    /\ End(r, {t.user, t.item}) /\ UNCHANGED <<deposit, withdrawal, credits>>

-----------------------------------------------------------------------------
(* Deposits and withdrawals, as the user asks for them *)

createDeposit(d, u, a) ==
    /\ deposit[d] = NoRow
    /\ deposit' = [deposit EXCEPT ![d] = [status |-> "PENDING", user |-> u, amount |-> a]]
    /\ UNCHANGED <<wallet, ledger, withdrawal, position, credits, txn>>

beginCreateWithdrawal(r, u, a) ==
    Free(wallet[u]) >= a /\ Begin(r, "createWithdrawal", u, NoItem, a, 0)

\* The amount leaves the balance when the withdrawal is asked for.
commitCreateWithdrawal(r, w) ==
    LET t == txn[r] IN
    /\ MayCommit(r, "createWithdrawal") /\ withdrawal[w] = NoRow
    /\ PostCash(t.user, -t.amount, t.seen.balance - t.amount)
    /\ withdrawal' = [withdrawal EXCEPT ![w] = [status |-> "PENDING", user |-> t.user,
                                                amount |-> t.amount]]
    /\ End(r, {t.user}) /\ UNCHANGED <<deposit, position, credits>>

-----------------------------------------------------------------------------
(* The admin *)

\* ADMIN_CREDIT has a positive delta, ADMIN_DEBIT a negative one.
beginAdjustWallet(r, u, delta) ==
    wallet[u].balance + delta >= 0 /\ Begin(r, "adjustWallet", u, NoItem, delta, 0)

commitAdjustWallet(r) ==
    LET t == txn[r] IN
    /\ MayCommit(r, "adjustWallet")
    /\ PostCash(t.user, t.amount, t.seen.balance + t.amount)
    /\ End(r, {t.user}) /\ UNCHANGED <<deposit, withdrawal, position, credits>>

beginApproveDeposit(r, d) ==
    /\ deposit[d].status = "PENDING"
    /\ Begin(r, "approveDeposit", deposit[d].user, d, deposit[d].amount, 0)

commitApproveDeposit(r) ==
    LET t == txn[r] IN
    /\ MayCommit(r, "approveDeposit")
    /\ PostCash(t.user, t.amount, t.seen.balance + t.amount)
    /\ credits' = [credits EXCEPT ![t.item] = @ + 1]
    /\ deposit' = [deposit EXCEPT ![t.item].status = "APPROVED"]
    /\ End(r, {t.user, t.item}) /\ UNCHANGED <<withdrawal, position>>

beginRejectDeposit(r, d) ==
    /\ deposit[d].status = "PENDING"
    /\ Begin(r, "rejectDeposit", deposit[d].user, d, deposit[d].amount, 0)

\* READ COMMITTED: the status read is not checked again by the update.
commitRejectDeposit(r) ==
    LET t == txn[r] IN
    /\ MayCommit(r, "rejectDeposit")
    /\ deposit' = [deposit EXCEPT ![t.item].status = "REJECTED"]
    /\ End(r, {t.item}) /\ UNCHANGED <<wallet, ledger, withdrawal, position, credits>>

BeginWithdrawalStep(r, op, w, from) ==
    /\ withdrawal[w].status \in from
    /\ Begin(r, op, withdrawal[w].user, w, withdrawal[w].amount, 0)

beginApproveWithdrawal(r, w) == BeginWithdrawalStep(r, "approveWithdrawal", w, {"PENDING"})
beginCompleteWithdrawal(r, w) == BeginWithdrawalStep(r, "completeWithdrawal", w, {"APPROVED"})
beginRejectWithdrawal(r, w) ==
    BeginWithdrawalStep(r, "rejectWithdrawal", w, {"PENDING", "APPROVED"})

\* Both READ COMMITTED, as rejectDeposit.
commitApproveWithdrawal(r) ==
    LET t == txn[r] IN
    /\ MayCommit(r, "approveWithdrawal")
    /\ withdrawal' = [withdrawal EXCEPT ![t.item].status = "APPROVED"]
    /\ End(r, {t.item}) /\ UNCHANGED <<wallet, ledger, deposit, position, credits>>

commitCompleteWithdrawal(r) ==
    LET t == txn[r] IN
    /\ MayCommit(r, "completeWithdrawal")
    /\ withdrawal' = [withdrawal EXCEPT ![t.item].status = "COMPLETED"]
    /\ End(r, {t.item}) /\ UNCHANGED <<wallet, ledger, deposit, position, credits>>

\* Mutant: rejects without giving the amount back.
commitRejectWithdrawal_noRefund(r) ==
    LET t == txn[r] IN
    /\ MayCommit(r, "rejectWithdrawal")
    /\ withdrawal' = [withdrawal EXCEPT ![t.item].status = "REJECTED"]
    /\ End(r, {t.user, t.item}) /\ UNCHANGED <<wallet, ledger, deposit, position, credits>>

\* Gives the amount back.
commitRejectWithdrawal(r) ==
    LET t == txn[r] IN
    /\ MayCommit(r, "rejectWithdrawal")
    /\ PostCash(t.user, t.amount, t.seen.balance + t.amount)
    /\ credits' = [credits EXCEPT ![t.item] = @ + 1]
    /\ withdrawal' = [withdrawal EXCEPT ![t.item].status = "REJECTED"]
    /\ End(r, {t.user, t.item}) /\ UNCHANGED <<deposit, position>>

-----------------------------------------------------------------------------
Init ==
    /\ wallet = [u \in Users |-> [balance |-> 0, margin |-> 0]]
    /\ ledger = [u \in Users |-> [cash |-> 0, held |-> 0, last |-> 0]]
    /\ deposit = [d \in Deposits |-> NoRow]
    /\ withdrawal = [w \in Withdrawals |-> NoRow]
    /\ position = [p \in Positions |-> NoRow]
    /\ credits = [i \in Deposits \cup Withdrawals |-> 0]
    /\ txn = [r \in Requests |-> Idle]

Trading(r) ==
    \/ \E u \in Users, m \in Margins : beginOpenPosition(r, u, m)
    \/ \E p \in Positions : commitOpenPosition(r, p)
    \/ \E p \in Positions, pnl \in Pnls : beginClosePosition(r, p, pnl)
    \/ commitClosePosition(r)

Depositing(r) ==
    \/ \E d \in Deposits : beginApproveDeposit(r, d) \/ beginRejectDeposit(r, d)
    \/ commitApproveDeposit(r)
    \/ commitRejectDeposit(r)

Withdrawing(r) ==
    \/ \E u \in Users, a \in Amounts : beginCreateWithdrawal(r, u, a)
    \/ \E w \in Withdrawals : commitCreateWithdrawal(r, w)
    \/ \E w \in Withdrawals : \/ beginApproveWithdrawal(r, w)
                              \/ beginCompleteWithdrawal(r, w)
                              \/ beginRejectWithdrawal(r, w)
    \/ commitApproveWithdrawal(r)
    \/ commitCompleteWithdrawal(r)
    \/ commitRejectWithdrawal(r)

Adjusting(r) ==
    \/ \E u \in Users, a \in Amounts : beginAdjustWallet(r, u, a) \/ beginAdjustWallet(r, u, -a)
    \/ commitAdjustWallet(r)

Next ==
    \/ \E d \in Deposits, u \in Users, a \in Amounts : createDeposit(d, u, a)
    \/ \E r \in Requests :
          Trading(r) \/ Depositing(r) \/ Withdrawing(r) \/ Adjusting(r) \/ Fail(r)

Spec == Init /\ [][Next]_vars

-----------------------------------------------------------------------------
(* Properties *)

Row(status, users, amounts) == [status : status, user : users, amount : amounts]

Txn == [op : {"openPosition", "closePosition", "createWithdrawal", "adjustWallet",
              "approveDeposit", "rejectDeposit", "approveWithdrawal",
              "completeWithdrawal", "rejectWithdrawal"},
        user : Users, item : Deposits \cup Withdrawals \cup Positions \cup {NoItem},
        amount : Int, pnl : Int, seen : [balance : Money, margin : Money],
        valid : BOOLEAN]

\* Types of the variables; every stored amount fits its Decimal(18,6) column.
TypeOK ==
    /\ wallet \in [Users -> [balance : Money, margin : Money]]
    /\ ledger \in [Users -> [cash : Int, held : Int, last : Money]]
    /\ deposit \in [Deposits -> Row({"PENDING", "APPROVED", "REJECTED"}, Users, Amounts) \cup {NoRow}]
    /\ withdrawal \in [Withdrawals ->
          Row({"PENDING", "APPROVED", "COMPLETED", "REJECTED"}, Users, Amounts) \cup {NoRow}]
    /\ position \in [Positions -> Row({"OPEN", "CLOSED"}, Users, Margins) \cup {NoRow}]
    /\ credits \in [Deposits \cup Withdrawals -> Nat]
    /\ txn \in [Requests -> Txn \cup {Idle}]

\* The ledger accounts for the money: the balance of a wallet is the sum of the
\* cash rows of its user and the balanceAfter of the last row, whatever requests
\* on that wallet ran together (each writes a balance it computed from a read).
LedgerExplainsBalance ==
    \A u \in Users : /\ wallet[u].balance = ledger[u].cash
                     /\ wallet[u].balance = ledger[u].last

\* marginUsed is what the TRADE_MARGIN_LOCK rows took and the
\* TRADE_MARGIN_RELEASE rows have not given back.
LedgerExplainsMargin == \A u \in Users : wallet[u].margin = ledger[u].held

\* marginUsed is the margin of the user's OPEN positions, no more and no less:
\* a double close or a lost update would leave margin locked or free too much.
MarginOfOpen(u) ==
    [p \in Positions |-> IF position[p].status = "OPEN" /\ position[p].user = u
                         THEN position[p].amount ELSE 0]
MarginMatchesOpenPositions ==
    \A u \in Users : wallet[u].margin = SumFunction(MarginOfOpen(u))

\* A deposit is credited once at most: an approved deposit has exactly one DEPOSIT
\* row and a pending one has none, however many admins handle it together.  (One
\* that reads REJECTED may have been credited before: commitRejectDeposit.)
DepositCreditedOnce ==
    \A d \in Deposits : /\ credits[d] <= 1
                        /\ deposit[d].status = "APPROVED" => credits[d] = 1
                        /\ deposit[d].status = "PENDING" => credits[d] = 0

\* A withdrawal the user is told was rejected has been refunded, and one still
\* waiting for the admin has not.
RejectedIsRefunded ==
    \A w \in Withdrawals : /\ withdrawal[w].status = "REJECTED" => credits[w] >= 1
                           /\ withdrawal[w].status = "PENDING" => credits[w] = 0

\* Money is given for a row that waits for the admin at the moment it is given, and
\* not only when the handler looked: no deposit is credited once it was rejected or
\* approved, and no withdrawal refunded whose row reads COMPLETED or REJECTED then.
CreditIsDue ==
    /\ \A d \in Deposits : credits'[d] # credits[d] => deposit[d].status = "PENDING"
    /\ \A w \in Withdrawals :
          credits'[w] # credits[w] => withdrawal[w].status \in {"PENDING", "APPROVED"}
CreditsOnlyWhatWaits == [][CreditIsDue]_vars

\* Funds are sufficient when they are committed and not only when they were
\* checked: no step locks margin or takes a withdrawal beyond the free margin of
\* that moment.
FundsCovered ==
    \A u \in Users :
        (\/ wallet'[u].margin > wallet[u].margin
         \/ \E w \in Withdrawals : withdrawal[w] = NoRow /\ withdrawal'[w].user = u)
        => Free(wallet'[u]) >= 0
FundsCheckedAtCommit == [][FundsCovered]_vars

\* The wallets behave as if every request took effect at once: AtomicWallet.
Atomic == INSTANCE AtomicWallet WITH
    Nobody <- NoUser, account <- wallet,
    credited <- {d \in Deposits : credits[d] > 0},
    open <- [p \in Positions |->
                IF position[p].status = "OPEN"
                THEN [user |-> position[p].user, margin |-> position[p].amount]
                ELSE [user |-> NoUser, margin |-> 0]]
ActsAtomically == Atomic!Spec

\* What the admin handlers answer: a withdrawal that was rejected and refunded is
\* final ("Already finalized"), it is not approved or paid out afterwards.
RefundedIsNotPaid ==
    \A w \in Withdrawals :
        credits[w] > 0 => withdrawal[w].status \notin {"APPROVED", "COMPLETED"}
=============================================================================
