-------------------------- MODULE WalletLedgerProofs --------------------------
(***************************************************************************)
(* Theorems about WalletLedger, for every choice of its constants.         *)
(*                                                                         *)
(* The invariant behind them is SnapshotsCurrent: a Serializable           *)
(* transaction that may still commit has seen the rows as they are now.    *)
(* So each such commit acts on the current wallet, and the ledger and the  *)
(* row statuses stay in step with it.                                      *)
(***************************************************************************)
EXTENDS WalletLedger, FiniteSetTheorems, WellFoundedInduction, TLAPS

\* What a transaction was let through for, as it would be evaluated now.
GuardHolds(t) ==
    /\ t.op = "openPosition" => t.amount \in Margins /\ Free(wallet[t.user]) >= t.amount
    /\ t.op = "closePosition" =>
          /\ t.item \in Positions /\ t.pnl \in Pnls
          /\ position[t.item] = [status |-> "OPEN", user |-> t.user, amount |-> t.amount]
    /\ t.op = "createWithdrawal" => t.amount \in Amounts /\ Free(wallet[t.user]) >= t.amount
    /\ t.op = "adjustWallet" =>
          /\ t.amount \in Amounts \/ -t.amount \in Amounts
          /\ wallet[t.user].balance + t.amount >= 0
    /\ t.op = "approveDeposit" =>
          /\ t.item \in Deposits
          /\ deposit[t.item] = [status |-> "PENDING", user |-> t.user, amount |-> t.amount]
    /\ t.op = "rejectWithdrawal" =>
          /\ t.item \in Withdrawals /\ t.amount \in Amounts
          /\ withdrawal[t.item].status \in {"PENDING", "APPROVED"}

\* A Serializable transaction that may still commit has seen the rows as they are.
SnapshotsCurrent ==
    \A r \in Requests :
        txn[r].op \in SerializableOps /\ txn[r].valid =>
            txn[r].seen = wallet[txn[r].user] /\ GuardHolds(txn[r])

\* A READ COMMITTED transaction at least names a row that exists.
OpsOnRows ==
    \A r \in Requests :
        /\ txn[r].op = "rejectDeposit" =>
              txn[r].item \in Deposits /\ deposit[txn[r].item].status # "NONE"
        /\ txn[r].op \in {"approveWithdrawal", "completeWithdrawal"} =>
              txn[r].item \in Withdrawals /\ withdrawal[txn[r].item].status # "NONE"

\* The number of ledger rows of an item, by its status.
CreditsMatchStatus ==
    /\ \A d \in Deposits : /\ deposit[d].status \in {"NONE", "PENDING"} => credits[d] = 0
                           /\ deposit[d].status = "APPROVED" => credits[d] = 1
                           /\ credits[d] <= 1
    /\ \A w \in Withdrawals :
          /\ withdrawal[w].status \in {"NONE", "PENDING"} => credits[w] = 0
          /\ withdrawal[w].status = "REJECTED" => credits[w] >= 1

Base == TypeOK /\ SnapshotsCurrent /\ OpsOnRows

-----------------------------------------------------------------------------
(* The steps, sorted: requests begin, commit or fail *)

BeginStep(r) ==
    \E u \in Users, i \in Deposits \cup Withdrawals \cup Positions \cup {NoItem},
       a \in Int, p \in Int, op \in {"openPosition", "closePosition", "createWithdrawal",
                                     "adjustWallet", "approveDeposit", "rejectDeposit",
                                     "approveWithdrawal", "completeWithdrawal",
                                     "rejectWithdrawal"} :
        /\ Begin(r, op, u, i, a, p)
        /\ GuardHolds([op |-> op, user |-> u, item |-> i, amount |-> a, pnl |-> p])
        /\ op = "rejectDeposit" => i \in Deposits /\ deposit[i].status # "NONE"
        /\ op \in {"approveWithdrawal", "completeWithdrawal"} =>
              i \in Withdrawals /\ withdrawal[i].status # "NONE"

LEMMA DepositRow ==
    ASSUME TypeOK, NEW d \in Deposits, deposit[d].status # "NONE"
    PROVE  /\ deposit[d].user \in Users /\ deposit[d].amount \in Amounts
           /\ deposit[d] = [status |-> deposit[d].status, user |-> deposit[d].user,
                            amount |-> deposit[d].amount]
BY DEF TypeOK, Row, NoRow

LEMMA WithdrawalRow ==
    ASSUME TypeOK, NEW w \in Withdrawals, withdrawal[w].status # "NONE"
    PROVE  withdrawal[w].user \in Users /\ withdrawal[w].amount \in Amounts
BY DEF TypeOK, Row, NoRow

LEMMA PositionRow ==
    ASSUME TypeOK, NEW p \in Positions, position[p].status # "NONE"
    PROVE  /\ position[p].user \in Users /\ position[p].amount \in Margins
           /\ position[p] = [status |-> position[p].status, user |-> position[p].user,
                             amount |-> position[p].amount]
BY DEF TypeOK, Row, NoRow

LEMMA TradingBegins ==
    ASSUME TypeOK, NEW r \in Requests
    PROVE  /\ \A u \in Users, m \in Margins : beginOpenPosition(r, u, m) => BeginStep(r)
           /\ \A p \in Positions, pnl \in Pnls : beginClosePosition(r, p, pnl) => BeginStep(r)
<1>1. ASSUME NEW u \in Users, NEW m \in Margins, beginOpenPosition(r, u, m)
      PROVE  BeginStep(r)
  BY <1>1, MoneyAssumption DEF beginOpenPosition, BeginStep, GuardHolds
<1>2. ASSUME NEW p \in Positions, NEW pnl \in Pnls, beginClosePosition(r, p, pnl)
      PROVE  BeginStep(r)
  <2>1. position[p].status = "OPEN"
    BY <1>2 DEF beginClosePosition
  <2> DEFINE u == position[p].user
             a == position[p].amount
  <2>2. u \in Users /\ a \in Margins
    BY <2>1, PositionRow
  <2>6. a \in Int /\ pnl \in Int
    BY <2>2, MoneyAssumption
  <2>3. position[p] = [status |-> "OPEN", user |-> u, amount |-> a]
    BY <2>1, PositionRow
  <2>4. Begin(r, "closePosition", u, p, a, pnl)
    BY <1>2 DEF beginClosePosition
  <2>5. GuardHolds([op |-> "closePosition", user |-> u, item |-> p, amount |-> a, pnl |-> pnl])
    BY <2>3 DEF GuardHolds
  <2> HIDE DEF u, a
  <2> QED BY <2>2, <2>4, <2>5, <2>6 DEF BeginStep
<1> QED BY <1>1, <1>2

LEMMA DepositBegins ==
    ASSUME TypeOK, NEW r \in Requests, NEW d \in Deposits
    PROVE  /\ beginApproveDeposit(r, d) => BeginStep(r)
           /\ beginRejectDeposit(r, d) => BeginStep(r)
<1> DEFINE u == deposit[d].user
           a == deposit[d].amount
<1>1. ASSUME deposit[d].status = "PENDING"
      PROVE  u \in Users /\ a \in Amounts
             /\ deposit[d] = [status |-> "PENDING", user |-> u, amount |-> a]
  BY <1>1, DepositRow
<1>2. Amounts \subseteq Int /\ 0 \in Int
  BY MoneyAssumption
<1>3. ASSUME beginApproveDeposit(r, d) PROVE BeginStep(r)
  <2>1. Begin(r, "approveDeposit", u, d, a, 0) /\ deposit[d].status = "PENDING"
    BY <1>3 DEF beginApproveDeposit
  <2>2. GuardHolds([op |-> "approveDeposit", user |-> u, item |-> d, amount |-> a, pnl |-> 0])
    BY <1>1, <2>1 DEF GuardHolds
  <2> HIDE DEF u, a
  <2> QED BY <1>1, <1>2, <2>1, <2>2 DEF BeginStep
<1>4. ASSUME beginRejectDeposit(r, d) PROVE BeginStep(r)
  <2>1. Begin(r, "rejectDeposit", u, d, a, 0) /\ deposit[d].status = "PENDING"
    BY <1>4 DEF beginRejectDeposit
  <2>2. GuardHolds([op |-> "rejectDeposit", user |-> u, item |-> d, amount |-> a, pnl |-> 0])
    BY DEF GuardHolds
  <2> HIDE DEF u, a
  <2> QED BY <1>1, <1>2, <2>1, <2>2 DEF BeginStep
<1> QED BY <1>3, <1>4

LEMMA WithdrawalBegins ==
    ASSUME TypeOK, NEW r \in Requests, NEW w \in Withdrawals, NEW from,
           NEW op \in {"approveWithdrawal", "completeWithdrawal", "rejectWithdrawal"},
           "NONE" \notin from, BeginWithdrawalStep(r, op, w, from),
           op = "rejectWithdrawal" => from = {"PENDING", "APPROVED"}
    PROVE  BeginStep(r)
<1> DEFINE u == withdrawal[w].user
           a == withdrawal[w].amount
<1>1. Begin(r, op, u, w, a, 0) /\ withdrawal[w].status \in from
  BY DEF BeginWithdrawalStep
<1>2. withdrawal[w].status # "NONE" /\ u \in Users /\ a \in Amounts
  BY <1>1, WithdrawalRow
<1>3. Amounts \subseteq Int /\ 0 \in Int
  BY MoneyAssumption
<1>4. GuardHolds([op |-> op, user |-> u, item |-> w, amount |-> a, pnl |-> 0])
  BY <1>1, <1>2 DEF GuardHolds
<1> HIDE DEF u, a
<1> QED BY <1>1, <1>2, <1>3, <1>4 DEF BeginStep

LEMMA WalletBegins ==
    ASSUME TypeOK, NEW r \in Requests, NEW u \in Users, NEW a \in Amounts
    PROVE  /\ beginCreateWithdrawal(r, u, a) => BeginStep(r)
           /\ beginAdjustWallet(r, u, a) => BeginStep(r)
           /\ beginAdjustWallet(r, u, -a) => BeginStep(r)
<1>1. a \in Int /\ -a \in Int /\ 0 \in Int /\ -(-a) = a
  BY MoneyAssumption
<1>2. ASSUME beginCreateWithdrawal(r, u, a) PROVE BeginStep(r)
  BY <1>1, <1>2 DEF beginCreateWithdrawal, BeginStep, GuardHolds
<1>3. ASSUME NEW x \in {a, -a}, beginAdjustWallet(r, u, x) PROVE BeginStep(r)
  <2>1. Begin(r, "adjustWallet", u, NoItem, x, 0) /\ wallet[u].balance + x >= 0
    BY <1>3 DEF beginAdjustWallet
  <2>2. x \in Int /\ (x \in Amounts \/ -x \in Amounts)
    BY <1>1
  <2>3. GuardHolds([op |-> "adjustWallet", user |-> u, item |-> NoItem, amount |-> x, pnl |-> 0])
    BY <2>1, <2>2 DEF GuardHolds
  <2> QED BY <1>1, <2>1, <2>2, <2>3 DEF BeginStep
<1> QED BY <1>2, <1>3

CommitStep(r) ==
    \/ \E p \in Positions : commitOpenPosition(r, p)
    \/ commitClosePosition(r)
    \/ \E w \in Withdrawals : commitCreateWithdrawal(r, w)
    \/ commitAdjustWallet(r)
    \/ commitApproveDeposit(r)
    \/ commitRejectDeposit(r)
    \/ commitApproveWithdrawal(r)
    \/ commitCompleteWithdrawal(r)
    \/ commitRejectWithdrawal(r)

\* Next, sorted.
LEMMA StepKinds ==
    ASSUME TypeOK, Next
    PROVE  \/ \E d \in Deposits, u \in Users, a \in Amounts : createDeposit(d, u, a)
           \/ \E r \in Requests : BeginStep(r) \/ CommitStep(r) \/ Fail(r)
<1>1. ASSUME NEW r \in Requests, Trading(r) PROVE BeginStep(r) \/ CommitStep(r)
  BY <1>1, TradingBegins DEF Trading, CommitStep
<1>2. ASSUME NEW r \in Requests, Depositing(r) PROVE BeginStep(r) \/ CommitStep(r)
  BY <1>2, DepositBegins DEF Depositing, CommitStep
<1>3. ASSUME NEW r \in Requests, Withdrawing(r) PROVE BeginStep(r) \/ CommitStep(r)
  <2>1. ASSUME NEW w \in Withdrawals,
               \/ beginApproveWithdrawal(r, w)
               \/ beginCompleteWithdrawal(r, w)
               \/ beginRejectWithdrawal(r, w)
        PROVE  BeginStep(r)
    BY <2>1, WithdrawalBegins
       DEF beginApproveWithdrawal, beginCompleteWithdrawal, beginRejectWithdrawal
  <2> QED BY <1>3, <2>1, WalletBegins DEF Withdrawing, CommitStep
<1>4. ASSUME NEW r \in Requests, Adjusting(r) PROVE BeginStep(r) \/ CommitStep(r)
  BY <1>4, WalletBegins DEF Adjusting, CommitStep
<1> QED BY <1>1, <1>2, <1>3, <1>4 DEF Next

-----------------------------------------------------------------------------
(* What begin, end and commit do, whatever the handler *)

LEMMA BeginEffect ==
    ASSUME TypeOK, NEW r \in Requests, BeginStep(r)
    PROVE  /\ UNCHANGED rows
           /\ txn'[r] \in Txn
           /\ txn'[r].seen = wallet[txn'[r].user] /\ GuardHolds(txn'[r])
           /\ txn'[r].op = "rejectDeposit" =>
                 txn'[r].item \in Deposits /\ deposit[txn'[r].item].status # "NONE"
           /\ txn'[r].op \in {"approveWithdrawal", "completeWithdrawal"} =>
                 txn'[r].item \in Withdrawals /\ withdrawal[txn'[r].item].status # "NONE"
           /\ txn' = [txn EXCEPT ![r] = txn'[r]]
<1>1. PICK u \in Users, i \in Deposits \cup Withdrawals \cup Positions \cup {NoItem},
           a \in Int, p \in Int, op \in {"openPosition", "closePosition", "createWithdrawal",
                                         "adjustWallet", "approveDeposit", "rejectDeposit",
                                         "approveWithdrawal", "completeWithdrawal",
                                         "rejectWithdrawal"} :
        /\ Begin(r, op, u, i, a, p)
        /\ GuardHolds([op |-> op, user |-> u, item |-> i, amount |-> a, pnl |-> p])
        /\ op = "rejectDeposit" => i \in Deposits /\ deposit[i].status # "NONE"
        /\ op \in {"approveWithdrawal", "completeWithdrawal"} =>
              i \in Withdrawals /\ withdrawal[i].status # "NONE"
  BY DEF BeginStep
<1> DEFINE t == [op |-> op, user |-> u, item |-> i, amount |-> a, pnl |-> p,
                 seen |-> wallet[u], valid |-> TRUE]
<1>2. txn' = [txn EXCEPT ![r] = t] /\ UNCHANGED rows
  BY <1>1 DEF Begin
<1>3. txn'[r] = t
  BY <1>2 DEF TypeOK
<1>4. t \in Txn
  BY DEF TypeOK, Txn
<1>5. GuardHolds(t)
  BY <1>1 DEF GuardHolds
<1>6. GuardHolds(txn'[r])
  BY <1>3, <1>5, Zenon
<1>7. txn'[r].op = op /\ txn'[r].item = i /\ txn'[r].user = u /\ txn'[r].seen = wallet[u]
  BY <1>3
<1>8. txn'[r] \in Txn /\ txn' = [txn EXCEPT ![r] = txn'[r]]
  BY <1>2, <1>3, <1>4
<1> HIDE DEF t
<1> QED BY <1>1, <1>2, <1>6, <1>7, <1>8, Zenon

\* What End leaves of each transaction: nothing, all, or only a hopeless one.
LEMMA EndEffect ==
    ASSUME TypeOK, NEW r \in Requests, NEW W, NoUser \notin W, NoItem \notin W,
           End(r, W), NEW q \in Requests
    PROVE  /\ txn'[q] \in Txn \cup {Idle}
           /\ \/ txn'[q] = Idle
              \/ /\ txn[q] \in Txn /\ txn'[q] = txn[q]
                 /\ txn[q].user \notin W /\ txn[q].item \notin W
              \/ /\ txn[q] \in Txn /\ txn'[q].valid = FALSE
                 /\ txn'[q].op = txn[q].op /\ txn'[q].item = txn[q].item
<1>1. CASE q = r
  BY <1>1 DEF End
<1>2. CASE q # r /\ {txn[q].user, txn[q].item} \cap W = {}
  BY <1>2 DEF End, TypeOK
<1>3. CASE q # r /\ {txn[q].user, txn[q].item} \cap W # {}
  <2>1. txn'[q] = [txn[q] EXCEPT !.valid = FALSE]
    BY <1>3 DEF End
  <2>2. txn[q] # Idle
    BY <1>3 DEF Idle
  <2>3. CASE txn[q] \in Txn
    BY <2>1, <2>3 DEF Txn
  <2> QED BY <2>2, <2>3 DEF TypeOK
<1> QED BY <1>1, <1>2, <1>3

LEMMA TxnOfOp ==
    ASSUME TypeOK, NEW r \in Requests, txn[r].op # "none"
    PROVE  /\ txn[r] \in Txn
           /\ txn[r].user \in Users /\ txn[r].user # NoUser /\ txn[r].user # NoItem
           /\ txn[r].amount \in Int /\ txn[r].pnl \in Int
BY IdAssumption DEF TypeOK, Txn, Idle

LEMMA ItemIds == \A i \in Deposits \cup Withdrawals \cup Positions : i # NoItem /\ i # NoUser
BY IdAssumption

\* A Serializable commit acts on the rows as they are.
LEMMA SerializableCommit ==
    ASSUME Base, NEW r \in Requests, NEW op \in SerializableOps, MayCommit(r, op)
    PROVE  /\ txn[r] \in Txn /\ txn[r].op = op
           /\ txn[r].user \in Users /\ txn[r].user # NoUser /\ txn[r].user # NoItem
           /\ txn[r].amount \in Int /\ txn[r].pnl \in Int
           /\ txn[r].seen = wallet[txn[r].user]
           /\ GuardHolds(txn[r])
<1>1. txn[r].op = op /\ txn[r].valid /\ op # "none"
  BY DEF MayCommit, SerializableOps
<1> QED BY <1>1, TxnOfOp DEF Base, SnapshotsCurrent

\* Snapshots stay current over a step that ends r and declares what it writes.
LEMMA SnapshotsKept ==
    ASSUME Base, NEW r \in Requests, NEW W, NoUser \notin W, NoItem \notin W, End(r, W),
           \A u \in Users : u \in W \/ wallet'[u] = wallet[u],
           \A d \in Deposits : d \in W \/ deposit'[d] = deposit[d],
           \A w \in Withdrawals : \/ w \in W \/ withdrawal'[w] = withdrawal[w]
                                 \/ withdrawal[w].status = "NONE",
           \A p \in Positions : \/ p \in W \/ position'[p] = position[p]
                               \/ position[p].status = "NONE",
           \A d \in Deposits : deposit[d].status # "NONE" => deposit'[d].status # "NONE",
           \A w \in Withdrawals : withdrawal[w].status # "NONE" => withdrawal'[w].status # "NONE"
    PROVE  SnapshotsCurrent' /\ OpsOnRows'
<1>0. ASSUME NEW q \in Requests
      PROVE  \/ txn'[q] = Idle
             \/ /\ txn[q] \in Txn /\ txn'[q] = txn[q]
                /\ txn[q].user \notin W /\ txn[q].item \notin W
             \/ /\ txn'[q].valid = FALSE
                /\ txn'[q].op = txn[q].op /\ txn'[q].item = txn[q].item
  BY <1>0, EndEffect DEF Base
<1>1. ASSUME NEW q \in Requests, (txn[q].op \in SerializableOps)', txn'[q].valid
      PROVE  (txn[q].seen = wallet[txn[q].user] /\ GuardHolds(txn[q]))'
  <2>1. /\ txn[q] \in Txn /\ txn'[q] = txn[q]
        /\ txn[q].user \notin W /\ txn[q].item \notin W
    <3>1. (txn[q].op)' # "none"
      BY <1>1 DEF SerializableOps
    <3>2. txn'[q] # Idle
      BY <3>1 DEF Idle
    <3>3. txn'[q].valid # FALSE
      BY <1>1, Zenon
    <3> QED BY <1>0, <3>2, <3>3
  <2>2. txn[q].seen = wallet[txn[q].user] /\ GuardHolds(txn[q])
    BY <1>1, <2>1 DEF Base, SnapshotsCurrent, SerializableOps
  <2>3. txn[q].user \in Users /\ wallet'[txn[q].user] = wallet[txn[q].user]
    BY <2>1 DEF Txn
  <2>4. GuardHolds(txn[q])'
    BY <2>1, <2>2, <2>3 DEF GuardHolds, Free
  <2> QED BY <2>1, <2>2, <2>3, <2>4
<1>2. ASSUME NEW q \in Requests
      PROVE  /\ txn'[q].op = "rejectDeposit" =>
                   txn'[q].item \in Deposits /\ deposit'[txn'[q].item].status # "NONE"
             /\ txn'[q].op \in {"approveWithdrawal", "completeWithdrawal"} =>
                   txn'[q].item \in Withdrawals /\ withdrawal'[txn'[q].item].status # "NONE"
  <2>1. txn'[q] = Idle \/ (txn'[q].op = txn[q].op /\ txn'[q].item = txn[q].item)
    BY <1>0
  <2>2. Idle.op = "none"
    BY DEF Idle
  <2> QED BY <2>1, <2>2 DEF Base, OpsOnRows
<1> QED BY <1>1, <1>2 DEF SnapshotsCurrent, OpsOnRows

-----------------------------------------------------------------------------
(* The base of the invariant is inductive: one lemma per kind of step *)

LEMMA EndTyped ==
    ASSUME TypeOK, NEW r \in Requests, NEW W, NoUser \notin W, NoItem \notin W, End(r, W)
    PROVE  txn' \in [Requests -> Txn \cup {Idle}]
<1>1. \A q \in Requests : txn'[q] \in Txn \cup {Idle}
  BY EndEffect
<1> QED BY <1>1 DEF End

LEMMA PostTyped ==
    ASSUME TypeOK, NEW u \in Users, NEW cash \in Int, NEW held \in Int, NEW b \in Money,
           Post(u, cash, held, b)
    PROVE  /\ ledger' \in [Users -> [cash : Int, held : Int, last : Money]]
           /\ \A v \in Users \ {u} : ledger'[v] = ledger[v]
           /\ ledger'[u] = [cash |-> ledger[u].cash + cash, held |-> ledger[u].held + held,
                            last |-> b]
<1>1. ledger \in [Users -> [cash : Int, held : Int, last : Money]]
  BY DEF TypeOK
<1>2. [cash |-> ledger[u].cash + cash, held |-> ledger[u].held + held, last |-> b]
        \in [cash : Int, held : Int, last : Money]
  BY <1>1
<1>3. ledger' = [ledger EXCEPT ![u] = [cash |-> ledger[u].cash + cash,
                                      held |-> ledger[u].held + held, last |-> b]]
  BY DEF Post
<1> QED BY <1>1, <1>2, <1>3

LEMMA PostCashTyped ==
    ASSUME TypeOK, NEW u \in Users, NEW a \in Int, NEW b, PostCash(u, a, b)
    PROVE  /\ wallet' \in [Users -> [balance : Money, margin : Money]]
           /\ ledger' \in [Users -> [cash : Int, held : Int, last : Money]]
           /\ \A v \in Users \ {u} : wallet'[v] = wallet[v] /\ ledger'[v] = ledger[v]
           /\ wallet'[u] = [balance |-> b, margin |-> wallet[u].margin]
           /\ ledger'[u] = [cash |-> ledger[u].cash + a, held |-> ledger[u].held, last |-> b]
<1>1. /\ wallet \in [Users -> [balance : Money, margin : Money]]
      /\ ledger \in [Users -> [cash : Int, held : Int, last : Money]]
  BY DEF TypeOK
<1>2. wallet' = [wallet EXCEPT ![u].balance = b] /\ b \in Money /\ Post(u, a, 0, b)
  BY DEF PostCash, Fits
<1>3. wallet' \in [Users -> [balance : Money, margin : Money]]
  BY <1>1, <1>2
<1>4. wallet'[u] = [balance |-> b, margin |-> wallet[u].margin]
  BY <1>1, <1>2
<1>5. \A v \in Users \ {u} : wallet'[v] = wallet[v]
  BY <1>1, <1>2
<1>6. /\ ledger' \in [Users -> [cash : Int, held : Int, last : Money]]
      /\ \A v \in Users \ {u} : ledger'[v] = ledger[v]
      /\ ledger'[u] = [cash |-> ledger[u].cash + a, held |-> ledger[u].held + 0, last |-> b]
  BY <1>2, PostTyped
<1>7. ledger[u].held + 0 = ledger[u].held
  BY <1>1
<1> QED BY <1>3, <1>4, <1>5, <1>6, <1>7

LEMMA OpenBase ==
    ASSUME Base, NEW r \in Requests, NEW p \in Positions, commitOpenPosition(r, p)
    PROVE  Base'
<1> DEFINE t == txn[r]
<1>1. MayCommit(r, "openPosition") /\ End(r, {t.user})
  BY DEF commitOpenPosition
<1>2. /\ t \in Txn /\ t.op = "openPosition" /\ t.user \in Users /\ t.user # NoUser
      /\ t.user # NoItem /\ t.seen = wallet[t.user] /\ t.amount \in Margins
  BY <1>1, SerializableCommit DEF SerializableOps, GuardHolds
<1>3. /\ wallet' = [wallet EXCEPT ![t.user].margin = t.seen.margin + t.amount]
      /\ Post(t.user, 0, t.amount, t.seen.balance)
      /\ position' = [position EXCEPT ![p] = [status |-> "OPEN", user |-> t.user,
                                              amount |-> t.amount]]
      /\ Fits(t.seen.margin + t.amount) /\ position[p].status = "NONE"
      /\ UNCHANGED <<deposit, withdrawal, credits>>
  BY DEF commitOpenPosition, NoRow
<1>4. txn' \in [Requests -> Txn \cup {Idle}]
  BY <1>1, <1>2, EndTyped DEF Base
<1>5. wallet' \in [Users -> [balance : Money, margin : Money]]
  BY <1>2, <1>3 DEF Base, TypeOK, Fits
<1>6. ledger' \in [Users -> [cash : Int, held : Int, last : Money]]
  <2>1. 0 \in Int /\ t.amount \in Int /\ t.seen.balance \in Money
    BY <1>2, MoneyAssumption DEF Txn
  <2> QED BY <1>2, <1>3, <2>1, PostTyped DEF Base
<1>7. position' \in [Positions -> Row({"OPEN", "CLOSED"}, Users, Margins) \cup {NoRow}]
  BY <1>2, <1>3 DEF Base, TypeOK, Row
<1>8. TypeOK'
  BY <1>3, <1>4, <1>5, <1>6, <1>7 DEF Base, TypeOK
<1>9. \A u \in Users : u \in {t.user} \/ wallet'[u] = wallet[u]
  BY <1>2, <1>3 DEF Base, TypeOK
<1>10. \A q \in Positions : \/ q \in {t.user} \/ position'[q] = position[q]
                            \/ position[q].status = "NONE"
  BY <1>3 DEF Base, TypeOK
<1>11. SnapshotsCurrent' /\ OpsOnRows'
  <2> HIDE DEF t
  <2> QED BY <1>1, <1>2, <1>3, <1>9, <1>10, SnapshotsKept
<1> QED BY <1>8, <1>11 DEF Base

LEMMA CloseBase ==
    ASSUME Base, NEW r \in Requests, commitClosePosition(r)
    PROVE  Base'
<1> DEFINE t == txn[r]
           newBalance == t.seen.balance + t.pnl
           newMargin == t.seen.margin - t.amount
<1>1. MayCommit(r, "closePosition") /\ End(r, {t.user, t.item})
  BY DEF commitClosePosition
<1>2. /\ t \in Txn /\ t.op = "closePosition" /\ t.user \in Users /\ t.user # NoUser
      /\ t.user # NoItem /\ t.seen = wallet[t.user] /\ t.item \in Positions
      /\ position[t.item] = [status |-> "OPEN", user |-> t.user, amount |-> t.amount]
      /\ t.pnl \in Int /\ t.amount \in Int
  BY <1>1, SerializableCommit DEF SerializableOps, GuardHolds
<1>3. /\ wallet' = [wallet EXCEPT ![t.user] = [balance |-> newBalance, margin |-> newMargin]]
      /\ Post(t.user, t.pnl, -t.amount, newBalance)
      /\ position' = [position EXCEPT ![t.item].status = "CLOSED"]
      /\ newBalance \in Money /\ newMargin \in Money
      /\ UNCHANGED <<deposit, withdrawal, credits>>
  BY DEF commitClosePosition, Fits
<1>4. txn' \in [Requests -> Txn \cup {Idle}]
  BY <1>1, <1>2, EndTyped, ItemIds DEF Base
<1>5. wallet' \in [Users -> [balance : Money, margin : Money]]
  BY <1>2, <1>3 DEF Base, TypeOK
<1>6. ledger' \in [Users -> [cash : Int, held : Int, last : Money]]
  <2>1. -t.amount \in Int
    BY <1>2
  <2> QED BY <1>2, <1>3, <2>1, PostTyped DEF Base
<1>7. position' \in [Positions -> Row({"OPEN", "CLOSED"}, Users, Margins) \cup {NoRow}]
  <2>1. position'[t.item] = [status |-> "CLOSED", user |-> t.user, amount |-> t.amount]
    BY <1>2, <1>3 DEF Base, TypeOK
  <2>2. t.amount \in Margins
    BY <1>2, PositionRow DEF Base
  <2> QED BY <1>2, <1>3, <2>1, <2>2 DEF Base, TypeOK, Row
<1>8. TypeOK'
  BY <1>3, <1>4, <1>5, <1>6, <1>7 DEF Base, TypeOK
<1>9. \A u \in Users : u \in {t.user, t.item} \/ wallet'[u] = wallet[u]
  BY <1>2, <1>3 DEF Base, TypeOK
<1>10. \A p \in Positions : p \in {t.user, t.item} \/ position'[p] = position[p]
  BY <1>3 DEF Base, TypeOK
<1>11. SnapshotsCurrent' /\ OpsOnRows'
  <2> HIDE DEF t, newBalance, newMargin
  <2> QED BY <1>1, <1>2, <1>3, <1>9, <1>10, ItemIds, SnapshotsKept DEF t
<1> QED BY <1>8, <1>11 DEF Base

\* The transactions that post one cash row, with what they do to the item rows.
LEMMA CashBase ==
    ASSUME Base, NEW r \in Requests, NEW op \in SerializableOps, MayCommit(r, op),
           NEW x \in Int, NEW b, PostCash(txn[r].user, x, b),
           NEW W, NoUser \notin W, NoItem \notin W, txn[r].user \in W, End(r, W),
           deposit' \in [Deposits ->
               Row({"PENDING", "APPROVED", "REJECTED"}, Users, Amounts) \cup {NoRow}],
           withdrawal' \in [Withdrawals ->
               Row({"PENDING", "APPROVED", "COMPLETED", "REJECTED"}, Users, Amounts) \cup {NoRow}],
           credits' \in [Deposits \cup Withdrawals -> Nat],
           \A d \in Deposits : d \in W \/ deposit'[d] = deposit[d],
           \A w \in Withdrawals : \/ w \in W \/ withdrawal'[w] = withdrawal[w]
                                 \/ withdrawal[w].status = "NONE",
           \A d \in Deposits : deposit[d].status # "NONE" => deposit'[d].status # "NONE",
           \A w \in Withdrawals :
               withdrawal[w].status # "NONE" => withdrawal'[w].status # "NONE",
           UNCHANGED position
    PROVE  Base'
<1>1. txn[r].user \in Users
  BY SerializableCommit
<1>2. /\ wallet' \in [Users -> [balance : Money, margin : Money]]
      /\ ledger' \in [Users -> [cash : Int, held : Int, last : Money]]
      /\ \A v \in Users \ {txn[r].user} : wallet'[v] = wallet[v] /\ ledger'[v] = ledger[v]
  BY <1>1, PostCashTyped DEF Base
<1>3. txn' \in [Requests -> Txn \cup {Idle}]
  BY EndTyped DEF Base
<1>4. TypeOK'
  BY <1>2, <1>3 DEF Base, TypeOK
<1>5. \A u \in Users : u \in W \/ wallet'[u] = wallet[u]
  BY <1>2
<1>6. \A p \in Positions : position'[p] = position[p]
  OBVIOUS
<1>7. SnapshotsCurrent' /\ OpsOnRows'
  BY <1>5, <1>6, SnapshotsKept
<1> QED BY <1>4, <1>7 DEF Base

LEMMA WithdrawBase ==
    ASSUME Base, NEW r \in Requests, NEW w \in Withdrawals, commitCreateWithdrawal(r, w)
    PROVE  Base'
<1> DEFINE t == txn[r]
<1>1. /\ MayCommit(r, "createWithdrawal") /\ End(r, {t.user})
      /\ PostCash(t.user, -t.amount, t.seen.balance - t.amount)
      /\ withdrawal[w].status = "NONE"
      /\ withdrawal' = [withdrawal EXCEPT ![w] = [status |-> "PENDING", user |-> t.user,
                                                  amount |-> t.amount]]
      /\ UNCHANGED <<deposit, position, credits>>
  BY DEF commitCreateWithdrawal, NoRow
<1>2. /\ t.user \in Users /\ t.user # NoUser /\ t.user # NoItem
      /\ t.amount \in Amounts /\ -t.amount \in Int
  <2>1. /\ t.user \in Users /\ t.user # NoUser /\ t.user # NoItem
        /\ t.amount \in Amounts /\ t.amount \in Int
    BY <1>1, SerializableCommit DEF SerializableOps, GuardHolds
  <2>2. -t.amount \in Int
    BY <2>1
  <2> QED BY <2>1, <2>2
<1>3. withdrawal' \in [Withdrawals ->
          Row({"PENDING", "APPROVED", "COMPLETED", "REJECTED"}, Users, Amounts) \cup {NoRow}]
  BY <1>1, <1>2 DEF Base, TypeOK, Row
<1>4. \A v \in Withdrawals : /\ v = w \/ withdrawal'[v] = withdrawal[v]
                             /\ withdrawal[v].status # "NONE" => withdrawal'[v].status # "NONE"
  BY <1>1 DEF Base, TypeOK
<1>5. /\ deposit' \in [Deposits ->
               Row({"PENDING", "APPROVED", "REJECTED"}, Users, Amounts) \cup {NoRow}]
      /\ credits' \in [Deposits \cup Withdrawals -> Nat]
  BY <1>1 DEF Base, TypeOK
<1> HIDE DEF t
<1> QED BY <1>1, <1>2, <1>3, <1>4, <1>5, CashBase DEF SerializableOps, t

LEMMA AdjustBase ==
    ASSUME Base, NEW r \in Requests, commitAdjustWallet(r)
    PROVE  Base'
<1> DEFINE t == txn[r]
<1>1. /\ MayCommit(r, "adjustWallet") /\ End(r, {t.user})
      /\ PostCash(t.user, t.amount, t.seen.balance + t.amount)
      /\ UNCHANGED <<deposit, withdrawal, position, credits>>
  BY DEF commitAdjustWallet
<1>2. t.user \in Users /\ t.user # NoUser /\ t.user # NoItem /\ t.amount \in Int
  BY <1>1, SerializableCommit DEF SerializableOps
<1>3. /\ deposit' \in [Deposits ->
               Row({"PENDING", "APPROVED", "REJECTED"}, Users, Amounts) \cup {NoRow}]
      /\ withdrawal' \in [Withdrawals ->
               Row({"PENDING", "APPROVED", "COMPLETED", "REJECTED"}, Users, Amounts) \cup {NoRow}]
      /\ credits' \in [Deposits \cup Withdrawals -> Nat]
  BY <1>1 DEF Base, TypeOK
<1> HIDE DEF t
<1> QED BY <1>1, <1>2, <1>3, CashBase DEF SerializableOps, t

\* The status of a row that exists changes; user and amount do not.
LEMMA DepositStatus ==
    ASSUME TypeOK, NEW d \in Deposits, deposit[d].status # "NONE",
           NEW s \in {"APPROVED", "REJECTED"},
           deposit' = [deposit EXCEPT ![d].status = s]
    PROVE  /\ deposit' \in [Deposits ->
                  Row({"PENDING", "APPROVED", "REJECTED"}, Users, Amounts) \cup {NoRow}]
           /\ \A e \in Deposits : e = d \/ deposit'[e] = deposit[e]
           /\ deposit'[d].status = s
<1>1. deposit'[d] = [status |-> s, user |-> deposit[d].user, amount |-> deposit[d].amount]
  <2>1. deposit[d] \in Row({"PENDING", "APPROVED", "REJECTED"}, Users, Amounts)
    BY DEF TypeOK, NoRow
  <2> QED BY <2>1 DEF TypeOK, Row
<1>2. deposit'[d] \in Row({"PENDING", "APPROVED", "REJECTED"}, Users, Amounts)
  <2>1. deposit[d].user \in Users /\ deposit[d].amount \in Amounts
    BY DepositRow
  <2> QED BY <1>1, <2>1 DEF Row
<1>3. \A e \in Deposits : e = d \/ deposit'[e] = deposit[e]
  BY DEF TypeOK
<1>4. deposit' = [e \in Deposits |-> deposit'[e]]
  BY DEF TypeOK
<1> QED BY <1>1, <1>2, <1>3, <1>4 DEF TypeOK

LEMMA WithdrawalStatus ==
    ASSUME TypeOK, NEW w \in Withdrawals, withdrawal[w].status # "NONE",
           NEW s \in {"APPROVED", "COMPLETED", "REJECTED"},
           withdrawal' = [withdrawal EXCEPT ![w].status = s]
    PROVE  /\ withdrawal' \in [Withdrawals ->
                Row({"PENDING", "APPROVED", "COMPLETED", "REJECTED"}, Users, Amounts) \cup {NoRow}]
           /\ \A v \in Withdrawals : v = w \/ withdrawal'[v] = withdrawal[v]
           /\ withdrawal'[w].status = s
<1>1. withdrawal'[w] = [status |-> s, user |-> withdrawal[w].user, amount |-> withdrawal[w].amount]
  <2>1. withdrawal[w] \in
            Row({"PENDING", "APPROVED", "COMPLETED", "REJECTED"}, Users, Amounts)
    BY DEF TypeOK, NoRow
  <2> QED BY <2>1 DEF TypeOK, Row
<1>2. withdrawal'[w] \in Row({"PENDING", "APPROVED", "COMPLETED", "REJECTED"}, Users, Amounts)
  <2>1. withdrawal[w].user \in Users /\ withdrawal[w].amount \in Amounts
    BY WithdrawalRow
  <2> QED BY <1>1, <2>1 DEF Row
<1>3. \A v \in Withdrawals : v = w \/ withdrawal'[v] = withdrawal[v]
  BY DEF TypeOK
<1>4. withdrawal' = [v \in Withdrawals |-> withdrawal'[v]]
  BY DEF TypeOK
<1> QED BY <1>1, <1>2, <1>3, <1>4 DEF TypeOK

LEMMA CreditTyped ==
    ASSUME TypeOK, NEW i \in Deposits \cup Withdrawals,
           credits' = [credits EXCEPT ![i] = @ + 1]
    PROVE  /\ credits' \in [Deposits \cup Withdrawals -> Nat]
           /\ credits'[i] = credits[i] + 1
           /\ \A j \in Deposits \cup Withdrawals : j = i \/ credits'[j] = credits[j]
BY DEF TypeOK

LEMMA ApproveDepositBase ==
    ASSUME Base, NEW r \in Requests, commitApproveDeposit(r)
    PROVE  Base'
<1> DEFINE t == txn[r]
<1>1. /\ MayCommit(r, "approveDeposit") /\ End(r, {t.user, t.item})
      /\ PostCash(t.user, t.amount, t.seen.balance + t.amount)
      /\ credits' = [credits EXCEPT ![t.item] = @ + 1]
      /\ deposit' = [deposit EXCEPT ![t.item].status = "APPROVED"]
      /\ UNCHANGED <<withdrawal, position>>
  BY DEF commitApproveDeposit
<1>2. /\ t.user \in Users /\ t.user # NoUser /\ t.user # NoItem /\ t.amount \in Int
      /\ t.item \in Deposits /\ deposit[t.item].status # "NONE"
  <2>1. /\ t.user \in Users /\ t.user # NoUser /\ t.user # NoItem /\ t.amount \in Int
        /\ t.item \in Deposits
        /\ deposit[t.item] = [status |-> "PENDING", user |-> t.user, amount |-> t.amount]
    BY <1>1, SerializableCommit DEF SerializableOps, GuardHolds
  <2> QED BY <2>1
<1>3. /\ deposit' \in [Deposits ->
               Row({"PENDING", "APPROVED", "REJECTED"}, Users, Amounts) \cup {NoRow}]
      /\ \A e \in Deposits : e = t.item \/ deposit'[e] = deposit[e]
      /\ deposit'[t.item].status # "NONE"
  BY <1>1, <1>2, DepositStatus DEF Base
<1>7. /\ \A d \in Deposits : d \in {t.user, t.item} \/ deposit'[d] = deposit[d]
      /\ \A d \in Deposits : deposit[d].status # "NONE" => deposit'[d].status # "NONE"
  BY <1>3
<1>4. credits' \in [Deposits \cup Withdrawals -> Nat]
  BY <1>1, <1>2, CreditTyped DEF Base
<1>5. withdrawal' \in [Withdrawals ->
          Row({"PENDING", "APPROVED", "COMPLETED", "REJECTED"}, Users, Amounts) \cup {NoRow}]
  BY <1>1 DEF Base, TypeOK
<1>6. t.item # NoItem /\ t.item # NoUser
  BY <1>2, ItemIds
<1>8. t.user \in {t.user, t.item} /\ NoUser \notin {t.user, t.item} /\ NoItem \notin {t.user, t.item}
  BY <1>2, <1>6
<1>9. "approveDeposit" \in SerializableOps /\ "rejectWithdrawal" \in SerializableOps
  BY DEF SerializableOps
<1> QED BY <1>1, <1>2, <1>3, <1>4, <1>5, <1>7, <1>8, <1>9, CashBase

LEMMA RejectWithdrawalBase ==
    ASSUME Base, NEW r \in Requests, commitRejectWithdrawal(r)
    PROVE  Base'
<1> DEFINE t == txn[r]
<1>1. /\ MayCommit(r, "rejectWithdrawal") /\ End(r, {t.user, t.item})
      /\ PostCash(t.user, t.amount, t.seen.balance + t.amount)
      /\ credits' = [credits EXCEPT ![t.item] = @ + 1]
      /\ withdrawal' = [withdrawal EXCEPT ![t.item].status = "REJECTED"]
      /\ UNCHANGED <<deposit, position>>
  BY DEF commitRejectWithdrawal
<1>2. /\ t.user \in Users /\ t.user # NoUser /\ t.user # NoItem /\ t.amount \in Int
      /\ t.item \in Withdrawals /\ withdrawal[t.item].status # "NONE"
  BY <1>1, SerializableCommit DEF SerializableOps, GuardHolds
<1>3. /\ withdrawal' \in [Withdrawals ->
               Row({"PENDING", "APPROVED", "COMPLETED", "REJECTED"}, Users, Amounts) \cup {NoRow}]
      /\ \A v \in Withdrawals : v = t.item \/ withdrawal'[v] = withdrawal[v]
      /\ withdrawal'[t.item].status # "NONE"
  BY <1>1, <1>2, WithdrawalStatus DEF Base
<1>7. /\ \A v \in Withdrawals : v \in {t.user, t.item} \/ withdrawal'[v] = withdrawal[v]
      /\ \A v \in Withdrawals : withdrawal[v].status # "NONE" => withdrawal'[v].status # "NONE"
  BY <1>3
<1>4. credits' \in [Deposits \cup Withdrawals -> Nat]
  BY <1>1, <1>2, CreditTyped DEF Base
<1>5. deposit' \in [Deposits ->
          Row({"PENDING", "APPROVED", "REJECTED"}, Users, Amounts) \cup {NoRow}]
  BY <1>1 DEF Base, TypeOK
<1>6. t.item # NoItem /\ t.item # NoUser
  BY <1>2, ItemIds
<1>8. t.user \in {t.user, t.item} /\ NoUser \notin {t.user, t.item} /\ NoItem \notin {t.user, t.item}
  BY <1>2, <1>6
<1>9. "approveDeposit" \in SerializableOps /\ "rejectWithdrawal" \in SerializableOps
  BY DEF SerializableOps
<1> QED BY <1>1, <1>2, <1>3, <1>4, <1>5, <1>7, <1>8, <1>9, CashBase

\* The READ COMMITTED transactions know only that their row exists.
LEMMA RejectDepositBase ==
    ASSUME Base, NEW r \in Requests, commitRejectDeposit(r)
    PROVE  Base'
<1> DEFINE i == txn[r].item
<1>1. /\ txn[r].op = "rejectDeposit" /\ End(r, {i})
      /\ deposit' = [deposit EXCEPT ![i].status = "REJECTED"]
      /\ UNCHANGED <<wallet, ledger, withdrawal, position, credits>>
  BY DEF commitRejectDeposit, MayCommit
<1>2. i \in Deposits /\ deposit[i].status # "NONE" /\ i # NoItem /\ i # NoUser
  BY <1>1, ItemIds DEF Base, OpsOnRows
<1>3. /\ deposit' \in [Deposits ->
               Row({"PENDING", "APPROVED", "REJECTED"}, Users, Amounts) \cup {NoRow}]
      /\ \A e \in Deposits : e = i \/ deposit'[e] = deposit[e]
      /\ deposit'[i].status # "NONE"
  BY <1>1, <1>2, DepositStatus DEF Base
<1>4. txn' \in [Requests -> Txn \cup {Idle}]
  BY <1>1, <1>2, EndTyped DEF Base
<1>5. TypeOK'
  BY <1>1, <1>3, <1>4 DEF Base, TypeOK
<1>6. SnapshotsCurrent' /\ OpsOnRows'
  <2> HIDE DEF i
  <2> QED BY <1>1, <1>2, <1>3, SnapshotsKept
<1> QED BY <1>5, <1>6 DEF Base

LEMMA WithdrawalReviewBase ==
    ASSUME Base, NEW r \in Requests, commitApproveWithdrawal(r) \/ commitCompleteWithdrawal(r)
    PROVE  Base'
<1> DEFINE i == txn[r].item
<1>1. PICK s \in {"APPROVED", "COMPLETED"} : withdrawal' = [withdrawal EXCEPT ![i].status = s]
  BY DEF commitApproveWithdrawal, commitCompleteWithdrawal
<1>2. /\ txn[r].op \in {"approveWithdrawal", "completeWithdrawal"} /\ End(r, {i})
      /\ UNCHANGED <<wallet, ledger, deposit, position, credits>>
  BY DEF commitApproveWithdrawal, commitCompleteWithdrawal, MayCommit
<1>3. i \in Withdrawals /\ withdrawal[i].status # "NONE" /\ i # NoItem /\ i # NoUser
  BY <1>2, ItemIds DEF Base, OpsOnRows
<1>4. /\ withdrawal' \in [Withdrawals ->
               Row({"PENDING", "APPROVED", "COMPLETED", "REJECTED"}, Users, Amounts) \cup {NoRow}]
      /\ \A v \in Withdrawals : v = i \/ withdrawal'[v] = withdrawal[v]
      /\ withdrawal'[i].status # "NONE"
  BY <1>1, <1>3, WithdrawalStatus DEF Base
<1>5. txn' \in [Requests -> Txn \cup {Idle}]
  BY <1>2, <1>3, EndTyped DEF Base
<1>6. TypeOK'
  BY <1>2, <1>4, <1>5 DEF Base, TypeOK
<1>7. SnapshotsCurrent' /\ OpsOnRows'
  <2> HIDE DEF i
  <2> QED BY <1>2, <1>3, <1>4, SnapshotsKept
<1> QED BY <1>6, <1>7 DEF Base

LEMMA CreateDepositBase ==
    ASSUME Base, NEW d \in Deposits, NEW u \in Users, NEW a \in Amounts, createDeposit(d, u, a)
    PROVE  Base'
<1>1. /\ deposit' = [deposit EXCEPT ![d] = [status |-> "PENDING", user |-> u, amount |-> a]]
      /\ deposit[d].status = "NONE"
      /\ UNCHANGED <<wallet, ledger, withdrawal, position, credits, txn>>
  BY DEF createDeposit, NoRow
<1>2. deposit' \in [Deposits ->
          Row({"PENDING", "APPROVED", "REJECTED"}, Users, Amounts) \cup {NoRow}]
  BY <1>1 DEF Base, TypeOK, Row
<1>3. TypeOK'
  BY <1>1, <1>2 DEF Base, TypeOK
<1>4. \A e \in Deposits : deposit[e].status # "NONE" => deposit'[e] = deposit[e]
  BY <1>1 DEF Base, TypeOK
<1>5. ASSUME NEW q \in Requests, txn[q].op \in SerializableOps, txn[q].valid
      PROVE  txn[q].seen = wallet'[txn[q].user] /\ GuardHolds(txn[q])'
  <2>1. txn[q].seen = wallet[txn[q].user] /\ GuardHolds(txn[q])
    BY <1>5 DEF Base, SnapshotsCurrent
  <2>2. txn[q].op = "approveDeposit" => deposit'[txn[q].item] = deposit[txn[q].item]
    BY <2>1, <1>4 DEF GuardHolds
  <2> QED BY <1>1, <2>1, <2>2 DEF GuardHolds, Free
<1>6. SnapshotsCurrent'
  BY <1>1, <1>5 DEF SnapshotsCurrent
<1>7. OpsOnRows'
  BY <1>1, <1>4 DEF Base, OpsOnRows
<1> QED BY <1>3, <1>6, <1>7 DEF Base

LEMMA BeginBase ==
    ASSUME Base, NEW r \in Requests, BeginStep(r)
    PROVE  Base'
<1>1. /\ UNCHANGED rows /\ txn'[r] \in Txn
      /\ txn'[r].seen = wallet[txn'[r].user]
      /\ txn'[r].op = "rejectDeposit" =>
            txn'[r].item \in Deposits /\ deposit[txn'[r].item].status # "NONE"
      /\ txn'[r].op \in {"approveWithdrawal", "completeWithdrawal"} =>
            txn'[r].item \in Withdrawals /\ withdrawal[txn'[r].item].status # "NONE"
      /\ txn' = [txn EXCEPT ![r] = txn'[r]]
  BY BeginEffect DEF Base
<1>2. GuardHolds(txn'[r])
  BY BeginEffect DEF Base
<1>3. UNCHANGED <<wallet, ledger, deposit, withdrawal, position, credits>>
  BY <1>1 DEF rows
<1>4. \A q \in Requests : q # r => txn'[q] = txn[q]
  BY <1>1 DEF Base, TypeOK
<1>5. TypeOK'
  BY <1>1, <1>3 DEF Base, TypeOK
<1>6. ASSUME NEW q \in Requests, (txn[q].op \in SerializableOps)', txn'[q].valid
      PROVE  txn'[q].seen = wallet'[txn'[q].user] /\ GuardHolds(txn[q])'
  <2>1. CASE q = r
    <3>1. GuardHolds(txn[q])'
      BY <1>2, <1>3, <2>1 DEF GuardHolds, Free
    <3> QED BY <1>1, <1>3, <2>1, <3>1
  <2>2. CASE q # r
    <3>1. txn'[q] = txn[q]
      BY <1>4, <2>2
    <3>2. txn[q].seen = wallet[txn[q].user] /\ GuardHolds(txn[q])
      BY <1>6, <3>1 DEF Base, SnapshotsCurrent, SerializableOps
    <3>3. GuardHolds(txn[q])'
      BY <1>3, <3>1, <3>2 DEF GuardHolds, Free
    <3> QED BY <1>3, <3>1, <3>2, <3>3
  <2> QED BY <2>1, <2>2
<1>7. SnapshotsCurrent'
  BY <1>6 DEF SnapshotsCurrent
<1>8. OpsOnRows'
  BY <1>1, <1>3, <1>4 DEF Base, OpsOnRows
<1> QED BY <1>5, <1>7, <1>8 DEF Base

LEMMA FailBase ==
    ASSUME Base, NEW r \in Requests, Fail(r)
    PROVE  Base'
<1>1. End(r, {}) /\ UNCHANGED <<wallet, ledger, deposit, withdrawal, position, credits>>
  BY DEF Fail, rows
<1>2. TypeOK'
  BY <1>1, EndTyped DEF Base, TypeOK
<1>3. SnapshotsCurrent' /\ OpsOnRows'
  BY <1>1, SnapshotsKept
<1> QED BY <1>2, <1>3 DEF Base

LEMMA BaseStep == Base /\ [Next]_vars => Base'
<1> SUFFICES ASSUME Base, [Next]_vars PROVE Base'
  OBVIOUS
<1>1. ASSUME NEW r \in Requests, CommitStep(r) PROVE Base'
  BY <1>1, OpenBase, CloseBase, WithdrawBase, AdjustBase, ApproveDepositBase,
     RejectDepositBase, WithdrawalReviewBase, RejectWithdrawalBase DEF CommitStep
<1>2. CASE Next
  BY <1>1, <1>2, StepKinds, CreateDepositBase, BeginBase, FailBase DEF Base
<1>3. CASE UNCHANGED vars
  BY <1>3 DEF vars, Base, TypeOK, SnapshotsCurrent, OpsOnRows, GuardHolds, Free
<1> QED BY <1>2, <1>3

LEMMA BaseInit == Init => Base
<1> SUFFICES ASSUME Init PROVE Base
  OBVIOUS
<1>1. 0 \in Money
  BY MoneyAssumption DEF Money
<1>2. TypeOK
  BY <1>1 DEF Init, TypeOK
<1>3. \A r \in Requests : txn[r].op = "none"
  BY DEF Init, Idle
<1>4. SnapshotsCurrent /\ OpsOnRows
  BY <1>3 DEF SnapshotsCurrent, SerializableOps, OpsOnRows
<1> QED BY <1>2, <1>4 DEF Base

\* The invariant behind the others: a Serializable transaction that may still
\* commit has seen the rows as they are now.
THEOREM BaseInvariant == Spec => []Base
BY BaseInit, BaseStep, PTL DEF Spec

\* Rows and open transactions keep their types, and no handler stores an amount
\* that does not fit its Decimal(18,6) column.
THEOREM TypeCorrect == Spec => []TypeOK
<1>1. Base => TypeOK
  BY DEF Base
<1> QED BY <1>1, BaseInvariant, PTL

-----------------------------------------------------------------------------
(* Money moves on the current wallet, and the ledger records it *)

Moves(u, c, h) ==
    /\ wallet' = [wallet EXCEPT ![u] = [balance |-> @.balance + c, margin |-> @.margin + h]]
    /\ Post(u, c, h, wallet[u].balance + c)

LEMMA SetColumn ==
    ASSUME TypeOK, NEW u \in Users, NEW x
    PROVE  /\ [wallet EXCEPT ![u].balance = x]
                = [wallet EXCEPT ![u] = [balance |-> x, margin |-> wallet[u].margin]]
           /\ [wallet EXCEPT ![u].margin = x]
                = [wallet EXCEPT ![u] = [balance |-> wallet[u].balance, margin |-> x]]
<1>1. wallet[u] \in [balance : Money, margin : Money]
  BY DEF TypeOK
<1>2. [wallet[u] EXCEPT !.balance = x] = [balance |-> x, margin |-> wallet[u].margin]
  BY <1>1
<1>3. [wallet[u] EXCEPT !.margin = x] = [balance |-> wallet[u].balance, margin |-> x]
  BY <1>1
<1> QED BY <1>2, <1>3, Zenon

LEMMA OpenMoves ==
    ASSUME Base, NEW r \in Requests, NEW p \in Positions, commitOpenPosition(r, p)
    PROVE  /\ txn[r].user \in Users /\ txn[r].amount \in Margins
           /\ Free(wallet[txn[r].user]) >= txn[r].amount
           /\ Moves(txn[r].user, 0, txn[r].amount)
<1> DEFINE t == txn[r]
           u == t.user
<1>1. MayCommit(r, "openPosition")
  BY DEF commitOpenPosition
<1>2. u \in Users /\ t.seen = wallet[u] /\ t.amount \in Margins /\ Free(wallet[u]) >= t.amount
  BY <1>1, SerializableCommit DEF SerializableOps, GuardHolds
<1>3. /\ wallet' = [wallet EXCEPT ![u].margin = t.seen.margin + t.amount]
      /\ Post(u, 0, t.amount, t.seen.balance)
  BY DEF commitOpenPosition
<1>4. wallet[u].balance + 0 = wallet[u].balance
  BY <1>2 DEF Base, TypeOK, Money
<1>5. wallet' = [wallet EXCEPT ![u] = [balance |-> wallet[u].balance + 0,
                                      margin |-> wallet[u].margin + t.amount]]
  <2>1. wallet' = [wallet EXCEPT ![u].margin = wallet[u].margin + t.amount]
    BY <1>2, <1>3
  <2>2. [wallet EXCEPT ![u].margin = wallet[u].margin + t.amount]
          = [wallet EXCEPT ![u] = [balance |-> wallet[u].balance,
                                   margin |-> wallet[u].margin + t.amount]]
    BY <1>2, SetColumn DEF Base
  <2> QED BY <1>4, <2>1, <2>2, Zenon
<1>6. Post(u, 0, t.amount, wallet[u].balance + 0)
  BY <1>2, <1>3, <1>4
<1> QED BY <1>2, <1>5, <1>6 DEF Moves

LEMMA CloseMoves ==
    ASSUME Base, NEW r \in Requests, commitClosePosition(r)
    PROVE  /\ txn[r].user \in Users /\ txn[r].amount \in Int /\ txn[r].pnl \in Pnls
           /\ Moves(txn[r].user, txn[r].pnl, -txn[r].amount)
<1> DEFINE t == txn[r]
           u == t.user
<1>1. MayCommit(r, "closePosition")
  BY DEF commitClosePosition
<1>2. u \in Users /\ t.seen = wallet[u] /\ t.amount \in Int /\ t.pnl \in Pnls
  BY <1>1, SerializableCommit DEF SerializableOps, GuardHolds
<1>3. /\ wallet' = [wallet EXCEPT ![u] = [balance |-> t.seen.balance + t.pnl,
                                          margin |-> t.seen.margin - t.amount]]
      /\ Post(u, t.pnl, -t.amount, t.seen.balance + t.pnl)
  BY DEF commitClosePosition
<1>4. wallet[u].margin - t.amount = wallet[u].margin + (-t.amount)
  BY <1>2 DEF Base, TypeOK, Money
<1>5. wallet' = [wallet EXCEPT ![u] = [balance |-> wallet[u].balance + t.pnl,
                                      margin |-> wallet[u].margin + (-t.amount)]]
  BY <1>2, <1>3, <1>4
<1>6. Post(u, t.pnl, -t.amount, wallet[u].balance + t.pnl)
  BY <1>2, <1>3
<1> QED BY <1>2, <1>5, <1>6 DEF Moves

LEMMA CashMoves ==
    ASSUME Base, NEW r \in Requests, NEW op \in SerializableOps, MayCommit(r, op),
           NEW x \in Int, PostCash(txn[r].user, x, txn[r].seen.balance + x)
    PROVE  txn[r].user \in Users /\ Moves(txn[r].user, x, 0)
<1> DEFINE u == txn[r].user
<1>1. u \in Users /\ txn[r].seen = wallet[u]
  BY SerializableCommit
<1>2. /\ wallet' = [wallet EXCEPT ![u].balance = wallet[u].balance + x]
      /\ Post(u, x, 0, wallet[u].balance + x)
  BY <1>1 DEF PostCash
<1>3. wallet[u].margin + 0 = wallet[u].margin
  BY <1>1 DEF Base, TypeOK, Money
<1>4. wallet' = [wallet EXCEPT ![u] = [balance |-> wallet[u].balance + x,
                                      margin |-> wallet[u].margin + 0]]
  <2>1. [wallet EXCEPT ![u].balance = wallet[u].balance + x]
          = [wallet EXCEPT ![u] = [balance |-> wallet[u].balance + x,
                                   margin |-> wallet[u].margin]]
    BY <1>1, SetColumn DEF Base
  <2> QED BY <1>2, <1>3, <2>1, Zenon
<1> QED BY <1>1, <1>2, <1>4 DEF Moves

LEMMA WithdrawMoves ==
    ASSUME Base, NEW r \in Requests, NEW w \in Withdrawals, commitCreateWithdrawal(r, w)
    PROVE  /\ txn[r].user \in Users /\ txn[r].amount \in Amounts
           /\ Free(wallet[txn[r].user]) >= txn[r].amount
           /\ Moves(txn[r].user, -txn[r].amount, 0)
<1> DEFINE t == txn[r]
<1>1. /\ MayCommit(r, "createWithdrawal")
      /\ PostCash(t.user, -t.amount, t.seen.balance - t.amount)
  BY DEF commitCreateWithdrawal
<1>2. /\ t.amount \in Amounts /\ t.amount \in Int /\ t.user \in Users
      /\ t.seen = wallet[t.user] /\ Free(wallet[t.user]) >= t.amount
  BY <1>1, SerializableCommit DEF SerializableOps, GuardHolds
<1>3. -t.amount \in Int /\ t.seen.balance - t.amount = t.seen.balance + (-t.amount)
  BY <1>2 DEF Base, TypeOK, Money
<1> QED BY <1>1, <1>2, <1>3, CashMoves DEF SerializableOps

LEMMA AdjustMoves ==
    ASSUME Base, NEW r \in Requests, commitAdjustWallet(r)
    PROVE  /\ txn[r].user \in Users /\ txn[r].amount \in Int
           /\ txn[r].amount \in Amounts \/ -txn[r].amount \in Amounts
           /\ wallet[txn[r].user].balance + txn[r].amount >= 0
           /\ Moves(txn[r].user, txn[r].amount, 0)
<1> DEFINE t == txn[r]
<1>1. MayCommit(r, "adjustWallet") /\ PostCash(t.user, t.amount, t.seen.balance + t.amount)
  BY DEF commitAdjustWallet
<1>2. /\ t.user \in Users /\ t.amount \in Int /\ wallet[t.user].balance + t.amount >= 0
      /\ t.amount \in Amounts \/ -t.amount \in Amounts
  BY <1>1, SerializableCommit DEF SerializableOps, GuardHolds
<1> QED BY <1>1, <1>2, CashMoves DEF SerializableOps

LEMMA ApproveDepositMoves ==
    ASSUME Base, NEW r \in Requests, commitApproveDeposit(r)
    PROVE  /\ txn[r].user \in Users /\ txn[r].item \in Deposits /\ txn[r].amount \in Amounts
           /\ deposit[txn[r].item].status = "PENDING"
           /\ Moves(txn[r].user, txn[r].amount, 0)
<1> DEFINE t == txn[r]
<1>1. MayCommit(r, "approveDeposit") /\ PostCash(t.user, t.amount, t.seen.balance + t.amount)
  BY DEF commitApproveDeposit
<1>2. /\ t.user \in Users /\ t.amount \in Int /\ t.item \in Deposits
      /\ deposit[t.item] = [status |-> "PENDING", user |-> t.user, amount |-> t.amount]
  BY <1>1, SerializableCommit DEF SerializableOps, GuardHolds
<1>3. deposit[t.item].status = "PENDING" /\ deposit[t.item].amount = t.amount
  BY <1>2
<1>4. t.amount \in Amounts
  BY <1>2, <1>3, DepositRow DEF Base
<1> QED BY <1>1, <1>2, <1>3, <1>4, CashMoves DEF SerializableOps

LEMMA RejectWithdrawalMoves ==
    ASSUME Base, NEW r \in Requests, commitRejectWithdrawal(r)
    PROVE  /\ txn[r].user \in Users /\ txn[r].item \in Withdrawals /\ txn[r].amount \in Amounts
           /\ Moves(txn[r].user, txn[r].amount, 0)
<1> DEFINE t == txn[r]
<1>1. MayCommit(r, "rejectWithdrawal") /\ PostCash(t.user, t.amount, t.seen.balance + t.amount)
  BY DEF commitRejectWithdrawal
<1>2. t.user \in Users /\ t.amount \in Int /\ t.item \in Withdrawals /\ t.amount \in Amounts
  BY <1>1, SerializableCommit DEF SerializableOps, GuardHolds
<1> QED BY <1>1, <1>2, CashMoves DEF SerializableOps

\* The other steps leave wallets and ledger alone.
QuietStep ==
    \/ \E d \in Deposits, u \in Users, a \in Amounts : createDeposit(d, u, a)
    \/ \E r \in Requests : \/ BeginStep(r) \/ Fail(r) \/ commitRejectDeposit(r)
                           \/ commitApproveWithdrawal(r) \/ commitCompleteWithdrawal(r)

LEMMA QuietMoney ==
    ASSUME Base, QuietStep
    PROVE  UNCHANGED <<wallet, ledger, position, credits>>
<1>1. ASSUME NEW r \in Requests, BeginStep(r) PROVE UNCHANGED rows
  BY <1>1, BeginEffect DEF Base
<1> QED BY <1>1 DEF QuietStep, createDeposit, Fail, commitRejectDeposit,
                    commitApproveWithdrawal, commitCompleteWithdrawal, rows

LedgerInv == LedgerExplainsBalance /\ LedgerExplainsMargin

LEMMA MovesKeepLedger ==
    ASSUME Base, LedgerInv, NEW u \in Users, NEW c \in Int, NEW h \in Int, Moves(u, c, h), Base'
    PROVE  LedgerInv'
<1> SUFFICES ASSUME NEW v \in Users
             PROVE  /\ wallet'[v].balance = ledger'[v].cash
                    /\ wallet'[v].balance = ledger'[v].last
                    /\ wallet'[v].margin = ledger'[v].held
  BY DEF LedgerInv, LedgerExplainsBalance, LedgerExplainsMargin
<1>1. /\ wallet[v].balance = ledger[v].cash /\ wallet[v].balance = ledger[v].last
      /\ wallet[v].margin = ledger[v].held
  BY DEF LedgerInv, LedgerExplainsBalance, LedgerExplainsMargin
<1>2. /\ wallet' = [wallet EXCEPT ![u] = [balance |-> wallet[u].balance + c,
                                          margin |-> wallet[u].margin + h]]
      /\ ledger' = [ledger EXCEPT ![u] = [cash |-> ledger[u].cash + c,
                        held |-> ledger[u].held + h, last |-> wallet[u].balance + c]]
  BY DEF Moves, Post
<1>3. DOMAIN wallet = Users /\ DOMAIN ledger = Users
  BY DEF Base, TypeOK
<1>4. CASE v = u
  BY <1>1, <1>2, <1>3, <1>4
<1>5. CASE v # u
  BY <1>1, <1>2, <1>3, <1>5
<1> QED BY <1>4, <1>5

LEMMA LedgerStep == Base /\ LedgerInv /\ [Next]_vars => LedgerInv'
<1> SUFFICES ASSUME Base, LedgerInv, [Next]_vars PROVE LedgerInv'
  OBVIOUS
<1>1. Base'
  BY BaseStep
<1>2. CASE QuietStep
  BY <1>2, QuietMoney DEF LedgerInv, LedgerExplainsBalance, LedgerExplainsMargin
<1>3. 0 \in Int /\ Amounts \subseteq Int /\ Margins \subseteq Int /\ Pnls \subseteq Int
      /\ \A x \in Int : -x \in Int
  BY MoneyAssumption
<1>4. ASSUME NEW r \in Requests,
             \/ \E p \in Positions : commitOpenPosition(r, p)
             \/ commitClosePosition(r)
             \/ \E w \in Withdrawals : commitCreateWithdrawal(r, w)
             \/ commitAdjustWallet(r)
             \/ commitApproveDeposit(r)
             \/ commitRejectWithdrawal(r)
      PROVE  \E u \in Users, c \in Int, h \in Int : Moves(u, c, h)
  <2>1. CASE \E p \in Positions : commitOpenPosition(r, p)
    BY <1>3, <2>1, OpenMoves
  <2>2. CASE commitClosePosition(r)
    BY <1>3, <2>2, CloseMoves
  <2>3. CASE \E w \in Withdrawals : commitCreateWithdrawal(r, w)
    BY <1>3, <2>3, WithdrawMoves
  <2>4. CASE commitAdjustWallet(r)
    BY <1>3, <2>4, AdjustMoves
  <2>5. CASE commitApproveDeposit(r)
    BY <1>3, <2>5, ApproveDepositMoves
  <2>6. CASE commitRejectWithdrawal(r)
    BY <1>3, <2>6, RejectWithdrawalMoves
  <2> QED BY <1>4, <2>1, <2>2, <2>3, <2>4, <2>5, <2>6
<1>5. ASSUME NEW r \in Requests, CommitStep(r) PROVE LedgerInv'
  <2>1. CASE \/ commitRejectDeposit(r) \/ commitApproveWithdrawal(r)
             \/ commitCompleteWithdrawal(r)
    BY <1>2, <2>1 DEF QuietStep
  <2>2. CASE ~(\/ commitRejectDeposit(r) \/ commitApproveWithdrawal(r)
               \/ commitCompleteWithdrawal(r))
    BY <1>1, <1>4, <1>5, <2>2, MovesKeepLedger DEF CommitStep
  <2> QED BY <2>1, <2>2
<1>6. CASE Next
  BY <1>2, <1>5, <1>6, StepKinds DEF QuietStep, Base
<1>7. CASE UNCHANGED vars
  BY <1>7 DEF vars, LedgerInv, LedgerExplainsBalance, LedgerExplainsMargin
<1> QED BY <1>6, <1>7

\* However requests interleave and fail, the balance of every wallet is the sum
\* of its user's cash rows and the balanceAfter of the last row ...
THEOREM LedgerExplained == Spec => []LedgerExplainsBalance
<1>1. Init => LedgerInv
  BY DEF Init, LedgerInv, LedgerExplainsBalance, LedgerExplainsMargin
<1>2. LedgerInv => LedgerExplainsBalance
  BY DEF LedgerInv
<1> QED BY <1>1, <1>2, LedgerStep, BaseInvariant, PTL DEF Spec

\* ... and marginUsed is the net of its margin rows.
THEOREM MarginExplained == Spec => []LedgerExplainsMargin
<1>1. Init => LedgerInv
  BY DEF Init, LedgerInv, LedgerExplainsBalance, LedgerExplainsMargin
<1>2. LedgerInv => LedgerExplainsMargin
  BY DEF LedgerInv
<1> QED BY <1>1, <1>2, LedgerStep, BaseInvariant, PTL DEF Spec

-----------------------------------------------------------------------------
(* Status and ledger rows of deposits and withdrawals *)

LEMMA CreateDepositCredits ==
    ASSUME Base, CreditsMatchStatus, NEW d \in Deposits, NEW u \in Users, NEW a \in Amounts,
           createDeposit(d, u, a)
    PROVE  CreditsMatchStatus'
<1>1. /\ deposit' = [deposit EXCEPT ![d] = [status |-> "PENDING", user |-> u, amount |-> a]]
      /\ deposit[d].status = "NONE" /\ UNCHANGED <<withdrawal, credits>>
  BY DEF createDeposit, NoRow
<1>2. \A e \in Deposits : \/ deposit'[e] = deposit[e]
                          \/ deposit'[e].status = "PENDING" /\ deposit[e].status = "NONE"
  BY <1>1 DEF Base, TypeOK
<1> QED BY <1>1, <1>2 DEF CreditsMatchStatus

LEMMA ApproveDepositCredits ==
    ASSUME Base, CreditsMatchStatus, NEW r \in Requests, commitApproveDeposit(r)
    PROVE  CreditsMatchStatus'
<1> DEFINE i == txn[r].item
<1>1. /\ credits' = [credits EXCEPT ![i] = @ + 1]
      /\ deposit' = [deposit EXCEPT ![i].status = "APPROVED"] /\ UNCHANGED withdrawal
  BY DEF commitApproveDeposit
<1>2. i \in Deposits /\ deposit[i].status = "PENDING"
  BY ApproveDepositMoves
<1>3. deposit'[i].status = "APPROVED" /\ \A e \in Deposits : e = i \/ deposit'[e] = deposit[e]
  BY <1>1, <1>2, DepositStatus DEF Base
<1>4. credits'[i] = 1
  <2>1. credits[i] = 0
    BY <1>2 DEF CreditsMatchStatus
  <2>2. credits'[i] = credits[i] + 1
    BY <1>1, <1>2, CreditTyped DEF Base
  <2> QED BY <2>1, <2>2
<1>5. \A j \in Deposits \cup Withdrawals : j = i \/ credits'[j] = credits[j]
  BY <1>1, <1>2, CreditTyped DEF Base
<1>6. \A w \in Withdrawals : w # i
  BY <1>2, IdAssumption
<1> HIDE DEF i
<1> QED BY <1>1, <1>2, <1>3, <1>4, <1>5, <1>6 DEF CreditsMatchStatus

LEMMA RejectDepositCredits ==
    ASSUME Base, CreditsMatchStatus, NEW r \in Requests, commitRejectDeposit(r)
    PROVE  CreditsMatchStatus'
<1> DEFINE i == txn[r].item
<1>1. /\ deposit' = [deposit EXCEPT ![i].status = "REJECTED"]
      /\ UNCHANGED <<withdrawal, credits>> /\ txn[r].op = "rejectDeposit"
  BY DEF commitRejectDeposit, MayCommit
<1>2. i \in Deposits /\ deposit[i].status # "NONE"
  BY <1>1 DEF Base, OpsOnRows
<1>3. deposit'[i].status = "REJECTED" /\ \A e \in Deposits : e = i \/ deposit'[e] = deposit[e]
  BY <1>1, <1>2, DepositStatus DEF Base
<1> HIDE DEF i
<1> QED BY <1>1, <1>3 DEF CreditsMatchStatus

LEMMA CreateWithdrawalCredits ==
    ASSUME Base, CreditsMatchStatus, NEW r \in Requests, NEW w \in Withdrawals,
           commitCreateWithdrawal(r, w)
    PROVE  CreditsMatchStatus'
<1>1. /\ withdrawal' = [withdrawal EXCEPT ![w] = [status |-> "PENDING", user |-> txn[r].user,
                                                  amount |-> txn[r].amount]]
      /\ withdrawal[w].status = "NONE" /\ UNCHANGED <<deposit, credits>>
  BY DEF commitCreateWithdrawal, NoRow
<1>2. \A v \in Withdrawals : \/ withdrawal'[v] = withdrawal[v]
                             \/ withdrawal'[v].status = "PENDING" /\ withdrawal[v].status = "NONE"
  BY <1>1 DEF Base, TypeOK
<1> QED BY <1>1, <1>2 DEF CreditsMatchStatus

LEMMA ReviewWithdrawalCredits ==
    ASSUME Base, CreditsMatchStatus, NEW r \in Requests,
           commitApproveWithdrawal(r) \/ commitCompleteWithdrawal(r)
    PROVE  CreditsMatchStatus'
<1> DEFINE i == txn[r].item
<1>1. PICK s \in {"APPROVED", "COMPLETED"} : withdrawal' = [withdrawal EXCEPT ![i].status = s]
  BY DEF commitApproveWithdrawal, commitCompleteWithdrawal
<1>2. UNCHANGED <<deposit, credits>> /\ i \in Withdrawals /\ withdrawal[i].status # "NONE"
  BY DEF commitApproveWithdrawal, commitCompleteWithdrawal, MayCommit, Base, OpsOnRows
<1>3. withdrawal'[i].status = s /\ \A v \in Withdrawals : v = i \/ withdrawal'[v] = withdrawal[v]
  BY <1>1, <1>2, WithdrawalStatus DEF Base
<1> HIDE DEF i
<1> QED BY <1>2, <1>3 DEF CreditsMatchStatus

LEMMA RejectWithdrawalCredits ==
    ASSUME Base, CreditsMatchStatus, NEW r \in Requests, commitRejectWithdrawal(r)
    PROVE  CreditsMatchStatus'
<1> DEFINE i == txn[r].item
<1>1. /\ credits' = [credits EXCEPT ![i] = @ + 1] /\ MayCommit(r, "rejectWithdrawal")
      /\ withdrawal' = [withdrawal EXCEPT ![i].status = "REJECTED"] /\ UNCHANGED deposit
  BY DEF commitRejectWithdrawal
<1>2. i \in Withdrawals /\ withdrawal[i].status # "NONE"
  BY <1>1, SerializableCommit DEF SerializableOps, GuardHolds
<1>3. withdrawal'[i].status = "REJECTED"
      /\ \A v \in Withdrawals : v = i \/ withdrawal'[v] = withdrawal[v]
  BY <1>1, <1>2, WithdrawalStatus DEF Base
<1>4. credits'[i] >= 1
  BY <1>1, <1>2, CreditTyped DEF Base, TypeOK
<1>5. \A j \in Deposits \cup Withdrawals : j = i \/ credits'[j] = credits[j]
  BY <1>1, <1>2, CreditTyped DEF Base
<1>6. \A d \in Deposits : d # i
  BY <1>2, IdAssumption
<1> HIDE DEF i
<1> QED BY <1>1, <1>2, <1>3, <1>4, <1>5, <1>6 DEF CreditsMatchStatus

LEMMA CreditsStep == Base /\ CreditsMatchStatus /\ [Next]_vars => CreditsMatchStatus'
<1> SUFFICES ASSUME Base, CreditsMatchStatus, [Next]_vars PROVE CreditsMatchStatus'
  OBVIOUS
<1>1. ASSUME NEW r \in Requests, BeginStep(r) \/ Fail(r) PROVE CreditsMatchStatus'
  <2>1. UNCHANGED rows
    BY <1>1, BeginEffect DEF Fail, Base
  <2> QED BY <2>1 DEF rows, CreditsMatchStatus
<1>2. ASSUME NEW r \in Requests, CommitStep(r) PROVE CreditsMatchStatus'
  <2>1. CASE \/ \E p \in Positions : commitOpenPosition(r, p)
             \/ commitClosePosition(r) \/ commitAdjustWallet(r)
    BY <2>1 DEF CreditsMatchStatus, commitOpenPosition, commitClosePosition, commitAdjustWallet
  <2> QED BY <1>2, <2>1, ApproveDepositCredits, RejectDepositCredits, CreateWithdrawalCredits,
             ReviewWithdrawalCredits, RejectWithdrawalCredits DEF CommitStep
<1>3. CASE Next
  BY <1>1, <1>2, <1>3, StepKinds, CreateDepositCredits DEF Base
<1>4. CASE UNCHANGED vars
  BY <1>4 DEF vars, CreditsMatchStatus
<1> QED BY <1>3, <1>4

LEMMA CreditsInvariant == Spec => []CreditsMatchStatus
<1>1. Init => CreditsMatchStatus
  BY DEF Init, CreditsMatchStatus, NoRow
<1> QED BY <1>1, CreditsStep, BaseInvariant, PTL DEF Spec

\* A deposit is credited once at most: not while it is pending, and exactly once
\* when it is approved, however many admins handle it at the same time.  Nothing is
\* said of the status of a deposit that was credited: a rejection may overwrite it.
THEOREM CreditedOnce == Spec => []DepositCreditedOnce
<1>1. CreditsMatchStatus => DepositCreditedOnce
  BY DEF CreditsMatchStatus, DepositCreditedOnce
<1> QED BY <1>1, CreditsInvariant, PTL

\* A withdrawal shown as rejected has been refunded.
THEOREM Refunded == Spec => []RejectedIsRefunded
<1>1. CreditsMatchStatus => RejectedIsRefunded
  BY DEF CreditsMatchStatus, RejectedIsRefunded
<1> QED BY <1>1, CreditsInvariant, PTL

LEMMA CreditStep == Base /\ [Next]_vars => [CreditIsDue]_vars
<1> SUFFICES ASSUME Base, [Next]_vars PROVE CreditIsDue \/ UNCHANGED vars
  OBVIOUS
<1>1. ASSUME UNCHANGED credits PROVE CreditIsDue
  BY <1>1 DEF CreditIsDue
<1>2. ASSUME NEW r \in Requests, commitApproveDeposit(r) PROVE CreditIsDue
  <2>1. txn[r].item \in Deposits /\ deposit[txn[r].item].status = "PENDING"
    BY <1>2, ApproveDepositMoves
  <2>2. \A j \in Deposits \cup Withdrawals : j = txn[r].item \/ credits'[j] = credits[j]
    BY <1>2, <2>1, CreditTyped DEF commitApproveDeposit, Base
  <2> QED BY <2>1, <2>2, IdAssumption DEF CreditIsDue
<1>3. ASSUME NEW r \in Requests, commitRejectWithdrawal(r) PROVE CreditIsDue
  <2>1. /\ txn[r].item \in Withdrawals
        /\ withdrawal[txn[r].item].status \in {"PENDING", "APPROVED"}
    BY <1>3, SerializableCommit DEF commitRejectWithdrawal, SerializableOps, GuardHolds
  <2>2. \A j \in Deposits \cup Withdrawals : j = txn[r].item \/ credits'[j] = credits[j]
    BY <1>3, <2>1, CreditTyped DEF commitRejectWithdrawal, Base
  <2> QED BY <2>1, <2>2, IdAssumption DEF CreditIsDue
<1>4. ASSUME QuietStep PROVE CreditIsDue
  BY <1>1, <1>4, QuietMoney
<1>5. ASSUME NEW r \in Requests, CommitStep(r) PROVE CreditIsDue
  <2>1. CASE \/ \E p \in Positions : commitOpenPosition(r, p)
             \/ \E w \in Withdrawals : commitCreateWithdrawal(r, w)
             \/ commitClosePosition(r) \/ commitAdjustWallet(r)
    BY <1>1, <2>1
       DEF commitOpenPosition, commitCreateWithdrawal, commitClosePosition, commitAdjustWallet
  <2>2. CASE \/ commitRejectDeposit(r) \/ commitApproveWithdrawal(r)
             \/ commitCompleteWithdrawal(r)
    BY <1>4, <2>2 DEF QuietStep
  <2> QED BY <1>2, <1>3, <1>5, <2>1, <2>2 DEF CommitStep
<1>6. CASE Next
  <2>1. QuietStep \/ \E r \in Requests : CommitStep(r)
    BY <1>6, StepKinds DEF QuietStep, Base
  <2> QED BY <1>4, <1>5, <2>1
<1> QED BY <1>6

\* However the handlers of admins overlap, what they give is due by the row as it is
\* when they give it: only a PENDING deposit is credited, and no withdrawal refunded
\* whose row reads COMPLETED or REJECTED.
THEOREM CreditsAreDue == Spec => CreditsOnlyWhatWaits
BY CreditStep, BaseInvariant, PTL DEF Spec, CreditsOnlyWhatWaits

-----------------------------------------------------------------------------
(* The wallet acts as if every request took effect at once *)

AtomicOpen == [p \in Positions |->
                  IF position[p].status = "OPEN"
                  THEN [user |-> position[p].user, margin |-> position[p].amount]
                  ELSE [user |-> NoUser, margin |-> 0]]
AtomicCredited == {d \in Deposits : credits[d] > 0}

LEMMA OpenIsAtomic ==
    ASSUME Base, NEW r \in Requests, NEW p \in Positions, commitOpenPosition(r, p)
    PROVE  Atomic!OpenPosition(txn[r].user, p, txn[r].amount)
<1> DEFINE u == txn[r].user
           m == txn[r].amount
<1>1. Free(wallet[u]) >= m /\ Moves(u, 0, m)
  BY OpenMoves
<1>2. /\ position[p] = NoRow /\ UNCHANGED credits
      /\ position' = [position EXCEPT ![p] = [status |-> "OPEN", user |-> u, amount |-> m]]
  BY DEF commitOpenPosition
<1>3. AtomicOpen[p] = [user |-> NoUser, margin |-> 0]
  BY <1>2 DEF AtomicOpen, NoRow
<1>4. position'[p].status = "OPEN" /\ position'[p].user = u /\ position'[p].amount = m
      /\ \A q \in Positions : q # p => position'[q] = position[q]
  BY <1>2 DEF Base, TypeOK
<1>5. AtomicOpen' = [AtomicOpen EXCEPT ![p] = [user |-> u, margin |-> m]]
  <2> HIDE DEF u, m
  <2> QED BY <1>4 DEF AtomicOpen
<1>6. Atomic!Move(u, 0, m) /\ Atomic!Available(u) >= m
  BY <1>1 DEF Moves, Atomic!Move, Free, Atomic!Available
<1> QED BY <1>2, <1>3, <1>5, <1>6 DEF Atomic!OpenPosition, Atomic!Closed, AtomicOpen

LEMMA CloseIsAtomic ==
    ASSUME Base, NEW r \in Requests, commitClosePosition(r)
    PROVE  txn[r].item \in Positions /\ Atomic!ClosePosition(txn[r].item, txn[r].pnl)
<1> DEFINE t == txn[r]
           p == t.item
<1>1. /\ MayCommit(r, "closePosition") /\ UNCHANGED credits
      /\ position' = [position EXCEPT ![p].status = "CLOSED"]
  BY DEF commitClosePosition
<1>2. /\ p \in Positions /\ t.user \in Users
      /\ position[p] = [status |-> "OPEN", user |-> t.user, amount |-> t.amount]
  BY <1>1, SerializableCommit DEF SerializableOps, GuardHolds
<1>3. AtomicOpen[p] = [user |-> t.user, margin |-> t.amount]
  BY <1>2 DEF AtomicOpen
<1>4. AtomicOpen[p] # [user |-> NoUser, margin |-> 0]
  BY <1>2, <1>3, IdAssumption
<1>5. position'[p].status = "CLOSED" /\ \A q \in Positions : q # p => position'[q] = position[q]
  BY <1>1, <1>2 DEF Base, TypeOK
<1>6. AtomicOpen' = [AtomicOpen EXCEPT ![p] = [user |-> NoUser, margin |-> 0]]
  <2> HIDE DEF p, t
  <2> QED BY <1>5 DEF AtomicOpen
<1>7. Atomic!Move(t.user, t.pnl, -t.amount)
  BY CloseMoves DEF Moves, Atomic!Move
<1>8. Atomic!Move(AtomicOpen[p].user, t.pnl, -AtomicOpen[p].margin)
  BY <1>3, <1>7
<1> QED BY <1>1, <1>2, <1>4, <1>6, <1>8 DEF Atomic!ClosePosition, Atomic!Closed, AtomicOpen

LEMMA CashIsAtomic ==
    ASSUME Base, NEW r \in Requests
    PROVE  /\ (\E w \in Withdrawals : commitCreateWithdrawal(r, w)) =>
                 \E u \in Users, a \in Amounts : Atomic!Withdraw(u, a)
           /\ commitAdjustWallet(r) =>
                 \E u \in Users, a \in Amounts : Atomic!Adjust(u, a) \/ Atomic!Adjust(u, -a)
<1>1. ASSUME NEW w \in Withdrawals, commitCreateWithdrawal(r, w)
      PROVE  Atomic!Withdraw(txn[r].user, txn[r].amount)
  <2>1. UNCHANGED <<position, credits>>
    BY <1>1 DEF commitCreateWithdrawal
  <2>2. /\ Free(wallet[txn[r].user]) >= txn[r].amount
        /\ Moves(txn[r].user, -txn[r].amount, 0)
    BY <1>1, WithdrawMoves
  <2> QED BY <2>1, <2>2 DEF Atomic!Withdraw, Moves, Atomic!Move, Free, Atomic!Available
<1>2. ASSUME commitAdjustWallet(r)
      PROVE  Atomic!Adjust(txn[r].user, txn[r].amount)
  <2>1. UNCHANGED <<position, credits>>
    BY <1>2 DEF commitAdjustWallet
  <2>2. /\ wallet[txn[r].user].balance + txn[r].amount >= 0
        /\ Moves(txn[r].user, txn[r].amount, 0)
    BY <1>2, AdjustMoves
  <2> QED BY <2>1, <2>2 DEF Atomic!Adjust, Moves, Atomic!Move
<1>3. ASSUME commitAdjustWallet(r)
      PROVE  \E u \in Users, a \in Amounts : Atomic!Adjust(u, a) \/ Atomic!Adjust(u, -a)
  <2>1. /\ txn[r].user \in Users /\ txn[r].amount \in Int
        /\ txn[r].amount \in Amounts \/ -txn[r].amount \in Amounts
    BY <1>3, AdjustMoves
  <2>2. -(-txn[r].amount) = txn[r].amount
    BY <2>1
  <2>3. CASE txn[r].amount \in Amounts
    BY <1>2, <1>3, <2>1, <2>3
  <2>4. CASE -txn[r].amount \in Amounts
    <3>1. Atomic!Adjust(txn[r].user, -(-txn[r].amount))
      BY <1>2, <1>3, <2>2, Zenon
    <3> QED BY <2>1, <2>4, <3>1
  <2> QED BY <2>1, <2>3, <2>4
<1>4. ASSUME NEW w \in Withdrawals, commitCreateWithdrawal(r, w)
      PROVE  txn[r].user \in Users /\ txn[r].amount \in Amounts
  BY <1>4, WithdrawMoves
<1> QED BY <1>1, <1>3, <1>4

LEMMA CreditIsAtomic ==
    ASSUME Base, CreditsMatchStatus, NEW r \in Requests, commitApproveDeposit(r)
    PROVE  \E d \in Deposits, u \in Users, a \in Amounts : Atomic!CreditDeposit(d, u, a)
<1> DEFINE t == txn[r]
           d == t.item
<1>1. /\ credits' = [credits EXCEPT ![d] = @ + 1] /\ UNCHANGED position
  BY DEF commitApproveDeposit
<1>2. /\ t.user \in Users /\ t.amount \in Amounts /\ d \in Deposits
      /\ deposit[d].status = "PENDING" /\ Moves(t.user, t.amount, 0)
  BY ApproveDepositMoves
<1>3. credits[d] = 0
  BY <1>2 DEF CreditsMatchStatus
<1>4. credits'[d] = credits[d] + 1
      /\ \A j \in Deposits \cup Withdrawals : j = d \/ credits'[j] = credits[j]
  BY <1>1, <1>2, CreditTyped DEF Base
<1>5. AtomicCredited' = AtomicCredited \cup {d} /\ d \notin AtomicCredited
  <2> HIDE DEF d
  <2> QED BY <1>2, <1>3, <1>4 DEF AtomicCredited
<1>6. Atomic!Move(t.user, t.amount, 0)
  BY <1>2 DEF Moves, Atomic!Move
<1>7. Atomic!CreditDeposit(d, t.user, t.amount)
  BY <1>1, <1>5, <1>6 DEF Atomic!CreditDeposit, AtomicCredited
<1> HIDE DEF t
<1> QED BY <1>2, <1>7 DEF Atomic!CreditDeposit

LEMMA RefundIsAtomic ==
    ASSUME Base, NEW r \in Requests, commitRejectWithdrawal(r)
    PROVE  \E u \in Users, a \in Amounts : Atomic!Refund(u, a)
<1> DEFINE i == txn[r].item
<1>1. credits' = [credits EXCEPT ![i] = @ + 1] /\ UNCHANGED position
  BY DEF commitRejectWithdrawal
<1>2. /\ txn[r].user \in Users /\ txn[r].amount \in Amounts /\ i \in Withdrawals
      /\ Moves(txn[r].user, txn[r].amount, 0)
  BY RejectWithdrawalMoves
<1>3. \A d \in Deposits : credits'[d] = credits[d]
  BY <1>1, <1>2, IdAssumption DEF Base, TypeOK
<1>4. AtomicCredited' = AtomicCredited
  BY <1>3 DEF AtomicCredited
<1>5. Atomic!Refund(txn[r].user, txn[r].amount)
  BY <1>1, <1>2, <1>4 DEF Moves, Atomic!Refund, Atomic!Move, AtomicCredited
<1> QED BY <1>2, <1>5

LEMMA AtomicStep == Base /\ CreditsMatchStatus /\ [Next]_vars => [Atomic!Next]_(Atomic!vars)
<1> SUFFICES ASSUME Base, CreditsMatchStatus, [Next]_vars PROVE [Atomic!Next]_(Atomic!vars)
  OBVIOUS
<1>1. CASE QuietStep
  BY <1>1, QuietMoney DEF Atomic!vars
<1>2. ASSUME NEW r \in Requests, CommitStep(r)
      PROVE  QuietStep \/ Atomic!Next
  <2>1. CASE \E p \in Positions : commitOpenPosition(r, p)
    <3>1. PICK p \in Positions : commitOpenPosition(r, p)
      BY <2>1
    <3>2. /\ txn[r].user \in Users /\ txn[r].amount \in Margins
          /\ Atomic!OpenPosition(txn[r].user, p, txn[r].amount)
      BY <3>1, OpenMoves, OpenIsAtomic
    <3>3. \E u \in Users, q \in Positions, m \in Margins : Atomic!OpenPosition(u, q, m)
      BY <3>2 DEF Atomic!OpenPosition
    <3> QED BY <3>3 DEF Atomic!Next
  <2>2. CASE commitClosePosition(r)
    <3>1. /\ txn[r].item \in Positions /\ txn[r].pnl \in Pnls
          /\ Atomic!ClosePosition(txn[r].item, txn[r].pnl)
      BY <2>2, CloseMoves, CloseIsAtomic
    <3>2. \E p \in Positions, pnl \in Pnls : Atomic!ClosePosition(p, pnl)
      BY <3>1 DEF Atomic!ClosePosition
    <3> QED BY <3>2 DEF Atomic!Next
  <2>3. CASE (\E w \in Withdrawals : commitCreateWithdrawal(r, w)) \/ commitAdjustWallet(r)
    BY <2>3, CashIsAtomic DEF Atomic!Next
  <2>4. CASE commitApproveDeposit(r)
    BY <2>4, CreditIsAtomic DEF Atomic!Next
  <2>5. CASE commitRejectWithdrawal(r)
    BY <2>5, RefundIsAtomic DEF Atomic!Next
  <2> QED BY <1>2, <2>1, <2>2, <2>3, <2>4, <2>5 DEF CommitStep, QuietStep
<1>3. CASE Next
  BY <1>1, <1>2, <1>3, StepKinds DEF QuietStep, Base
<1>4. CASE UNCHANGED vars
  BY <1>4 DEF vars, Atomic!vars
<1> QED BY <1>3, <1>4

\* The transactions, begun and committed in any order, implement AtomicWallet.
THEOREM Atomicity == Spec => ActsAtomically
<1>1. Init => Atomic!Init
  BY DEF Init, NoRow, Atomic!Init, Atomic!Closed
<1> QED BY <1>1, AtomicStep, BaseInvariant, CreditsInvariant, PTL
        DEF Spec, ActsAtomically, Atomic!Spec

LEMMA FundsStep == Base /\ [Next]_vars => [FundsCovered]_vars
<1> SUFFICES ASSUME Base, Next, NEW u \in Users,
                    \/ wallet'[u].margin > wallet[u].margin
                    \/ \E w \in Withdrawals : withdrawal[w] = NoRow /\ withdrawal'[w].user = u
             PROVE  Free(wallet'[u]) >= 0
  BY DEF FundsCovered
<1>1. wallet[u].balance \in Int /\ wallet[u].margin \in Int
  BY DEF Base, TypeOK, Money
<1>2. ASSUME UNCHANGED wallet
      PROVE  ~(wallet'[u].margin > wallet[u].margin)
  BY <1>1, <1>2
<1>3. ASSUME NEW v \in Users, NEW c \in Int, NEW h \in Int, Moves(v, c, h),
             \A w \in Withdrawals : withdrawal[w] = NoRow => withdrawal'[w] = NoRow, h <= 0
      PROVE  FALSE
  <2>1. ~(\E w \in Withdrawals : withdrawal[w] = NoRow /\ withdrawal'[w].user = u)
    BY <1>3, IdAssumption DEF NoRow
  <2>2. CASE v = u
    <3>1. wallet'[u].margin = wallet[u].margin + h
      BY <1>3, <2>2 DEF Moves, Base, TypeOK
    <3>2. ~(wallet[u].margin + h > wallet[u].margin)
      BY <1>1, <1>3
    <3> QED BY <2>1, <3>1, <3>2
  <2>3. CASE v # u
    <3>1. wallet'[u] = wallet[u]
      BY <1>3, <2>3 DEF Moves, Base, TypeOK
    <3> QED BY <1>1, <2>1, <3>1
  <2> QED BY <2>2, <2>3
\* The two requests that need free margin leave none that is not there.
<1>4. ASSUME NEW v \in Users, NEW x \in Nat, Free(wallet[v]) >= x,
             Moves(v, -x, 0) \/ Moves(v, 0, x),
             v = u \/ (wallet'[u] = wallet[u] =>
                         ~\E w \in Withdrawals : withdrawal[w] = NoRow /\ withdrawal'[w].user = u)
      PROVE  Free(wallet'[u]) >= 0
  <2>1. CASE v = u
    <3>1. \/ wallet'[u] = [balance |-> wallet[u].balance + (-x), margin |-> wallet[u].margin + 0]
          \/ wallet'[u] = [balance |-> wallet[u].balance + 0, margin |-> wallet[u].margin + x]
      BY <1>4, <2>1 DEF Moves, Base, TypeOK
    <3>2. wallet[u].balance - wallet[u].margin >= x
      BY <1>4, <2>1 DEF Free
    <3> QED BY <1>1, <3>1, <3>2 DEF Free
  <2>2. CASE v # u
    <3>1. wallet'[u] = wallet[u]
      BY <1>4, <2>2 DEF Moves, Base, TypeOK
    <3> QED BY <1>1, <1>4, <2>2, <3>1
  <2> QED BY <2>1, <2>2
<1>5. ASSUME QuietStep PROVE FALSE
  <2>1. UNCHANGED <<wallet, position>>
    BY <1>5, QuietMoney
  <2>2. \A w \in Withdrawals : withdrawal[w] = NoRow => withdrawal'[w].user # u
    <3>1. CASE UNCHANGED withdrawal
      BY <3>1, IdAssumption DEF NoRow
    <3>2. ASSUME NEW r \in Requests, commitApproveWithdrawal(r) \/ commitCompleteWithdrawal(r)
          PROVE  \A w \in Withdrawals : withdrawal[w] = NoRow => withdrawal'[w] = NoRow
      <4>1. txn[r].item \in Withdrawals /\ withdrawal[txn[r].item].status # "NONE"
        BY <3>2 DEF commitApproveWithdrawal, commitCompleteWithdrawal, MayCommit, Base, OpsOnRows
      <4>2. withdrawal[txn[r].item] # NoRow
        BY <4>1 DEF NoRow
      <4> QED BY <3>2, <4>1, <4>2
              DEF commitApproveWithdrawal, commitCompleteWithdrawal, Base, TypeOK
    <3>3. NoRow.user # u
      BY IdAssumption DEF NoRow
    <3>4. ASSUME NEW r \in Requests, BeginStep(r) PROVE UNCHANGED withdrawal
      BY <3>4, BeginEffect DEF rows, Base
    <3> QED BY <1>5, <3>1, <3>2, <3>3, <3>4
            DEF QuietStep, createDeposit, Fail, rows, commitRejectDeposit
  <2> QED BY <1>1, <2>1, <2>2
<1>6. ASSUME NEW r \in Requests, CommitStep(r), ~QuietStep PROVE Free(wallet'[u]) >= 0
  <2>1. CASE \E p \in Positions : commitOpenPosition(r, p)
    <3>1. PICK p \in Positions : commitOpenPosition(r, p)
      BY <2>1
    <3>2. UNCHANGED withdrawal
      BY <3>1 DEF commitOpenPosition
    <3>3. ~\E w \in Withdrawals : withdrawal[w] = NoRow /\ withdrawal'[w].user = u
      BY <3>2, IdAssumption DEF NoRow
    <3> QED BY <1>4, <3>1, <3>3, OpenMoves, MoneyAssumption
  <2>2. CASE \E w \in Withdrawals : commitCreateWithdrawal(r, w)
    <3>1. PICK w \in Withdrawals : commitCreateWithdrawal(r, w)
      BY <2>2
    <3>2. \A v \in Withdrawals : withdrawal[v] = NoRow =>
              withdrawal'[v] = NoRow \/ withdrawal'[v].user = txn[r].user
      BY <3>1 DEF commitCreateWithdrawal, Base, TypeOK
    <3>3. txn[r].user = u \/ ~\E v \in Withdrawals : withdrawal[v] = NoRow /\ withdrawal'[v].user = u
      BY <3>2, IdAssumption DEF NoRow
    <3>4. txn[r].amount \in Nat
      BY <3>1, WithdrawMoves, MoneyAssumption
    <3> QED BY <1>4, <3>1, <3>3, <3>4, WithdrawMoves
  <2>3. CASE commitClosePosition(r)
    <3>1. txn[r].amount \in Nat /\ txn[r].pnl \in Int /\ UNCHANGED withdrawal
          /\ txn[r].user \in Users /\ Moves(txn[r].user, txn[r].pnl, -txn[r].amount)
      <4>1. MayCommit(r, "closePosition") /\ UNCHANGED withdrawal
        BY <2>3 DEF commitClosePosition
      <4>2. /\ txn[r].item \in Positions
            /\ position[txn[r].item] = [status |-> "OPEN", user |-> txn[r].user,
                                        amount |-> txn[r].amount]
        BY <4>1, SerializableCommit DEF SerializableOps, GuardHolds
      <4>3. txn[r].amount \in Margins
        BY <4>2, PositionRow DEF Base
      <4> QED BY <2>3, <4>1, <4>3, CloseMoves, MoneyAssumption
    <3>2. -txn[r].amount \in Int /\ -txn[r].amount <= 0
      BY <3>1
    <3> QED BY <1>3, <3>1, <3>2
  <2>4. CASE commitAdjustWallet(r) \/ commitApproveDeposit(r)
    <3>1. /\ txn[r].user \in Users /\ txn[r].amount \in Int /\ Moves(txn[r].user, txn[r].amount, 0)
          /\ UNCHANGED withdrawal
      BY <2>4, AdjustMoves, ApproveDepositMoves, MoneyAssumption
         DEF commitAdjustWallet, commitApproveDeposit
    <3> QED BY <1>3, <3>1
  <2>5. CASE commitRejectWithdrawal(r)
    <3>1. /\ txn[r].user \in Users /\ txn[r].amount \in Nat /\ Moves(txn[r].user, txn[r].amount, 0)
      BY <2>5, RejectWithdrawalMoves, MoneyAssumption
    <3>2. MayCommit(r, "rejectWithdrawal")
      BY <2>5 DEF commitRejectWithdrawal
    <3>3. txn[r].item \in Withdrawals /\ withdrawal[txn[r].item].status # "NONE"
      BY <3>2, SerializableCommit DEF SerializableOps, GuardHolds
    <3>4. withdrawal[txn[r].item] # NoRow
      BY <3>3 DEF NoRow
    <3>5. \A w \in Withdrawals : withdrawal[w] = NoRow => withdrawal'[w] = NoRow
      BY <2>5, <3>3, <3>4 DEF commitRejectWithdrawal, Base, TypeOK
    <3> QED BY <1>3, <3>1, <3>5
  <2> QED BY <1>6, <2>1, <2>2, <2>3, <2>4, <2>5 DEF CommitStep, QuietStep
<1> QED BY <1>5, <1>6, StepKinds DEF QuietStep, Base

\* No request takes funds that are gone when it commits.
THEOREM FundsChecked == Spec => FundsCheckedAtCommit
BY FundsStep, BaseInvariant, PTL DEF Spec, FundsCheckedAtCommit

-----------------------------------------------------------------------------
(* Sums over a finite set, as in EquityProofs *)

\* The element a sum takes next, and the sums of all parts of a set.
Pick(s) == CHOOSE x \in s : TRUE
Partial(f, S, g) ==
    g = [s \in SUBSET S |-> IF s = {} THEN 0 ELSE f[Pick(s)] + g[s \ {Pick(s)}]]

\* A property of naturals that holds at 0 and is passed on holds of all: the sets
\* of its exceptions have no least element.
LEMMA Exceptions ==
    ASSUME NEW E, E \subseteq Nat, \A n \in E : \E m \in E : m < n
    PROVE  E = {}
<1>. DEFINE R == OpToRel(<, Nat)
<1>1. IsWellFoundedOn(R, Nat)
  BY NatLessThanWellFounded, Zenon
<1>2. ASSUME E # {} PROVE \E x \in E : \A y \in E : ~(<<y, x>> \in R)
  <2>. HIDE DEF R
  <2>. QED  BY <1>1, <1>2, WFMin, Zenon
<1>3. \A x, y \in Nat : y < x => <<y, x>> \in R
  BY Zenon DEF OpToRel
<1>. HIDE DEF R
<1>. QED  BY <1>2, <1>3, Zenon

\* A part without the element taken next.
LEMMA Rest ==
    ASSUME NEW s, IsFiniteSet(s), s # {}
    PROVE  /\ Pick(s) \in s /\ IsFiniteSet(s \ {Pick(s)})
           /\ Cardinality(s) \in Nat /\ Cardinality(s \ {Pick(s)}) = Cardinality(s) - 1
<1>1. Pick(s) \in s
  BY DEF Pick
<1>. QED  BY <1>1, FS_RemoveElement, FS_CardinalityType

LEMMA PartialSums ==
    ASSUME NEW S, IsFiniteSet(S), NEW f
    PROVE  \E g : Partial(f, S, g)
<1>. DEFINE body(g, s) == IF s = {} THEN 0 ELSE f[Pick(s)] + g[s \ {Pick(s)}]
            upTo(g, n) == \A s \in SUBSET S : Cardinality(s) <= n => g[s] = body(g, s)
            E == {n \in Nat : ~ \E g : upTo(g, n)}
<1>1. \A s \in SUBSET S : IsFiniteSet(s) /\ Cardinality(s) \in Nat
  BY FS_Subset, FS_CardinalityType
<1>2. ASSUME NEW n \in E PROVE \E m \in E : m < n
  <2>1. CASE n = 0
    <3>1. upTo([s \in SUBSET S |-> 0], 0)
      BY <1>1, FS_EmptySet
    <3>. QED  BY <2>1, <3>1, <1>2
  <2>2. CASE n # 0
    <3>1. n - 1 \in Nat /\ n - 1 < n
      BY <2>2
    <3>2. SUFFICES ASSUME NEW g, upTo(g, n - 1) PROVE \E h : upTo(h, n)
      BY <1>2, <3>1
    <3>. DEFINE h == [s \in SUBSET S |-> IF Cardinality(s) <= n - 1 THEN g[s] ELSE body(g, s)]
    <3>3. ASSUME NEW s \in SUBSET S, Cardinality(s) <= n PROVE h[s] = body(h, s)
      <4>1. CASE s = {}
        BY <4>1, <3>1, <3>2, FS_EmptySet
      <4>2. CASE s # {}
        <5>1. /\ s \ {Pick(s)} \in SUBSET S /\ Cardinality(s \ {Pick(s)}) <= n - 1
          BY <1>1, <3>1, <3>3, <4>2, Rest
        <5>2. h[s \ {Pick(s)}] = g[s \ {Pick(s)}]
          BY <5>1
        <5>3. h[s] = body(g, s)
          BY <3>2, <3>3
        <5>. QED  BY <4>2, <5>2, <5>3
      <4>. QED  BY <4>1, <4>2
    <3>. QED  BY <3>3
  <2>. QED  BY <2>1, <2>2
<1>3. E = {}
  <2>. HIDE DEF E
  <2>1. E \subseteq Nat
    BY DEF E
  <2>. QED  BY <1>2, <2>1, Exceptions
<1>4. Cardinality(S) \in Nat
  BY FS_CardinalityType
<1>5. PICK g : upTo(g, Cardinality(S))
  BY <1>3, <1>4
<1>. DEFINE h == [s \in SUBSET S |-> g[s]]
<1>6. \A s \in SUBSET S : h[s] = body(h, s)
  <2>. SUFFICES ASSUME NEW s \in SUBSET S PROVE h[s] = body(h, s)
    OBVIOUS
  <2>1. g[s] = body(g, s)
    BY <1>4, <1>5, FS_Subset
  <2>2. s \ {Pick(s)} \in SUBSET S
    OBVIOUS
  <2>. QED  BY <2>1, <2>2
<1>7. h = [s \in SUBSET S |-> body(h, s)]
  BY <1>6
<1>8. Partial(f, S, h)
  BY <1>7 DEF Partial
<1>. QED  BY <1>8
\* Induction over the parts of a finite set, with the parts it holds of as a set.
LEMMA PartsInduction ==
    ASSUME NEW S, IsFiniteSet(S), NEW Good, {} \in Good,
           \A s \in SUBSET S : s # {} /\ s \ {Pick(s)} \in Good => s \in Good
    PROVE  S \in Good
<1>. DEFINE E == {n \in Nat : \E s \in SUBSET S : Cardinality(s) = n /\ s \notin Good}
<1>1. ASSUME NEW n \in E PROVE \E m \in E : m < n
  <2>1. PICK s \in SUBSET S : Cardinality(s) = n /\ s \notin Good
    OBVIOUS
  <2>2. IsFiniteSet(s) /\ s # {}
    BY <2>1, FS_Subset
  <2>3. Cardinality(s \ {Pick(s)}) = n - 1 /\ n - 1 \in Nat
    <3>1. Cardinality(s \ {Pick(s)}) \in Nat
      BY <2>2, Rest, FS_CardinalityType
    <3>2. Cardinality(s \ {Pick(s)}) = Cardinality(s) - 1
      BY <2>2, Rest
    <3>. QED  BY <2>1, <3>1, <3>2
  <2>. QED  BY <2>1, <2>2, <2>3
<1>2. E = {}
  <2>. HIDE DEF E
  <2>1. E \subseteq Nat
    BY DEF E
  <2>. QED  BY <1>1, <2>1, Exceptions
<1>. QED  BY <1>2, FS_CardinalityType

\* g has the sums of the parts of S, one more element at a time.
Accumulates(f, S, g) ==
    /\ g[{}] = 0
    /\ \A s \in SUBSET S : s # {} => g[s] = f[Pick(s)] + g[s \ {Pick(s)}]

\* SumFunction as the last of the partial sums.
LEMMA SumIsPartial ==
    ASSUME NEW S, IsFiniteSet(S), NEW f \in [S -> Int]
    PROVE  \E g : SumFunction(f) = g[S] /\ Accumulates(f, S, g)
<1>. DEFINE g == CHOOSE g : Partial(f, S, g)
<1>1. Partial(f, S, g)
  BY PartialSums
<1>2. SumFunction(f) = g[S]
  <2>1. DOMAIN f = S
    OBVIOUS
  <2>. QED  BY <2>1, Zenon DEF SumFunction, SumFunctionOnSet, FoldFunctionOnSet, MapThenFoldSet, Partial, Pick
<1>. HIDE DEF g
<1>3. \A s \in SUBSET S : g[s] = IF s = {} THEN 0 ELSE f[Pick(s)] + g[s \ {Pick(s)}]
  BY <1>1 DEF Partial
<1>4. {} \in SUBSET S
  OBVIOUS
<1>. QED  BY <1>2, <1>3, <1>4, Zenon DEF Accumulates

\* The sum of integers is one, and that of zeros is zero.
LEMMA SumType ==
    ASSUME NEW S, IsFiniteSet(S), NEW f \in [S -> Int]
    PROVE  /\ SumFunction(f) \in Int
           /\ (\A x \in S : f[x] = 0) => SumFunction(f) = 0
<1>. DEFINE zeros == \A x \in S : f[x] = 0
<1>1. PICK g : SumFunction(f) = g[S] /\ Accumulates(f, S, g)
  BY SumIsPartial, Zenon
<1>. DEFINE Good == {s \in SUBSET S : g[s] \in Int /\ (zeros => g[s] = 0)}
<1>2. {} \in Good
  BY <1>1 DEF Accumulates
<1>3. ASSUME NEW s \in SUBSET S, s # {}, s \ {Pick(s)} \in Good PROVE s \in Good
  <2>1. Pick(s) \in S
    BY <1>3 DEF Pick
  <2>2. f[Pick(s)] \in Int /\ (zeros => f[Pick(s)] = 0)
    BY <2>1
  <2>3. g[s] = f[Pick(s)] + g[s \ {Pick(s)}]
    BY <1>1, <1>3 DEF Accumulates
  <2>. HIDE DEF zeros
  <2>4. g[s \ {Pick(s)}] \in Int /\ (zeros => g[s \ {Pick(s)}] = 0)
    BY <1>3, Zenon
  <2>5. g[s] \in Int /\ (zeros => g[s] = 0)
    BY <2>2, <2>3, <2>4
  <2>. QED  BY <2>5
<1>4. S \in Good
  <2>. HIDE DEF Good
  <2>. QED  BY <1>2, <1>3, PartsInduction
<1>. QED  BY <1>1, <1>4

\* Where one term changes, the sum changes by as much.
LEMMA SumOfChange ==
    ASSUME NEW S, IsFiniteSet(S), NEW f \in [S -> Int], NEW h \in [S -> Int],
           NEW x \in S, \A y \in S \ {x} : h[y] = f[y]
    PROVE  SumFunction(h) = SumFunction(f) + (h[x] - f[x])
<1>1. PICK F : SumFunction(f) = F[S] /\ Accumulates(f, S, F)
  BY SumIsPartial, Zenon
<1>2. PICK H : SumFunction(h) = H[S] /\ Accumulates(h, S, H)
  BY SumIsPartial, Zenon
<1>. DEFINE change(s) == IF x \in s THEN h[x] - f[x] ELSE 0
            Good == {s \in SUBSET S : /\ F[s] \in Int /\ H[s] \in Int
                                      /\ H[s] = F[s] + change(s)}
<1>3. {} \in Good
  BY <1>1, <1>2 DEF Accumulates
<1>4. ASSUME NEW s \in SUBSET S, s # {}, s \ {Pick(s)} \in Good PROVE s \in Good
  <2>. DEFINE c == Pick(s)
              r == s \ {c}
  <2>1. c \in s
    BY <1>4 DEF Pick
  <2>2. F[s] = f[c] + F[r] /\ H[s] = h[c] + H[r] /\ F[r] \in Int /\ H[r] \in Int
        /\ H[r] = F[r] + change(r)
    <3>. HIDE DEF change
    <3>. QED  BY <1>1, <1>2, <1>4 DEF Accumulates
  <2>3. /\ f[c] \in Int /\ h[c] \in Int /\ change(r) \in Int
        /\ change(s) = change(r) + (h[c] - f[c])
    <3>. HIDE DEF c
    <3>. QED  BY <2>1
  <2>4. F[s] \in Int /\ H[s] \in Int /\ H[s] = F[s] + change(s)
    <3>. HIDE DEF c, r, change
    <3>. QED  BY <2>2, <2>3
  <2>. QED  BY <2>4
<1>5. S \in Good
  <2>. HIDE DEF Good
  <2>. QED  BY <1>3, <1>4, PartsInduction
<1>. QED  BY <1>1, <1>2, <1>5

-----------------------------------------------------------------------------
(* The margins of the open positions *)

MarginColumns == \A u \in Users : MarginOfOpen(u) \in [Positions -> Int]

LEMMA MarginColumnsTyped == Base => MarginColumns
<1> SUFFICES ASSUME Base, NEW u \in Users, NEW p \in Positions, position[p].status = "OPEN"
             PROVE  position[p].amount \in Int
  BY DEF MarginColumns, MarginOfOpen
<1>1. position[p].amount \in Margins
  BY PositionRow DEF Base
<1>2. Margins \subseteq Int
  BY MoneyAssumption
<1> QED BY <1>1, <1>2

\* A wallet's margin moves by what its user's open positions change.
LEMMA MarginMoves ==
    ASSUME Base, Base', MarginMatchesOpenPositions, NEW u \in Users, NEW c, NEW h \in Int,
           Moves(u, c, h), NEW p \in Positions, \A q \in Positions \ {p} : position'[q] = position[q],
           \A v \in Users : MarginOfOpen(v)'[p] = MarginOfOpen(v)[p] + (IF v = u THEN h ELSE 0)
    PROVE  MarginMatchesOpenPositions'
<1> SUFFICES ASSUME NEW v \in Users
             PROVE  wallet'[v].margin = SumFunction(MarginOfOpen(v)')
  BY DEF MarginMatchesOpenPositions
<1>1. MarginColumns /\ MarginColumns'
  BY MarginColumnsTyped, PTL
<1>2. /\ MarginOfOpen(v) \in [Positions -> Int] /\ MarginOfOpen(v)' \in [Positions -> Int]
      /\ IsFiniteSet(Positions)
  BY <1>1, IdAssumption DEF MarginColumns
<1>3. \A q \in Positions \ {p} : MarginOfOpen(v)'[q] = MarginOfOpen(v)[q]
  BY DEF MarginOfOpen
<1>4. SumFunction(MarginOfOpen(v)')
          = SumFunction(MarginOfOpen(v)) + (MarginOfOpen(v)'[p] - MarginOfOpen(v)[p])
  BY <1>2, <1>3, SumOfChange
<1>5. SumFunction(MarginOfOpen(v)) \in Int /\ MarginOfOpen(v)[p] \in Int
  BY <1>2, SumType
<1>6. wallet[v].margin = SumFunction(MarginOfOpen(v))
  BY DEF MarginMatchesOpenPositions
<1>7. wallet'[v].margin = wallet[v].margin + (IF v = u THEN h ELSE 0)
  <2>1. /\ wallet' = [wallet EXCEPT ![u] = [balance |-> wallet[u].balance + c,
                                            margin |-> wallet[u].margin + h]]
        /\ DOMAIN wallet = Users /\ wallet[v].margin \in Int
    BY DEF Moves, Base, TypeOK, Money
  <2> QED BY <2>1
<1> QED BY <1>4, <1>5, <1>6, <1>7

LEMMA OpenMargins ==
    ASSUME Base, Base', MarginMatchesOpenPositions,
           NEW r \in Requests, NEW p \in Positions, commitOpenPosition(r, p)
    PROVE  MarginMatchesOpenPositions'
<1> DEFINE t == txn[r]
<1>1. t.user \in Users /\ t.amount \in Int /\ Moves(t.user, 0, t.amount)
  <2>1. t.user \in Users /\ t.amount \in Margins /\ Moves(t.user, 0, t.amount)
    BY OpenMoves
  <2>2. Margins \subseteq Int
    BY MoneyAssumption
  <2> QED BY <2>1, <2>2
<1>2. /\ position[p].status = "NONE"
      /\ position' = [position EXCEPT ![p] = [status |-> "OPEN", user |-> t.user,
                                              amount |-> t.amount]]
  BY DEF commitOpenPosition, NoRow
<1>3. /\ position'[p].status = "OPEN" /\ position'[p].user = t.user /\ position'[p].amount = t.amount
      /\ \A q \in Positions \ {p} : position'[q] = position[q]
  BY <1>2 DEF Base, TypeOK
<1>4. PICK u \in Users, h \in Int : u = t.user /\ h = t.amount
  BY <1>1
<1>5. \A v \in Users : MarginOfOpen(v)'[p] = MarginOfOpen(v)[p] + (IF v = u THEN h ELSE 0)
  BY <1>2, <1>3, <1>4 DEF MarginOfOpen
<1>6. Moves(u, 0, h)
  BY <1>1, <1>4
<1> HIDE DEF t
<1> QED BY <1>3, <1>5, <1>6, MarginMoves

LEMMA CloseMargins ==
    ASSUME Base, Base', MarginMatchesOpenPositions, NEW r \in Requests, commitClosePosition(r)
    PROVE  MarginMatchesOpenPositions'
<1> DEFINE t == txn[r]
<1>1. /\ t.user \in Users /\ t.amount \in Int /\ Moves(t.user, t.pnl, -t.amount)
      /\ -t.amount \in Int /\ t.pnl \in Pnls
  BY CloseMoves
<1>2. /\ t.item \in Positions
      /\ position[t.item] = [status |-> "OPEN", user |-> t.user, amount |-> t.amount]
  <2>1. MayCommit(r, "closePosition")
    BY DEF commitClosePosition
  <2> QED BY <2>1, SerializableCommit DEF SerializableOps, GuardHolds
<1>3. position' = [position EXCEPT ![t.item].status = "CLOSED"]
  BY DEF commitClosePosition
<1>4. PICK u \in Users, h \in Int, p \in Positions, c \in Int :
          u = t.user /\ h = -t.amount /\ p = t.item /\ c = t.pnl
  BY <1>1, <1>2, MoneyAssumption
<1>5. /\ position'[p].status = "CLOSED" /\ \A q \in Positions \ {p} : position'[q] = position[q]
      /\ position[p].status = "OPEN" /\ position[p].user = u /\ position[p].amount = -h
  BY <1>1, <1>2, <1>3, <1>4 DEF Base, TypeOK
<1>6. \A v \in Users : MarginOfOpen(v)'[p] = MarginOfOpen(v)[p] + (IF v = u THEN h ELSE 0)
  BY <1>5 DEF MarginOfOpen
<1>7. Moves(u, c, h)
  BY <1>1, <1>4
<1> HIDE DEF t
<1> QED BY <1>5, <1>6, <1>7, MarginMoves

\* Cash moves no margin and no position.
LEMMA CashMargins ==
    ASSUME Base, MarginMatchesOpenPositions, NEW u \in Users, NEW c, Moves(u, c, 0),
           UNCHANGED position
    PROVE  MarginMatchesOpenPositions'
<1>1. \A v \in Users : wallet'[v].margin = wallet[v].margin
  BY DEF Moves, Base, TypeOK, Money
<1> QED BY <1>1 DEF MarginMatchesOpenPositions, MarginOfOpen

LEMMA MarginStep == Base /\ MarginMatchesOpenPositions /\ [Next]_vars => MarginMatchesOpenPositions'
<1> SUFFICES ASSUME Base, MarginMatchesOpenPositions, [Next]_vars
             PROVE  MarginMatchesOpenPositions'
  OBVIOUS
<1>1. Base'
  BY BaseStep
<1>2. CASE QuietStep \/ UNCHANGED vars
  BY <1>2, QuietMoney DEF vars, MarginMatchesOpenPositions, MarginOfOpen
<1>3. ASSUME NEW r \in Requests, CommitStep(r) PROVE MarginMatchesOpenPositions'
  <2>1. CASE \/ commitRejectDeposit(r) \/ commitApproveWithdrawal(r)
             \/ commitCompleteWithdrawal(r)
    BY <1>2, <2>1 DEF QuietStep
  <2>2. CASE \E p \in Positions : commitOpenPosition(r, p)
    BY <1>1, <2>2, OpenMargins
  <2>3. CASE commitClosePosition(r)
    BY <1>1, <2>3, CloseMargins
  <2>4. CASE \E w \in Withdrawals : commitCreateWithdrawal(r, w)
    BY <2>4, WithdrawMoves, CashMargins DEF commitCreateWithdrawal
  <2>5. CASE commitAdjustWallet(r)
    BY <2>5, AdjustMoves, CashMargins DEF commitAdjustWallet
  <2>6. CASE commitApproveDeposit(r)
    BY <2>6, ApproveDepositMoves, CashMargins DEF commitApproveDeposit
  <2>7. CASE commitRejectWithdrawal(r)
    BY <2>7, RejectWithdrawalMoves, CashMargins DEF commitRejectWithdrawal
  <2> QED BY <1>3, <2>1, <2>2, <2>3, <2>4, <2>5, <2>6, <2>7 DEF CommitStep
<1> QED BY <1>2, <1>3, StepKinds DEF QuietStep, Base

\* However requests interleave and fail, and whatever is closed how often: marginUsed
\* of every wallet is the sum of the margins of its user's OPEN positions.
THEOREM MarginIsOfOpenPositions == Spec => []MarginMatchesOpenPositions
<1>1. Init => MarginMatchesOpenPositions
  <2> SUFFICES ASSUME Init, NEW u \in Users
               PROVE  wallet[u].margin = SumFunction(MarginOfOpen(u))
    BY DEF MarginMatchesOpenPositions
  <2>1. MarginOfOpen(u) \in [Positions -> Int] /\ \A p \in Positions : MarginOfOpen(u)[p] = 0
    BY DEF Init, MarginOfOpen, NoRow
  <2>2. SumFunction(MarginOfOpen(u)) = 0
    BY <2>1, SumType, IdAssumption
  <2> QED BY <2>2 DEF Init
<1> QED BY <1>1, MarginStep, BaseInvariant, PTL DEF Spec
=============================================================================
