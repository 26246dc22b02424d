------------------------------ MODULE AtomicWallet ------------------------------
(***************************************************************************)
(* What the wallet promises, with no transactions in it: every accepted    *)
(* request takes effect at once and once, on the wallet as it then is.     *)
(* Funds are sufficient in the state in which they are taken, a deposit is *)
(* credited once, and a close gives back the margin its position locked.   *)
(***************************************************************************)
EXTENDS Integers

CONSTANTS Users, Deposits, Positions, Amounts, Margins, Pnls, Nobody

VARIABLES
    account,    \* balance and margin of each user
    credited,   \* the deposits that have been credited
    open        \* owner and margin of each open position

vars == <<account, credited, open>>

Closed == [user |-> Nobody, margin |-> 0]

Init ==
    /\ account = [u \in Users |-> [balance |-> 0, margin |-> 0]]
    /\ credited = {}
    /\ open = [p \in Positions |-> Closed]

Available(u) == account[u].balance - account[u].margin
Move(u, cash, margin) ==
    account' = [account EXCEPT ![u] = [balance |-> @.balance + cash, margin |-> @.margin + margin]]

OpenPosition(u, p, m) ==
    /\ Available(u) >= m /\ open[p] = Closed
    /\ Move(u, 0, m)
    /\ open' = [open EXCEPT ![p] = [user |-> u, margin |-> m]] /\ UNCHANGED credited

ClosePosition(p, pnl) ==
    /\ open[p] # Closed
    /\ Move(open[p].user, pnl, -open[p].margin)
    /\ open' = [open EXCEPT ![p] = Closed] /\ UNCHANGED credited

Withdraw(u, a) == Available(u) >= a /\ Move(u, -a, 0) /\ UNCHANGED <<credited, open>>

Refund(u, a) == Move(u, a, 0) /\ UNCHANGED <<credited, open>>

CreditDeposit(d, u, a) ==
    /\ d \notin credited
    /\ Move(u, a, 0)
    /\ credited' = credited \cup {d} /\ UNCHANGED open

Adjust(u, delta) ==
    /\ account[u].balance + delta >= 0
    /\ Move(u, delta, 0) /\ UNCHANGED <<credited, open>>

Next ==
    \/ \E u \in Users, p \in Positions, m \in Margins : OpenPosition(u, p, m)
    \/ \E p \in Positions, pnl \in Pnls : ClosePosition(p, pnl)
    \/ \E u \in Users, a \in Amounts :
          Withdraw(u, a) \/ Refund(u, a) \/ Adjust(u, a) \/ Adjust(u, -a)
    \/ \E d \in Deposits, u \in Users, a \in Amounts : CreditDeposit(d, u, a)

Spec == Init /\ [][Next]_vars
=============================================================================
