\* Two admins handle the same row at the same time.
CONSTANTS
    u1 = u1
    u2 = u2
    d1 = d1
    w1 = w1
    p1 = p1
    p2 = p2
    r1 = r1
    r2 = r2
    r3 = r3
    NoUser = NoUser
    NoItem = NoItem
    Users = {u1}
    Deposits = {d1}
    Withdrawals = {w1}
    Positions = {p1, p2}
    Requests = {r1, r2}
    Amounts = {2}
    Margins = {1}
    Pnls <- MCPnls
    MaxMoney = 4
\* A wallet in deficit whose user has used all ids has no request left to make.
CHECK_DEADLOCK FALSE
SPECIFICATION Spec
SYMMETRY Symmetry
INVARIANTS
    RefundedIsNotPaid
