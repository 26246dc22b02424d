------------------------------ MODULE EquityProofs ------------------------------
(***************************************************************************)
(* Theorems about Equity, for every set of positions, symbols, quotes and  *)
(* orders, and every number of digits: the rows explain the wallet, and    *)
(* trades are worth what the views of them show.                           *)
(***************************************************************************)
EXTENDS Equity, FiniteSetTheorems, WellFoundedInduction, TLAPS

(***************************************************************************)
(* Sums                                                                    *)
(***************************************************************************)

\* The element a sum takes next, and the sums of all parts of a set.
Pick(s) == CHOOSE x \in s : TRUE
Partial(f, S, g) ==
    g = [s \in SUBSET S |-> IF s = {} THEN 0 ELSE f[Pick(s)] + g[s \ {Pick(s)}]]

\* A property of naturals that holds at 0 and is passed on holds of all: the sets
\* of its exceptions have no least element.
LEMMA Exceptions ==
    ASSUME NEW E, E \subseteq Nat, \A n \in E : \E m \in E : m < n
    PROVE  E = {}
<1>. DEFINE R == OpToRel(<, Nat)
<1>1. IsWellFoundedOn(R, Nat)
  BY NatLessThanWellFounded, Zenon
<1>2. ASSUME E # {} PROVE \E x \in E : \A y \in E : ~(<<y, x>> \in R)
  <2>. HIDE DEF R
  <2>. QED  BY <1>1, <1>2, WFMin, Zenon
<1>3. \A x, y \in Nat : y < x => <<y, x>> \in R
  BY Zenon DEF OpToRel
<1>. HIDE DEF R
<1>. QED  BY <1>2, <1>3, Zenon

\* A part without the element taken next.
LEMMA Rest ==
    ASSUME NEW s, IsFiniteSet(s), s # {}
    PROVE  /\ Pick(s) \in s /\ IsFiniteSet(s \ {Pick(s)})
           /\ Cardinality(s) \in Nat /\ Cardinality(s \ {Pick(s)}) = Cardinality(s) - 1
<1>1. Pick(s) \in s
  BY DEF Pick
<1>. QED  BY <1>1, FS_RemoveElement, FS_CardinalityType

LEMMA PartialSums ==
    ASSUME NEW S, IsFiniteSet(S), NEW f
    PROVE  \E g : Partial(f, S, g)
<1>. DEFINE body(g, s) == IF s = {} THEN 0 ELSE f[Pick(s)] + g[s \ {Pick(s)}]
            upTo(g, n) == \A s \in SUBSET S : Cardinality(s) <= n => g[s] = body(g, s)
            E == {n \in Nat : ~ \E g : upTo(g, n)}
<1>1. \A s \in SUBSET S : IsFiniteSet(s) /\ Cardinality(s) \in Nat
  BY FS_Subset, FS_CardinalityType
<1>2. ASSUME NEW n \in E PROVE \E m \in E : m < n
  <2>1. CASE n = 0
    <3>1. upTo([s \in SUBSET S |-> 0], 0)
      BY <1>1, FS_EmptySet
    <3>. QED  BY <2>1, <3>1, <1>2
  <2>2. CASE n # 0
    <3>1. n - 1 \in Nat /\ n - 1 < n
      BY <2>2
    <3>2. SUFFICES ASSUME NEW g, upTo(g, n - 1) PROVE \E h : upTo(h, n)
      BY <1>2, <3>1
    <3>. DEFINE h == [s \in SUBSET S |-> IF Cardinality(s) <= n - 1 THEN g[s] ELSE body(g, s)]
    <3>3. ASSUME NEW s \in SUBSET S, Cardinality(s) <= n PROVE h[s] = body(h, s)
      <4>1. CASE s = {}
        BY <4>1, <3>1, <3>2, FS_EmptySet
      <4>2. CASE s # {}
        <5>1. /\ s \ {Pick(s)} \in SUBSET S /\ Cardinality(s \ {Pick(s)}) <= n - 1
          BY <1>1, <3>1, <3>3, <4>2, Rest
        <5>2. h[s \ {Pick(s)}] = g[s \ {Pick(s)}]
          BY <5>1
        <5>3. h[s] = body(g, s)
          BY <3>2, <3>3
        <5>. QED  BY <4>2, <5>2, <5>3
      <4>. QED  BY <4>1, <4>2
    <3>. QED  BY <3>3
  <2>. QED  BY <2>1, <2>2
<1>3. E = {}
  <2>. HIDE DEF E
  <2>1. E \subseteq Nat
    BY DEF E
  <2>. QED  BY <1>2, <2>1, Exceptions
<1>4. Cardinality(S) \in Nat
  BY FS_CardinalityType
<1>5. PICK g : upTo(g, Cardinality(S))
  BY <1>3, <1>4
<1>. DEFINE h == [s \in SUBSET S |-> g[s]]
<1>6. \A s \in SUBSET S : h[s] = body(h, s)
  <2>. SUFFICES ASSUME NEW s \in SUBSET S PROVE h[s] = body(h, s)
    OBVIOUS
  <2>1. g[s] = body(g, s)
    BY <1>4, <1>5, FS_Subset
  <2>2. s \ {Pick(s)} \in SUBSET S
    OBVIOUS
  <2>. QED  BY <2>1, <2>2
<1>7. h = [s \in SUBSET S |-> body(h, s)]
  BY <1>6
<1>8. Partial(f, S, h)
  BY <1>7 DEF Partial
<1>. QED  BY <1>8
\* Induction over the parts of a finite set, with the parts it holds of as a set.
LEMMA PartsInduction ==
    ASSUME NEW S, IsFiniteSet(S), NEW Good, {} \in Good,
           \A s \in SUBSET S : s # {} /\ s \ {Pick(s)} \in Good => s \in Good
    PROVE  S \in Good
<1>. DEFINE E == {n \in Nat : \E s \in SUBSET S : Cardinality(s) = n /\ s \notin Good}
<1>1. ASSUME NEW n \in E PROVE \E m \in E : m < n
  <2>1. PICK s \in SUBSET S : Cardinality(s) = n /\ s \notin Good
    OBVIOUS
  <2>2. IsFiniteSet(s) /\ s # {}
    BY <2>1, FS_Subset
  <2>3. Cardinality(s \ {Pick(s)}) = n - 1 /\ n - 1 \in Nat
    <3>1. Cardinality(s \ {Pick(s)}) \in Nat
      BY <2>2, Rest, FS_CardinalityType
    <3>2. Cardinality(s \ {Pick(s)}) = Cardinality(s) - 1
      BY <2>2, Rest
    <3>. QED  BY <2>1, <3>1, <3>2
  <2>. QED  BY <2>1, <2>2, <2>3
<1>2. E = {}
  <2>. HIDE DEF E
  <2>1. E \subseteq Nat
    BY DEF E
  <2>. QED  BY <1>1, <2>1, Exceptions
<1>. QED  BY <1>2, FS_CardinalityType

\* g has the sums of the parts of S, one more element at a time.
Accumulates(f, S, g) ==
    /\ g[{}] = 0
    /\ \A s \in SUBSET S : s # {} => g[s] = f[Pick(s)] + g[s \ {Pick(s)}]

\* SumFunction as the last of the partial sums.
LEMMA SumIsPartial ==
    ASSUME NEW S, IsFiniteSet(S), NEW f \in [S -> Int]
    PROVE  \E g : SumFunction(f) = g[S] /\ Accumulates(f, S, g)
<1>. DEFINE g == CHOOSE g : Partial(f, S, g)
<1>1. Partial(f, S, g)
  BY PartialSums
<1>2. SumFunction(f) = g[S]
  <2>1. DOMAIN f = S
    OBVIOUS
  <2>. QED  BY <2>1, Zenon DEF SumFunction, SumFunctionOnSet, FoldFunctionOnSet, MapThenFoldSet, Partial, Pick
<1>. HIDE DEF g
<1>3. \A s \in SUBSET S : g[s] = IF s = {} THEN 0 ELSE f[Pick(s)] + g[s \ {Pick(s)}]
  BY <1>1 DEF Partial
<1>4. {} \in SUBSET S
  OBVIOUS
<1>. QED  BY <1>2, <1>3, <1>4, Zenon DEF Accumulates

\* The sum of integers is one, and that of zeros is zero.
LEMMA SumType ==
    ASSUME NEW S, IsFiniteSet(S), NEW f \in [S -> Int]
    PROVE  /\ SumFunction(f) \in Int
           /\ (\A x \in S : f[x] = 0) => SumFunction(f) = 0
<1>. DEFINE zeros == \A x \in S : f[x] = 0
<1>1. PICK g : SumFunction(f) = g[S] /\ Accumulates(f, S, g)
  BY SumIsPartial, Zenon
<1>. DEFINE Good == {s \in SUBSET S : g[s] \in Int /\ (zeros => g[s] = 0)}
<1>2. {} \in Good
  BY <1>1 DEF Accumulates
<1>3. ASSUME NEW s \in SUBSET S, s # {}, s \ {Pick(s)} \in Good PROVE s \in Good
  <2>1. Pick(s) \in S
    BY <1>3 DEF Pick
  <2>2. f[Pick(s)] \in Int /\ (zeros => f[Pick(s)] = 0)
    BY <2>1
  <2>3. g[s] = f[Pick(s)] + g[s \ {Pick(s)}]
    BY <1>1, <1>3 DEF Accumulates
  <2>. HIDE DEF zeros
  <2>4. g[s \ {Pick(s)}] \in Int /\ (zeros => g[s \ {Pick(s)}] = 0)
    BY <1>3, Zenon
  <2>5. g[s] \in Int /\ (zeros => g[s] = 0)
    BY <2>2, <2>3, <2>4
  <2>. QED  BY <2>5
<1>4. S \in Good
  <2>. HIDE DEF Good
  <2>. QED  BY <1>2, <1>3, PartsInduction
<1>. QED  BY <1>1, <1>4

\* Where one term changes, the sum changes by as much.
LEMMA SumOfChange ==
    ASSUME NEW S, IsFiniteSet(S), NEW f \in [S -> Int], NEW h \in [S -> Int],
           NEW x \in S, \A y \in S \ {x} : h[y] = f[y]
    PROVE  SumFunction(h) = SumFunction(f) + (h[x] - f[x])
<1>1. PICK F : SumFunction(f) = F[S] /\ Accumulates(f, S, F)
  BY SumIsPartial, Zenon
<1>2. PICK H : SumFunction(h) = H[S] /\ Accumulates(h, S, H)
  BY SumIsPartial, Zenon
<1>. DEFINE change(s) == IF x \in s THEN h[x] - f[x] ELSE 0
            Good == {s \in SUBSET S : /\ F[s] \in Int /\ H[s] \in Int
                                      /\ H[s] = F[s] + change(s)}
<1>3. {} \in Good
  BY <1>1, <1>2 DEF Accumulates
<1>4. ASSUME NEW s \in SUBSET S, s # {}, s \ {Pick(s)} \in Good PROVE s \in Good
  <2>. DEFINE c == Pick(s)
              r == s \ {c}
  <2>1. c \in s
    BY <1>4 DEF Pick
  <2>2. F[s] = f[c] + F[r] /\ H[s] = h[c] + H[r] /\ F[r] \in Int /\ H[r] \in Int
        /\ H[r] = F[r] + change(r)
    <3>. HIDE DEF change
    <3>. QED  BY <1>1, <1>2, <1>4 DEF Accumulates
  <2>3. /\ f[c] \in Int /\ h[c] \in Int /\ change(r) \in Int
        /\ change(s) = change(r) + (h[c] - f[c])
    <3>. HIDE DEF c
    <3>. QED  BY <2>1
  <2>4. F[s] \in Int /\ H[s] \in Int /\ H[s] = F[s] + change(s)
    <3>. HIDE DEF c, r, change
    <3>. QED  BY <2>2, <2>3
  <2>. QED  BY <2>4
<1>5. S \in Good
  <2>. HIDE DEF Good
  <2>. QED  BY <1>3, <1>4, PartsInduction
<1>. QED  BY <1>1, <1>2, <1>5

(***************************************************************************)
(* Rounding                                                                *)
(***************************************************************************)

\* Of a division by a positive number.
LEMMA Division ==
    ASSUME NEW a \in Int, NEW b \in Nat \ {0}
    PROVE  \E r \in 0 .. b - 1 : a \div b \in Int /\ a = b * (a \div b) + r
<1>1. a \div b \in Int /\ a % b \in 0 .. b - 1
  OBVIOUS
<1>2. a = b * (a \div b) + (a % b)
  OBVIOUS
<1>. QED  BY <1>1, <1>2

\* RoundDiv is off by half of the divisor at most.
LEMMA Rounding ==
    ASSUME NEW n \in Int, NEW d \in Nat \ {0}
    PROVE  /\ RoundDiv(n, d) \in Int
           /\ 2 * (d * RoundDiv(n, d)) - 2 * n \in -d .. d
<1>. DEFINE a == IF n >= 0 THEN 2 * n + d ELSE d - 2 * n
            b == 2 * d
            q == a \div b
<1>1. a \in Int /\ b \in Nat \ {0}
  OBVIOUS
<1>2. PICK r \in 0 .. b - 1 : q \in Int /\ a = b * q + r
  <2>. HIDE DEF a, b
  <2>. QED  BY <1>1, Division
<1>3. RoundDiv(n, d) = IF n >= 0 THEN q ELSE -q
  BY DEF RoundDiv
<1>4. b * q = 2 * (d * q) /\ d * (-q) = -(d * q) /\ d * q \in Int
  <2>. HIDE DEF q
  <2>. QED  BY <1>2
<1>5. q \in Int
  BY <1>2
<1>. HIDE DEF q
<1>6. CASE n >= 0
  BY <1>2, <1>3, <1>4, <1>5, <1>6
<1>7. CASE ~(n >= 0)
  BY <1>2, <1>3, <1>4, <1>5, <1>7
<1>. QED  BY <1>6, <1>7

\* A common factor.
LEMMA Factor ==
    ASSUME NEW d \in Nat \ {0}, NEW x \in Int, NEW y \in Int
    PROVE  /\ d * x \in Int /\ d * (x + y) = d * x + d * y /\ d * (x - y) = d * x - d * y
           /\ d * x <= d * y => x <= y
<1>1. d * x \in Int /\ d * (x + y) = d * x + d * y /\ d * (x - y) = d * x - d * y
  OBVIOUS
<1>2. ASSUME y + 1 <= x PROVE d * y < d * x
  <2>1. PICK e \in Nat : x = y + (1 + e)
    BY <1>2
  <2>2. d * x = d * y + (d + d * e) /\ d * e \in Nat
    BY <2>1
  <2>. QED  BY <2>2
<1>. QED  BY <1>1, <1>2

\* What is not negative is not rounded to less than 0.
LEMMA RoundingNat ==
    ASSUME NEW n \in Nat, NEW d \in Nat \ {0}
    PROVE  RoundDiv(n, d) \in Nat
<1>1. RoundDiv(n, d) \in Int /\ 2 * (d * RoundDiv(n, d)) - 2 * n \in -d .. d
  BY Rounding
<1>2. d * RoundDiv(n, d) \in Int /\ -d <= 2 * (d * RoundDiv(n, d))
  BY <1>1, Factor
<1>3. RoundDiv(n, d) >= 0
  <2>. SUFFICES ASSUME RoundDiv(n, d) <= -1 PROVE FALSE
    BY <1>1
  <2>1. d * RoundDiv(n, d) <= d * (-1)
    BY <1>1
  <2>. QED  BY <1>2, <2>1
<1>. QED  BY <1>1, <1>3

\* The balance and the result of the row, both rounded, of balance b and result r:
\* they differ by one digit at most, and half a digit is the most that is gained.
LEMMA CloseRounds ==
    ASSUME NEW b \in Int, NEW r \in Int
    PROVE  LET new == RoundDiv(Scale * b + r, Scale)
               row == RoundDiv(r, Scale)
           IN  /\ new \in Int /\ row \in Int
               /\ new - b - row \in -1 .. 1
               /\ 2 * (Scale * new - Scale * b - r) <= Scale
<1>. DEFINE new == RoundDiv(Scale * b + r, Scale)
            row == RoundDiv(r, Scale)
            k == new - b - row
<1>1. Scale \in Nat \ {0} /\ Scale * b \in Int
  BY ScaleAssumption
<1>2. /\ new \in Int /\ 2 * (Scale * new) - 2 * (Scale * b + r) \in -Scale .. Scale
      /\ row \in Int /\ 2 * (Scale * row) - 2 * r \in -Scale .. Scale
  BY <1>1, Rounding
<1>. HIDE DEF new, row
<1>3. /\ Scale * new \in Int /\ Scale * row \in Int
      /\ k \in Int /\ Scale * k = Scale * new - Scale * b - Scale * row
  <2>1. Scale * (new - b) = Scale * new - Scale * b /\ new - b \in Int
    BY <1>1, <1>2, Factor
  <2>2. Scale * ((new - b) - row) = Scale * (new - b) - Scale * row
    BY <1>1, <1>2, <2>1, Factor
  <2>. QED  BY <1>1, <1>2, <2>1, <2>2, Factor
<1>4. -Scale <= Scale * k /\ Scale * k <= Scale
  BY <1>1, <1>2, <1>3
<1>5. Scale * k <= Scale * 1 /\ Scale * (-1) <= Scale * k
  BY <1>1, <1>4
<1>6. k <= 1 /\ -1 <= k
  BY <1>1, <1>3, <1>5, Factor
<1>7. 2 * (Scale * new - Scale * b - r) <= Scale
  BY <1>1, <1>2, <1>3
<1>. QED  BY <1>2, <1>3, <1>6, <1>7 DEF new, row

\* The same result in the last digit and in cents: half a cent and half a digit.
LEMMA ViewRounds ==
    ASSUME NEW r \in Int
    PROVE  LET gap == RoundDiv(r, Scale) - Cent * RoundDiv(r, Scale * Cent)
           IN  2 * gap \in -(Cent + 1) .. Cent + 1
<1>. DEFINE row == RoundDiv(r, Scale)
            view == RoundDiv(r, Scale * Cent)
            gap == row - Cent * view
<1>1. Scale \in Nat \ {0} /\ Cent \in Nat \ {0} /\ Scale * Cent \in Nat \ {0}
  BY ScaleAssumption
<1>2. /\ row \in Int /\ 2 * (Scale * row) - 2 * r \in -Scale .. Scale
      /\ view \in Int /\ 2 * ((Scale * Cent) * view) - 2 * r \in -(Scale * Cent) .. Scale * Cent
  BY <1>1, Rounding
<1>. HIDE DEF row, view
<1>3. /\ Cent * view \in Int /\ gap \in Int /\ (Scale * Cent) * view = Scale * (Cent * view)
      /\ Scale * row \in Int /\ Scale * (Cent * view) \in Int
      /\ Scale * gap = Scale * row - Scale * (Cent * view)
  <2>1. Cent * view \in Int /\ (Scale * Cent) * view = Scale * (Cent * view)
    BY <1>1, <1>2
  <2>. QED  BY <1>1, <1>2, <2>1, Factor
<1>4. Scale * (2 * gap) = 2 * (Scale * gap) /\ Scale * (Cent + 1) = Scale * Cent + Scale
      /\ Scale * (-(Cent + 1)) = -(Scale * Cent + Scale)
  BY <1>1, <1>3
<1>5. Scale * (2 * gap) <= Scale * (Cent + 1) /\ Scale * (-(Cent + 1)) <= Scale * (2 * gap)
  <2>. HIDE DEF gap
  <2>. QED  BY <1>1, <1>2, <1>3, <1>4
<1>6. 2 * gap <= Cent + 1 /\ -(Cent + 1) <= 2 * gap
  <2>. HIDE DEF gap
  <2>. QED  BY <1>1, <1>3, <1>5, Factor
<1>. QED  BY <1>1, <1>3, <1>6 DEF row, view

(***************************************************************************)
(* Types, and the sums of the columns                                      *)
(***************************************************************************)

\* Types of the variables; a call names an order that asks for something, or a
\* position that is still open.
Types ==
    /\ sym \in Symbols /\ quote \in Quotes \cup {NoQuote}
    /\ wallet \in [balance : Int, marginUsed : Int]
    /\ position \in [Ids -> Row \cup {NoRow}]
    /\ call \in Order \cup Close \cup {NoCall}
    /\ call # NoCall /\ call.op = "open" => call \in Order /\ call.lots > 0
    /\ call # NoCall /\ call.op = "close" => call \in Close /\ call.id \in Open

\* The columns that are summed, as functions on the ids.
MarginColumn == [id \in Ids |-> IF id \in Open THEN position[id].marginUsed ELSE 0]
ResultColumn == [id \in Ids |-> IF id \in Closed THEN position[id].realizedPnl ELSE 0]
worth(p, q) == p.lots * sym.contractSize * sideSign(p.side)
                   * (markPrice(p.side, q) - p.entryPrice)
WorthColumn(q) == [id \in Ids |-> IF id \in Open THEN worth(position[id], q) ELSE 0]

LEMMA SumsOfColumns ==
    /\ MarginSumsUp <=> wallet.marginUsed = SumFunction(MarginColumn)
    /\ DriftIsBounded <=> wallet.balance - InitialBalance - SumFunction(ResultColumn)
                              \in -Cardinality(Closed) .. Cardinality(Closed)
    /\ \A q \in Quotes : equity(q) = Scale * wallet.balance + SumFunction(WorthColumn(q))
  BY NoneAssumption DEF MarginSumsUp, DriftIsBounded, Sum, MarginColumn, ResultColumn,
     equity, computeUnrealizedPnl, WorthColumn, worth

\* An open row is worth an integer at every quote.
LEMMA WorthIsInteger ==
    ASSUME NEW p \in Row, NEW q \in Quotes, sym \in Symbols
    PROVE  /\ worth(p, q) \in Int /\ realizedPnl(p, q) = worth(p, q)
           /\ p.lots * sym.contractSize \in Nat
<1>. DEFINE m == p.lots * sym.contractSize
            d == markPrice(p.side, q) - p.entryPrice
            s == sideSign(p.side)
<1>1. m \in Nat /\ d \in Int /\ s \in {-1, 1}
  <2>1. p.lots \in Nat /\ sym.contractSize \in Nat /\ p.entryPrice \in Int
    BY DataAssumption DEF Row
  <2>2. markPrice(p.side, q) \in Int
    BY DataAssumption DEF markPrice
  <2>3. p.lots * sym.contractSize \in Nat
    BY <2>1
  <2>. QED  BY <2>1, <2>2, <2>3 DEF sideSign
<1>2. worth(p, q) = m * s * d /\ realizedPnl(p, q) = m * d * s
  BY DEF worth, realizedPnl
<1>. HIDE DEF m, d, s
<1>3. m * s * d \in Int /\ m * d * s = m * s * d
  BY <1>1
<1>. QED  BY <1>1, <1>2, <1>3 DEF m

Columns ==
    /\ MarginColumn \in [Ids -> Int] /\ ResultColumn \in [Ids -> Int]
    /\ \A q \in Quotes : WorthColumn(q) \in [Ids -> Int]

LEMMA ColumnTypes == Types => Columns
<1>. SUFFICES ASSUME Types PROVE Columns
  OBVIOUS
<1>1. \A id \in Open \cup Closed : position[id] \in Row
  BY DEF Types, Open, Closed
<1>2. \A id \in Open \cup Closed : position[id].marginUsed \in Int /\ position[id].realizedPnl \in Int
  BY <1>1 DEF Row
<1>3. \A id \in Open, q \in Quotes : worth(position[id], q) \in Int
  BY <1>1, WorthIsInteger DEF Types
<1>. QED  BY <1>2, <1>3 DEF Columns, MarginColumn, ResultColumn, WorthColumn

(***************************************************************************)
(* What an order and a close do to the rows                                *)
(***************************************************************************)

newRow(c) ==
    [status |-> "OPEN", side |-> c.side, lots |-> RoundDiv(c.lots, LotStep),
     leverage |-> c.leverage, entryPrice |-> entryPrice(c.side, c.quote),
     marginUsed |-> locked(c), realizedPnl |-> 0]

LEMMA RowOfOrder ==
    ASSUME Types, NEW c \in Order, c.lots > 0
    PROVE  newRow(c) \in Row /\ locked(c) \in Int
<1>1. /\ c.side \in Sides /\ c.lots \in Nat /\ c.leverage \in AllowedLeverage
      /\ c.leverage \in Nat \ {0} /\ c.quote \in Quotes
  <2>1. c.side \in Sides /\ c.lots \in Lots /\ c.leverage \in AllowedLeverage /\ c.quote \in Quotes
    BY DEF Order
  <2>2. c.lots \in Int /\ c.leverage \in Nat \ {0}
    BY <2>1, DataAssumption
  <2>. QED  BY <2>1, <2>2
<1>2. entryPrice(c.side, c.quote) \in Int
  BY <1>1, DataAssumption DEF entryPrice
<1>3. locked(c) \in Int
  <2>1. sym.contractSize \in Nat
    BY DataAssumption DEF Types
  <2>2. margin(c) \in Int
    BY <1>1, <1>2, <2>1 DEF margin
  <2>3. perUnit(c) \in Nat \ {0}
    BY <1>1, ScaleAssumption DEF perUnit
  <2>. QED  BY <2>2, <2>3, Rounding DEF locked
<1>4. RoundDiv(c.lots, LotStep) \in Nat
  BY <1>1, ScaleAssumption, RoundingNat
<1>. QED  BY <1>1, <1>2, <1>3, <1>4 DEF newRow, Row

\* The row of an order is a new one, the others stay.
LEMMA OpenEffect ==
    ASSUME Types, commitOpen
    PROVE  \E id \in Ids :
              /\ id \notin Open \cup Closed
              /\ position' = [position EXCEPT ![id] = newRow(call)]
              /\ Open' = Open \cup {id} /\ Closed' = Closed
<1>1. PICK id \in Ids : position[id] = NoRow /\ position' = [position EXCEPT ![id] = newRow(call)]
  BY DEF commitOpen, newRow
<1>2. call \in Order /\ call.lots > 0
  BY DEF commitOpen, Types
<1>3. newRow(call) \in Row
  BY <1>2, RowOfOrder
<1>4. position'[id] = newRow(call) /\ \A j \in Ids \ {id} : position'[j] = position[j]
  BY <1>1 DEF Types
<1>5. newRow(call) # NoRow /\ newRow(call).status = "OPEN"
  BY <1>3, NoneAssumption DEF newRow
<1>6. /\ position'[id] # NoRow /\ position'[id].status = "OPEN"
      /\ \A j \in Ids : j # id => position'[j] = position[j]
  BY <1>4, <1>5
<1>7. id \notin Open \cup Closed /\ Open' = Open \cup {id} /\ Closed' = Closed
  BY <1>1, <1>6 DEF Open, Closed
<1>. QED  BY <1>1, <1>7

\* The row of a close moves from the open to the closed ones, with its result.
LEMMA CloseEffect ==
    ASSUME Types, commitClose
    PROVE  LET id == call.id
               p == position[id]
           IN  /\ id \in Open /\ id \notin Closed /\ p \in Row /\ call.quote \in Quotes
               /\ position' = [position EXCEPT ![id] =
                      [p EXCEPT !.status = "CLOSED",
                                !.realizedPnl = RoundDiv(realizedPnl(p, call.quote), Scale)]]
               /\ Open' = Open \ {id} /\ Closed' = Closed \cup {id}
<1>. DEFINE id == call.id
            p == position[id]
            q == [p EXCEPT !.status = "CLOSED",
                           !.realizedPnl = RoundDiv(realizedPnl(p, call.quote), Scale)]
<1>1. call \in Close /\ id \in Open
  BY DEF commitClose, Types
<1>2. id \in Ids /\ call.quote \in Quotes /\ p # NoRow /\ p.status = "OPEN"
  BY <1>1 DEF Close, Open
<1>3. p \in Row
  BY <1>2 DEF Types
<1>4. position' = [position EXCEPT ![id] = q]
  BY <1>2, <1>3 DEF commitClose, Types, Row
<1>5. /\ position'[id] = q /\ \A j \in Ids \ {id} : position'[j] = position[j]
      /\ q.status = "CLOSED"
  BY <1>2, <1>3, <1>4 DEF Types, Row
<1>6. q \in Row
  <2>1. realizedPnl(p, call.quote) \in Int
    BY <1>2, <1>3, WorthIsInteger DEF Types
  <2>2. RoundDiv(realizedPnl(p, call.quote), Scale) \in Int
    BY <2>1, ScaleAssumption, Rounding
  <2>. QED  BY <1>3, <2>2 DEF Row
<1>7. q # NoRow
  BY <1>6, NoneAssumption
<1>8. id \notin Closed
  BY <1>2 DEF Closed
<1>9. Open' = Open \ {id} /\ Closed' = Closed \cup {id}
  <2>. HIDE DEF q, id
  <2>. QED  BY <1>2, <1>5, <1>7 DEF Open, Closed
<1>. QED  BY <1>1, <1>2, <1>3, <1>4, <1>8, <1>9

LEMMA TypesStep ==
    ASSUME Types, [Next]_vars
    PROVE  Types'
<1>1. ASSUME openPosition PROVE Types'
  <2>1. PICK side \in Sides, lots \in Lots, leverage \in AllowedLeverage :
            lots > 0 /\ call' = [op |-> "open", side |-> side, lots |-> lots,
                                 leverage |-> leverage, quote |-> quote]
    BY <1>1 DEF openPosition
  <2>2. quote \in Quotes /\ UNCHANGED <<sym, quote, wallet, position>>
    BY <1>1 DEF openPosition, Types
  <2>3. call' \in Order /\ call'.lots > 0 /\ call'.op = "open"
    BY <2>1, <2>2 DEF Order
  <2>. QED  BY <2>2, <2>3 DEF Types
<1>2. ASSUME commitOpen PROVE Types'
  <2>1. PICK id \in Ids : position' = [position EXCEPT ![id] = newRow(call)]
    BY <1>2, OpenEffect
  <2>2. call \in Order /\ call.lots > 0
    BY <1>2 DEF commitOpen, Types
  <2>3. newRow(call) \in Row /\ locked(call) \in Int
    BY <2>2, RowOfOrder
  <2>4. position' \in [Ids -> Row \cup {NoRow}]
    BY <2>1, <2>3 DEF Types
  <2>5. wallet' \in [balance : Int, marginUsed : Int] /\ call' = NoCall /\ UNCHANGED <<sym, quote>>
    BY <1>2, <2>3 DEF commitOpen, Types
  <2>. QED  BY <2>4, <2>5 DEF Types
<1>3. ASSUME closeInternal PROVE Types'
  <2>1. PICK id \in Open : call' = [op |-> "close", id |-> id, quote |-> quote]
    BY <1>3 DEF closeInternal
  <2>2. quote \in Quotes /\ UNCHANGED <<sym, quote, wallet, position>>
    BY <1>3 DEF closeInternal, Types
  <2>3. call' \in Close /\ call'.id \in Open /\ call'.op = "close"
    BY <2>1, <2>2 DEF Close, Open
  <2>4. Open' = Open
    BY <2>2 DEF Open
  <2>. QED  BY <2>2, <2>3, <2>4 DEF Types
<1>4. ASSUME commitClose PROVE Types'
  <2>. DEFINE p == position[call.id]
              result == realizedPnl(p, call.quote)
  <2>1. /\ call.id \in Ids /\ p \in Row /\ call.quote \in Quotes
        /\ position' = [position EXCEPT ![call.id] =
               [p EXCEPT !.status = "CLOSED", !.realizedPnl = RoundDiv(result, Scale)]]
    BY <1>4, CloseEffect DEF Open
  <2>2. result \in Int
    BY <2>1, WorthIsInteger DEF Types
  <2>3. wallet.balance \in Int /\ wallet.marginUsed \in Int /\ p.marginUsed \in Int
    BY <2>1 DEF Types, Row
  <2>4. RoundDiv(result, Scale) \in Int /\ RoundDiv(Scale * wallet.balance + result, Scale) \in Int
    <3>. HIDE DEF result
    <3>. QED  BY <2>2, <2>3, CloseRounds
  <2>5. wallet' \in [balance : Int, marginUsed : Int]
    <3>1. wallet' = [balance |-> RoundDiv(Scale * wallet.balance + result, Scale),
                     marginUsed |-> wallet.marginUsed - p.marginUsed]
      BY <1>4 DEF commitClose, newBalance, released
    <3>. HIDE DEF p, result
    <3>. QED  BY <2>3, <2>4, <3>1
  <2>6. position' \in [Ids -> Row \cup {NoRow}]
    <3>1. [p EXCEPT !.status = "CLOSED", !.realizedPnl = RoundDiv(result, Scale)] \in Row
      <4>. HIDE DEF p, result
      <4>. QED  BY <2>1, <2>4 DEF Row
    <3>. HIDE DEF p, result
    <3>. QED  BY <2>1, <3>1 DEF Types
  <2>7. call' = NoCall /\ UNCHANGED <<sym, quote>>
    BY <1>4 DEF commitClose
  <2>. QED  BY <2>5, <2>6, <2>7 DEF Types
<1>5. ASSUME refuseOpen PROVE Types'
  BY <1>5 DEF refuseOpen, Types
<1>6. ASSUME publishTick \/ UNCHANGED vars PROVE Types'
  <2>1. UNCHANGED <<sym, wallet, position, call>> /\ quote' \in Quotes \cup {NoQuote}
    BY <1>6 DEF publishTick, vars, Types
  <2>2. Open' = Open
    BY <2>1 DEF Open
  <2>. QED  BY <2>1, <2>2 DEF Types
<1>. QED  BY <1>1, <1>2, <1>3, <1>4, <1>5, <1>6 DEF Next

\* So they are before and after a step.
LEMMA ColumnsStep ==
    ASSUME Types, [Next]_vars
    PROVE  Columns /\ Columns'
<1>1. Types'
  BY TypesStep
<1>. QED  BY <1>1, ColumnTypes, PTL

\* What moves no row, and neither column of the wallet.
LEMMA QuietStep ==
    ASSUME openPosition \/ refuseOpen \/ closeInternal \/ publishTick \/ UNCHANGED vars
    PROVE  UNCHANGED <<wallet, position>>
BY DEF openPosition, refuseOpen, closeInternal, publishTick, vars

(***************************************************************************)
(* The rows explain the wallet                                             *)
(***************************************************************************)

\* MarginSumsUp and DriftIsBounded, with the columns as functions.
Explained ==
    /\ wallet.marginUsed = SumFunction(MarginColumn)
    /\ wallet.balance - InitialBalance - SumFunction(ResultColumn)
           \in -Cardinality(Closed) .. Cardinality(Closed)

LEMMA OpenExplained ==
    ASSUME Types, Explained, commitOpen
    PROVE  Explained'
<1>1. PICK id \in Ids :
          /\ id \notin Open \cup Closed
          /\ position' = [position EXCEPT ![id] = newRow(call)]
          /\ Open' = Open \cup {id} /\ Closed' = Closed
  BY OpenEffect
<1>2. /\ position'[id] = newRow(call) /\ newRow(call).marginUsed = locked(call)
      /\ \A j \in Ids \ {id} : position'[j] = position[j]
  BY <1>1 DEF Types, newRow
<1>3. locked(call) \in Int
  BY RowOfOrder DEF commitOpen, Types
<1>4. wallet' = [wallet EXCEPT !.marginUsed = @ + locked(call)]
  BY DEF commitOpen
<1>5. wallet'.balance = wallet.balance /\ wallet'.marginUsed = wallet.marginUsed + locked(call)
  BY <1>4 DEF Types
<1>6. ResultColumn' = ResultColumn
  BY <1>1, <1>2 DEF ResultColumn
<1>7. SumFunction(MarginColumn') = SumFunction(MarginColumn) + locked(call)
  <2>1. IsFiniteSet(Ids)
    BY DataAssumption
  <2>2. Columns /\ Columns'
    BY ColumnsStep DEF Next
  <2>3. MarginColumn \in [Ids -> Int] /\ MarginColumn' \in [Ids -> Int]
    BY <2>2 DEF Columns
  <2>4. \A j \in Ids \ {id} : MarginColumn'[j] = MarginColumn[j]
    BY <1>1, <1>2 DEF MarginColumn
  <2>5. MarginColumn[id] = 0 /\ MarginColumn'[id] = locked(call)
    BY <1>1, <1>2 DEF MarginColumn
  <2>6. SumFunction(MarginColumn') = SumFunction(MarginColumn) + (MarginColumn'[id] - MarginColumn[id])
    BY <2>1, <2>3, <2>4, SumOfChange
  <2>. QED  BY <1>3, <2>5, <2>6
<1>. QED  BY <1>1, <1>5, <1>6, <1>7 DEF Explained

LEMMA CloseExplained ==
    ASSUME Types, Explained, commitClose
    PROVE  Explained'
<1>. DEFINE id == call.id
            p == position[id]
            result == realizedPnl(p, call.quote)
            row == RoundDiv(result, Scale)
            new == RoundDiv(Scale * wallet.balance + result, Scale)
<1>1. /\ id \in Open /\ id \notin Closed /\ p \in Row /\ call.quote \in Quotes
      /\ position' = [position EXCEPT ![id] = [p EXCEPT !.status = "CLOSED", !.realizedPnl = row]]
      /\ Open' = Open \ {id} /\ Closed' = Closed \cup {id}
  BY CloseEffect
<1>2. id \in Ids /\ IsFiniteSet(Ids)
  BY <1>1, DataAssumption DEF Open
<1>3. position'[id].realizedPnl = row /\ \A j \in Ids \ {id} : position'[j] = position[j]
  <2>. HIDE DEF row, id
  <2>. QED  BY <1>1, <1>2 DEF Types, Row
<1>4. /\ wallet'.balance = new /\ wallet'.marginUsed = wallet.marginUsed - p.marginUsed
      /\ wallet.balance \in Int /\ wallet.marginUsed \in Int
  BY DEF commitClose, newBalance, released, Types
<1>5. result \in Int
  BY <1>1, WorthIsInteger DEF Types
<1>6. new \in Int /\ row \in Int /\ new - wallet.balance - row \in -1 .. 1
  <2>. HIDE DEF result
  <2>. QED  BY <1>4, <1>5, CloseRounds
<1>7. Columns /\ Columns'
  BY ColumnsStep DEF Next
<1>. HIDE DEF row, new, result, id, p
<1>8. SumFunction(MarginColumn') = SumFunction(MarginColumn) - p.marginUsed
  <2>1. MarginColumn \in [Ids -> Int] /\ MarginColumn' \in [Ids -> Int]
    BY <1>7 DEF Columns
  <2>2. \A j \in Ids \ {id} : MarginColumn'[j] = MarginColumn[j]
    BY <1>1, <1>3 DEF MarginColumn
  <2>3. MarginColumn[id] = p.marginUsed /\ MarginColumn'[id] = 0
    BY <1>1, <1>2 DEF MarginColumn, p
  <2>4. SumFunction(MarginColumn') = SumFunction(MarginColumn) + (MarginColumn'[id] - MarginColumn[id])
    BY <1>2, <2>1, <2>2, SumOfChange
  <2>5. p.marginUsed \in Int /\ SumFunction(MarginColumn) \in Int
    BY <1>1, <1>2, <2>1, SumType DEF Row
  <2>. QED  BY <2>3, <2>4, <2>5
<1>9. SumFunction(ResultColumn') = SumFunction(ResultColumn) + row /\ SumFunction(ResultColumn) \in Int
  <2>1. ResultColumn \in [Ids -> Int] /\ ResultColumn' \in [Ids -> Int]
    BY <1>7 DEF Columns
  <2>2. \A j \in Ids \ {id} : ResultColumn'[j] = ResultColumn[j]
    BY <1>1, <1>3 DEF ResultColumn
  <2>3. ResultColumn[id] = 0 /\ ResultColumn'[id] = row
    BY <1>1, <1>2, <1>3 DEF ResultColumn
  <2>4. SumFunction(ResultColumn') = SumFunction(ResultColumn) + (ResultColumn'[id] - ResultColumn[id])
    BY <1>2, <2>1, <2>2, SumOfChange
  <2>5. SumFunction(ResultColumn) \in Int
    BY <1>2, <2>1, SumType
  <2>. QED  BY <1>6, <2>3, <2>4, <2>5
<1>10. Cardinality(Closed) \in Nat /\ Cardinality(Closed') = Cardinality(Closed) + 1
  <2>1. IsFiniteSet(Closed)
    BY <1>2, FS_Subset DEF Closed
  <2>. QED  BY <1>1, <2>1, FS_AddElement, FS_CardinalityType
<1>11. wallet'.balance - InitialBalance - SumFunction(ResultColumn')
           \in -Cardinality(Closed') .. Cardinality(Closed')
  <2>1. /\ wallet.balance - InitialBalance - SumFunction(ResultColumn)
               \in -Cardinality(Closed) .. Cardinality(Closed)
        /\ InitialBalance \in Int
    BY DataAssumption DEF Explained
  <2>. QED  BY <1>4, <1>6, <1>9, <1>10, <2>1
<1>. QED  BY <1>4, <1>8, <1>11 DEF Explained

\* Without positions nothing is locked and nothing was gained or lost.
LEMMA InitExplained == Init => Types /\ Explained
<1>. SUFFICES ASSUME Init PROVE Types /\ Explained
  OBVIOUS
<1>1. Open = {} /\ Closed = {}
  BY DEF Init, Open, Closed
<1>2. Types
  BY DataAssumption DEF Init, Types
<1>3. IsFiniteSet(Ids) /\ MarginColumn \in [Ids -> Int] /\ ResultColumn \in [Ids -> Int]
  BY <1>2, ColumnTypes, DataAssumption DEF Columns
<1>4. SumFunction(MarginColumn) = 0 /\ SumFunction(ResultColumn) = 0
  <2>1. \A id \in Ids : MarginColumn[id] = 0 /\ ResultColumn[id] = 0
    BY <1>1 DEF MarginColumn, ResultColumn
  <2>. QED  BY <1>3, <2>1, SumType
<1>5. wallet.marginUsed = 0 /\ wallet.balance - InitialBalance - 0 = 0 /\ Cardinality(Closed) = 0
  BY <1>1, FS_EmptySet, DataAssumption DEF Init
<1>. QED  BY <1>2, <1>4, <1>5 DEF Explained

LEMMA ExplainedStep ==
    ASSUME Types, Explained, [Next]_vars
    PROVE  Explained'
<1>1. ASSUME UNCHANGED <<wallet, position>> PROVE Explained'
  BY <1>1 DEF Explained, MarginColumn, ResultColumn, Open, Closed
<1>. QED  BY <1>1, QuietStep, OpenExplained, CloseExplained DEF Next

\* The variables have their types: a close under way names a position that is open,
\* and every row an order leaves is one the columns can hold.
THEOREM TradesTyped == Spec => []Types
<1>1. Types /\ [Next]_vars => Types'
  BY TypesStep
<1>. QED  BY <1>1, InitExplained, PTL DEF Spec

\* The margins of the open rows add up to marginUsed to the last digit, the balance
\* and the results of the closed rows drift apart by no more than a digit a close:
\* whatever the quotes, the orders and the number of digits.
THEOREM WalletIsExplained == Spec => []RowsExplainWallet
<1>1. Types /\ Explained /\ [Next]_vars => (Types /\ Explained)'
  BY TypesStep, ExplainedStep
<1>2. Explained => RowsExplainWallet
  BY SumsOfColumns DEF Explained, RowsExplainWallet
<1>. QED  BY <1>1, <1>2, InitExplained, PTL DEF Spec

(***************************************************************************)
(* What trades are worth                                                   *)
(***************************************************************************)

\* The spread: a row is not worth more than nothing at the quote it was made at.
LEMMA SpreadIsPaid ==
    ASSUME Types, NEW c \in Order, c.lots > 0
    PROVE  worth(newRow(c), c.quote) <= 0
<1>. DEFINE p == newRow(c)
            m == p.lots * sym.contractSize
            d == markPrice(c.side, c.quote) - entryPrice(c.side, c.quote)
            s == sideSign(c.side)
<1>1. p \in Row
  BY RowOfOrder
<1>2. c.side \in Sides /\ c.quote \in Quotes
  BY DEF Order
<1>3. m \in Nat
  BY <1>1, <1>2, WorthIsInteger DEF Types
<1>4. worth(p, c.quote) = m * s * d
  BY DEF worth, newRow
<1>5. d \in Int /\ ((s = 1 /\ d <= 0) \/ (s = -1 /\ d >= 0))
  BY <1>2, DataAssumption DEF Sides, markPrice, entryPrice, sideSign
<1>. HIDE DEF m, d, s, p
<1>6. CASE s = 1 /\ d <= 0
  <2>1. -d \in Nat /\ m * s * d = -(m * (-d)) /\ m * (-d) \in Nat
    BY <1>3, <1>5, <1>6
  <2>. QED  BY <1>4, <2>1 DEF p
<1>7. CASE s = -1 /\ d >= 0
  <2>1. d \in Nat /\ m * s * d = -(m * d) /\ m * d \in Nat
    BY <1>3, <1>5, <1>7
  <2>. QED  BY <1>4, <2>1 DEF p
<1>. QED  BY <1>5, <1>6, <1>7

LEMMA EquityIsSum ==
    ASSUME NEW q \in Quotes
    PROVE  /\ equity(q) = Scale * wallet.balance + SumFunction(WorthColumn(q))
           /\ equity(q)' = Scale * wallet'.balance + SumFunction(WorthColumn(q)')
BY NoneAssumption DEF equity, computeUnrealizedPnl, Sum, WorthColumn, worth

LEMMA EquityTyped ==
    ASSUME Types, [Next]_vars, NEW q \in Quotes
    PROVE  equity(q) \in Int /\ equity(q)' \in Int
<1>1. Columns /\ Columns' /\ Types'
  BY ColumnsStep, TypesStep
<1>2. /\ WorthColumn(q) \in [Ids -> Int] /\ WorthColumn(q)' \in [Ids -> Int]
      /\ IsFiniteSet(Ids)
  BY <1>1, DataAssumption DEF Columns
<1>3. SumFunction(WorthColumn(q)) \in Int /\ SumFunction(WorthColumn(q)') \in Int
  BY <1>2, SumType
<1>4. Scale * wallet.balance \in Int /\ Scale * wallet'.balance \in Int
  <2>1. wallet.balance \in Int /\ wallet'.balance \in Int
    BY <1>1 DEF Types
  <2>. QED  BY <2>1, ScaleAssumption
<1>. QED  BY <1>3, <1>4, EquityIsSum

LEMMA OpenGainsNothing ==
    ASSUME Types, commitOpen, NEW q \in Quotes, call.quote = q
    PROVE  equity(q)' <= equity(q)
<1>1. call \in Order /\ call.lots > 0
  BY DEF commitOpen, Types
<1>2. PICK id \in Ids :
          /\ id \notin Open \cup Closed
          /\ position' = [position EXCEPT ![id] = newRow(call)]
          /\ Open' = Open \cup {id}
  BY OpenEffect
<1>3. position'[id] = newRow(call) /\ \A j \in Ids \ {id} : position'[j] = position[j]
  BY <1>2 DEF Types
<1>4. wallet'.balance = wallet.balance /\ sym' = sym /\ wallet.balance \in Int
  BY DEF commitOpen, Types
<1>5. Columns /\ Columns'
  BY ColumnsStep DEF Next
<1>6. \A j \in Ids : WorthColumn(q)'[j] = IF j \in Open' THEN worth(position'[j], q) ELSE 0
  BY <1>4 DEF WorthColumn, worth
<1>7. WorthColumn(q) \in [Ids -> Int] /\ WorthColumn(q)' \in [Ids -> Int] /\ IsFiniteSet(Ids)
  BY <1>1, <1>5, DataAssumption DEF Columns
<1>8. \A j \in Ids \ {id} : WorthColumn(q)'[j] = WorthColumn(q)[j]
  BY <1>2, <1>3, <1>6 DEF WorthColumn
<1>9. WorthColumn(q)[id] = 0 /\ WorthColumn(q)'[id] <= 0
  <2>1. worth(newRow(call), q) <= 0
    BY <1>1, SpreadIsPaid
  <2>. QED  BY <1>2, <1>3, <1>6, <2>1 DEF WorthColumn
<1>10. SumFunction(WorthColumn(q)') = SumFunction(WorthColumn(q)) + (WorthColumn(q)'[id] - WorthColumn(q)[id])
  BY <1>7, <1>8, SumOfChange
<1>11. SumFunction(WorthColumn(q)) \in Int /\ WorthColumn(q)'[id] \in Int
  BY <1>7, SumType
<1>12. Scale * wallet.balance \in Int
  BY <1>4, ScaleAssumption
<1>. QED  BY <1>4, <1>9, <1>10, <1>11, <1>12, EquityIsSum

LEMMA CloseGainsRounding ==
    ASSUME Types, commitClose, NEW q \in Quotes, call.quote = q
    PROVE  2 * (equity(q)' - equity(q)) <= Scale
<1>. DEFINE id == call.id
            p == position[id]
            result == realizedPnl(p, q)
            new == RoundDiv(Scale * wallet.balance + result, Scale)
<1>1. id \in Open /\ p \in Row /\ Open' = Open \ {id}
  BY CloseEffect
<1>2. id \in Ids /\ IsFiniteSet(Ids)
  BY <1>1, DataAssumption DEF Open
<1>3. \A j \in Ids \ {id} : position'[j] = position[j]
  BY CloseEffect DEF Types
<1>4. wallet'.balance = new /\ sym' = sym /\ wallet.balance \in Int
  BY DEF commitClose, newBalance, Types
<1>5. result \in Int /\ result = worth(p, q)
  BY <1>1, WorthIsInteger DEF Types
<1>6. new \in Int /\ 2 * (Scale * new - Scale * wallet.balance - result) <= Scale
  <2>. HIDE DEF result
  <2>. QED  BY <1>4, <1>5, CloseRounds
<1>7. Columns /\ Columns'
  BY ColumnsStep DEF Next
<1>8. \A j \in Ids : WorthColumn(q)'[j] = IF j \in Open' THEN worth(position'[j], q) ELSE 0
  BY <1>4 DEF WorthColumn, worth
<1>. HIDE DEF id, p, result, new
<1>9. WorthColumn(q) \in [Ids -> Int] /\ WorthColumn(q)' \in [Ids -> Int]
  BY <1>1, <1>7 DEF Columns
<1>10. \A j \in Ids \ {id} : WorthColumn(q)'[j] = WorthColumn(q)[j]
  BY <1>1, <1>3, <1>8 DEF WorthColumn
<1>11. WorthColumn(q)[id] = result /\ WorthColumn(q)'[id] = 0
  BY <1>1, <1>2, <1>5, <1>8 DEF WorthColumn, p
<1>12. SumFunction(WorthColumn(q)') = SumFunction(WorthColumn(q)) + (WorthColumn(q)'[id] - WorthColumn(q)[id])
  BY <1>2, <1>9, <1>10, SumOfChange
<1>13. SumFunction(WorthColumn(q)) \in Int
  BY <1>2, <1>9, SumType
<1>14. Scale * wallet.balance \in Int /\ Scale * new \in Int /\ Scale \in Int
  BY <1>4, <1>6, ScaleAssumption
<1>15. equity(q)' - equity(q) = Scale * new - Scale * wallet.balance - result
  BY <1>4, <1>5, <1>11, <1>12, <1>13, <1>14, EquityIsSum
<1>. QED  BY <1>6, <1>15

LEMMA ClosePaysView ==
    ASSUME Types, commitClose
    PROVE  ShownIsPaid
<1>. SUFFICES ASSUME NEW id \in Open \cap Closed'
              PROVE  LET gap == position'[id].realizedPnl - Cent * computePnl(position[id], call.quote)
                     IN  2 * gap \in -(Cent + 1) .. Cent + 1
  BY DEF ShownIsPaid
<1>1. /\ id = call.id /\ position[id] \in Row /\ call.quote \in Quotes /\ id \in Ids
      /\ position'[id].realizedPnl = RoundDiv(realizedPnl(position[id], call.quote), Scale)
  <2>1. id \notin Closed /\ id \in Ids
    BY DEF Open, Closed
  <2>2. id = call.id /\ position[id] \in Row /\ call.quote \in Quotes
    BY <2>1, CloseEffect
  <2>. DEFINE row == RoundDiv(realizedPnl(position[id], call.quote), Scale)
  <2>3. position' = [position EXCEPT ![id] = [position[id] EXCEPT !.status = "CLOSED",
                                                                 !.realizedPnl = row]]
    BY <2>2, CloseEffect
  <2>4. position'[id].realizedPnl = row
    <3>. HIDE DEF row
    <3>. QED  BY <2>1, <2>2, <2>3 DEF Types, Row
  <2>. QED  BY <2>1, <2>2, <2>4
<1>2. realizedPnl(position[id], call.quote) \in Int
  BY <1>1, WorthIsInteger DEF Types
<1>3. computePnl(position[id], call.quote) = RoundDiv(realizedPnl(position[id], call.quote), Scale * Cent)
  BY DEF computePnl, realizedPnl
<1>. QED  BY <1>1, <1>2, <1>3, ViewRounds

\* No sequence of orders and closes gains by itself: at the quote it executes at, an
\* order costs the spread and a close turns into balance what was shown as profit,
\* up to half of the last digit; and it pays what the views showed, up to half a cent.
THEOREM TradesAreWorthTheirViews == Spec => WorthWhatIsShown
<1>1. ASSUME Types, [Next]_vars PROVE [NothingGained /\ ShownIsPaid]_vars
  <2>1. CASE commitOpen
    <3>1. Closed' = Closed /\ Open \cap Closed = {}
      BY <1>1, <2>1, OpenEffect DEF Open, Closed
    <3>2. ShownIsPaid
      BY <3>1 DEF ShownIsPaid
    <3>3. NothingGained
      <4>1. SUFFICES ASSUME NEW q \in Quotes, call.quote = q
                     PROVE  2 * (equity(q)' - equity(q)) <= Scale
        BY DEF NothingGained
      <4>2. equity(q)' <= equity(q)
        BY <1>1, <2>1, <4>1, OpenGainsNothing
      <4>3. equity(q) \in Int /\ equity(q)' \in Int /\ Scale \in Nat
        BY <1>1, <4>1, EquityTyped, ScaleAssumption
      <4>. QED  BY <4>2, <4>3
    <3>. QED  BY <3>2, <3>3
  <2>2. CASE commitClose
    <3>1. NothingGained
      BY <1>1, <2>2, CloseGainsRounding DEF NothingGained
    <3>. QED  BY <1>1, <2>2, <3>1, ClosePaysView
  <2>3. CASE openPosition \/ refuseOpen \/ closeInternal \/ publishTick \/ UNCHANGED vars
    <3>1. UNCHANGED <<wallet, position>>
      BY <2>3, QuietStep
    <3>2. Open \cap Closed' = {}
      BY <3>1 DEF Open, Closed
    <3>3. ShownIsPaid
      BY <3>2 DEF ShownIsPaid
    <3>4. sym' = sym
      BY <2>3 DEF openPosition, refuseOpen, closeInternal, publishTick, vars
    <3>5. ASSUME NEW q \in Quotes PROVE 2 * (equity(q)' - equity(q)) <= Scale
      <4>1. equity(q)' = equity(q)
        BY <3>1, <3>4 DEF equity, computeUnrealizedPnl, Open, markPrice, sideSign, Sum
      <4>2. equity(q) \in Int /\ Scale \in Nat
        BY <1>1, EquityTyped, ScaleAssumption
      <4>. QED  BY <4>1, <4>2
    <3>6. NothingGained
      BY <3>5 DEF NothingGained
    <3>. QED  BY <3>3, <3>6
  <2>. QED  BY <1>1, <2>1, <2>2, <2>3 DEF Next
<1>. QED  BY <1>1, TradesTyped, PTL DEF Spec, WorthWhatIsShown
=================================================================================
