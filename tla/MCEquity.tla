-------------------------------- MODULE MCEquity --------------------------------
(* Equity with a symbol of each region, three quotes, orders of less than a *)
(* digit of the column, of one and of one and a half; positions are alike.   *)
EXTENDS Equity, TLC

MCSymbols == {[region |-> "GLOBAL", lotSize |-> 1, contractSize |-> 3],
              [region |-> "IN", lotSize |-> 1, contractSize |-> 1]}

MCQuotes == {[bid |-> 1, ask |-> 2], [bid |-> 3, ask |-> 3], [bid |-> 4, ask |-> 6]}

Symmetry == Permutations(Ids)
=============================================================================
