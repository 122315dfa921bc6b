-------------------------- MODULE MCOrderComposition --------------------------
(***************************************************************************)
(* Prices of every unit and sign that validation or rendering tells apart, *)
(* and days around leap days, a century and the ends of a year.            *)
(***************************************************************************)
EXTENDS OrderComposition

MCClosePrices == { [unit |-> "static", sign |-> "pos"],
                   [unit |-> "static", sign |-> "neg"],
                   [unit |-> "pct", sign |-> "pos"] }

MCPrices == MCClosePrices \cup { [unit |-> "quote", sign |-> "zero"],
                                [unit |-> "static", sign |-> "zero"],
                                [unit |-> "pct", sign |-> "neg"] }

\* A trailing-stop-limit takes three setters; margin meets leverage in two.
MCMaxSets == [order |-> 3, batch |-> 2, amend |-> 5]

MCTimes == { [day |-> 0, tod |-> 0],            \* 1970-01-01
             [day |-> 11016, tod |-> 86399],    \* 2000-02-29
             [day |-> 47540, tod |-> 3661],     \* 2100-02-28
             [day |-> 47541, tod |-> 59] }      \* 2100-03-01

=============================================================================
